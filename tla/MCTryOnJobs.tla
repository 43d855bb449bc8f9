---------------------------- MODULE MCTryOnJobs ----------------------------
(* TryOnJobs on small sets of jobs, accounts and keys. *)
EXTENDS TryOnJobs, TLC

Symmetry == Permutations(Jobs)
=============================================================================

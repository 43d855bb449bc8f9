---------------------------- MODULE MCAdmission ----------------------------
(* Admission on small sets of requests, workers and bodies. *)
EXTENDS Admission, TLC

Symmetry == Permutations(Requests) \cup Permutations(Bodies)
              \cup Permutations(Workers)
=============================================================================

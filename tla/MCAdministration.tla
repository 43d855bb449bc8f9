--------------------------- MODULE MCAdministration ---------------------------
(* Accounts, links and workers are interchangeable.                        *)
EXTENDS Administration, TLC

Symmetry == Permutations(Accounts) \cup Permutations(Links)
              \cup Permutations(Workers)

=============================================================================

-------------------------- MODULE MCSessionDecision --------------------------
(***************************************************************************)
(* SessionDecision on small instances: the bounds are in the configs.      *)
(***************************************************************************)
EXTENDS SessionDecision, TLC

Symmetry == Permutations(Operations) \cup Permutations(Sessions)
            \cup Permutations(Subjects) \cup Permutations(Requests)

============================================================================

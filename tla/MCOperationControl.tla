------------------------- MODULE MCOperationControl -------------------------
(***************************************************************************)
(* OperationControl on small instances.  Requests and sessions are         *)
(* interchangeable in every safety run; the liveness runs use no symmetry. *)
(***************************************************************************)
EXTENDS OperationControl, TLC

CONSTANTS r1, r2, s1, s2

Symmetry == Permutations(Requests) \cup Permutations(Sessions)

============================================================================

--------------------------- MODULE MCManagerUpdate ---------------------------
(* Bounded instances of ManagerUpdate for TLC. *)
EXTENDS ManagerUpdate, TLC

Symmetry == Permutations(Workers)
=============================================================================

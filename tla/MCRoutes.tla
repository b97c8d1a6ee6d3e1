------------------------------ MODULE MCRoutes ------------------------------
(***************************************************************************)
(* Instances of Routes: two callers, two accounts.                         *)
(***************************************************************************)
EXTENDS Routes, TLC

CONSTANTS p1, p2

MCCallers == {p1, p2}
MCAccounts == {1, 2}
MCSymmetry == Permutations(MCCallers)
=============================================================================

----------------------------- MODULE MCApiKeys -----------------------------
(***************************************************************************)
(* Instances of ApiKeys.                                                   *)
(***************************************************************************)
EXTENDS ApiKeys, TLC

CONSTANTS k1, k2, k3, q1, o1, g1, g2, v1

Alike == Permutations(Keys)

=============================================================================

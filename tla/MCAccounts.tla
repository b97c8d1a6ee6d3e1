----------------------------- MODULE MCAccounts -----------------------------
(***************************************************************************)
(* Instances of Accounts.                                                  *)
(***************************************************************************)
EXTENDS Accounts, TLC

CONSTANTS a1, n1, l1, x1, d1, d2, r1

Alike == Permutations(Deleters)

=============================================================================

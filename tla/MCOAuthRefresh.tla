--------------------------- MODULE MCOAuthRefresh ---------------------------
(***************************************************************************)
(* Instances of OAuthRefresh: an upstream call p1, the proactive loop l1,   *)
(* a model discovery d1.                                                   *)
(***************************************************************************)
EXTENDS OAuthRefresh, TLC

CONSTANTS p1, l1, d1

=============================================================================

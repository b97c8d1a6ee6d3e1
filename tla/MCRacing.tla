------------------------------ MODULE MCRacing ------------------------------
(***************************************************************************)
(* Instances of Racing.                                                    *)
(***************************************************************************)
EXTENDS Racing

CONSTANTS a, b, m  \* an API key, an OAuth seat behind a bridge, a bad URL

=============================================================================

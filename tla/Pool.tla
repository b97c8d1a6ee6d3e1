-------------------------------- MODULE Pool ---------------------------------
(***************************************************************************)
(* The accounts of a route, by their position in it.                       *)
(***************************************************************************)
CONSTANTS
  Seats,  \* accounts of the route
  OAuth   \* those with a vendor's credential, the rest have API keys
=============================================================================

----------------------------- MODULE MCDispatch -----------------------------
(***************************************************************************)
(* Instances of Dispatch: a primary route of two seats, a fallback route   *)
(* that shares one of them, a route that has no seat.                      *)
(***************************************************************************)
EXTENDS Dispatch, TLC

CONSTANTS r1, r2, s1, s2, main, spare, bare, k1

Order == s1 :> 1 @@ s2 :> 2

MCPool == main :> {s1, s2} @@ spare :> {s2} @@ bare :> {}
MCRank == [rt \in Routes |-> Order]
MCCoolFor == [o \in SoftOutcomes |-> 1]
MCServable == [r \in Requests |-> IF r = r2 THEN {s2} ELSE Seats]

\* Both belong to one session; r2 is an image request.
MCSessionOf == [r \in Requests |-> k1]
MCChain == [r \in Requests |-> IF r = r1 THEN <<main, spare, bare>> ELSE <<main>>]

=============================================================================

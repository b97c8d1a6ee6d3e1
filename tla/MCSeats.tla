------------------------------ MODULE MCSeats -------------------------------
(***************************************************************************)
(* Instances of Seats: three seats, two of them OAuth.                     *)
(***************************************************************************)
EXTENDS Seats, TLC

CONSTANTS r1, r2

MCSeats == {1, 2, 3}
MCOAuth == {1, 2}

\* Spent, low and full; an early and a late reset, or none.
MCReports ==
  {[pct |-> q[1], reset |-> q[2]] : q \in {<<0, 1>>, <<1, 2>>, <<2, 1>>, <<2, 3>>}}

\* Two sessions take turns; one session reads quotas that change twice.
MCCasts ==
  {[strategy |-> s, requests |-> {r1, r2}, writes |-> 0, picks |-> 5] :
     s \in {"round_robin", "weighted"}}
    \cup {[strategy |-> s, requests |-> {r1}, writes |-> 2, picks |-> 2] :
            s \in {"quota_aware", "reset_soon", "steward"}}
=============================================================================

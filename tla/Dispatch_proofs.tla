--------------------------- MODULE Dispatch_proofs ---------------------------
(***************************************************************************)
(* Theorems about the sequential dispatch, for any number of requests,     *)
(* seats and routes.                                                       *)
(***************************************************************************)
EXTENDS Dispatch, SequenceTheorems, TLAPS

(***************************************************************************)
(* Type correctness.  TypeOK alone is not inductive: the account of a      *)
(* running call must be known to be a seat, which CallIsTried says.        *)
(***************************************************************************)
Typed == TypeOK /\ CallIsTried

LEMMA TypedInit == Init => Typed
  BY DispatchAssumption
     DEF Init, Typed, TypeOK, CallIsTried, Results, NoResult, Locations,
         Outcomes, Kinds, InCall

\* The results the actions build are Results.
LEMMA ResultTypes ==
  ASSUME TypeOK, NEW r \in Requests
  PROVE  /\ Failed \in Results
         /\ Cooling \in Results
         /\ [kind |-> "fail", seat |-> acc[r], attempts |-> attempts[r],
             failovers |-> failovers[r]] \in Results
         /\ Reply(r, "noaccounts", NoSeat, 0, << >>) \in Results
         /\ Reply(r, "ok", acc[r], attempts[r], failovers[r]) \in Results
         /\ Reply(r, "hard", acc[r], attempts[r], failovers[r]) \in Results
<1>1. res[r].attempts \in Nat
  BY DEF TypeOK, Results
<1>2. << >> \in Seq(Seats)
  OBVIOUS
<1>3. Failed \in Results /\ Cooling \in Results
  <2>1. /\ Failed = [kind |-> "error", seat |-> NoSeat, attempts |-> 0,
                     failovers |-> << >>]
        /\ Cooling = [kind |-> "cooling", seat |-> NoSeat, attempts |-> 0,
                      failovers |-> << >>]
    BY DEF Failed, Cooling, NoResult
  <2>2. \A k \in Kinds : [kind |-> k, seat |-> NoSeat, attempts |-> 0,
                         failovers |-> << >>] \in Results
    BY <1>2 DEF Results
  <2> QED BY <2>1, <2>2 DEF Kinds
<1> QED
  BY <1>1, <1>2, <1>3 DEF TypeOK, Results, Reply, Kinds

LEMMA TypedEnvironment ==
  ASSUME Typed,
         \/ \E r \in Requests : Start(r) \/ HangUp(r)
         \/ Tick
         \/ \E k \in Sessions : AffinityExpires(k)
         \/ \E s \in Seats : ProbeHealthy(s) \/ ProbeUnhealthy(s)
         \/ UNCHANGED vars
  PROVE  Typed'
<1> USE DEF Typed, TypeOK, CallIsTried, shared, run, past
<1>1. ASSUME NEW r \in Requests, Start(r) PROVE Typed'
  BY <1>1 DEF Start, Goto, Locations, InCall
<1>2. ASSUME NEW r \in Requests, HangUp(r) PROVE Typed'
  BY <1>2 DEF HangUp
<1>3. CASE Tick
  BY <1>3 DEF Tick, Minus1
<1>4. ASSUME NEW k \in Sessions, AffinityExpires(k) PROVE Typed'
  BY <1>4 DEF AffinityExpires
<1>5. ASSUME NEW s \in Seats, ProbeHealthy(s) PROVE Typed'
  BY <1>5 DEF ProbeHealthy, Lift
<1>6. ASSUME NEW s \in Seats, ProbeUnhealthy(s) PROVE Typed'
  BY <1>6, DispatchAssumption DEF ProbeUnhealthy
<1>7. CASE UNCHANGED vars
  BY <1>7 DEF vars
<1> QED
  BY <1>1, <1>2, <1>3, <1>4, <1>5, <1>6, <1>7

LEMMA TypedStep ==
  ASSUME Typed, NEW r \in Requests, Step(r)
  PROVE  Typed'
<1> USE DEF Typed, TypeOK, CallIsTried, shared, run, past, Goto, InCall,
            Locations
<1>0. Here(r) \in Routes /\ Pool[Here(r)] \subseteq Seats
  BY DispatchAssumption DEF Here
<1>1. CASE List(r)
  <2>1. FilterServable(r, Usable(r)) \in SUBSET Seats
    BY <1>0 DEF FilterServable, Usable
  <2> QED BY <1>1, <2>1 DEF List
<1>2. CASE ListNone(r)
  BY <1>2 DEF ListNone
<1>3. CASE ListNoneFiltered(r)
  BY <1>3, ResultTypes DEF ListNoneFiltered, Return
<1>4. CASE ListFails(r)
  BY <1>4, ResultTypes DEF ListFails, Return
<1>5. CASE Empty(r)
  <2>1. CASE Pool[Here(r)] = {}
    <3>1. /\ pc' = [pc EXCEPT ![r] = "done"]
          /\ res' = [res EXCEPT ![r] = Reply(r, "noaccounts", NoSeat, 0, << >>)]
      BY <1>5, <2>1 DEF Empty, Return
    <3> QED BY <1>5, <3>1, ResultTypes DEF Empty
  <2>2. CASE Pool[Here(r)] # {}
    <3>1. /\ pc' = [pc EXCEPT ![r] = "fallback"]
          /\ res' = [res EXCEPT ![r] = Cooling]
      BY <1>5, <2>2 DEF Empty, Return
    <3> QED BY <1>5, <3>1, ResultTypes DEF Empty
  <2> QED BY <2>1, <2>2
<1>6. CASE Session(r)
  BY <1>6, DispatchAssumption DEF Session
<1>7. CASE Pick(r)
  <2>1. PICK s \in Picks(r) : /\ acc' = [acc EXCEPT ![r] = s]
                              /\ tried' = [tried EXCEPT ![r] = @ \cup {s}]
                              /\ log' = [log EXCEPT ![r] = Append(@, s)]
    BY <1>7 DEF Pick
  <2>2. s \in Seats
    BY DEF Picks, Candidates
  <2> QED BY <1>7, <2>1, <2>2 DEF Pick
<1>8. CASE Exhausted(r)
  BY <1>8, ResultTypes DEF Exhausted, Return
<1>9. CASE Answer(r)
  <2>1. PICK o \in Answers(r) :
          /\ outcome' = [outcome EXCEPT ![r] = o]
          /\ pc' = [pc EXCEPT ![r] = AfterAnswer(o)]
          /\ res' = IF o = "error" THEN [res EXCEPT ![r] = Failed] ELSE res
    BY <1>9 DEF Answer
  <2>2. o \in Outcomes
    BY DEF Answers, Outcomes, SoftOutcomes
  <2>3. AfterAnswer(o) \in Locations
    BY <2>2 DEF Outcomes, SoftOutcomes, AfterAnswer
  <2>4. acc[r] \in Seats
    BY <1>9 DEF Answer
  <2>5. AfterAnswer(o) \in {"note", "cool"} => o \in SoftOutcomes
    BY <2>2 DEF Outcomes, SoftOutcomes, AfterAnswer
  <2> QED BY <1>9, <2>1, <2>2, <2>3, <2>4, <2>5, ResultTypes DEF Answer
<1>10. CASE Note(r)
  BY <1>10, DispatchAssumption DEF Note
<1>11. CASE Cool(r)
  <2>1. acc[r] \in Seats
    BY <1>11 DEF Cool
  <2>2. CoolFor[outcome[r]] \in Nat
    BY <1>11, DispatchAssumption DEF Cool
  <2>3. cool' \in [Seats -> Nat] /\ rest' \in [Requests -> SUBSET Seats]
    <3>1. CASE UNCHANGED <<cool, rest>>
      BY <3>1
    <3>2. CASE /\ cool' = [cool EXCEPT ![acc[r]] = CoolFor[outcome[r]]]
               /\ rest' = [rest EXCEPT ![r] = @ \cup {acc[r]}]
      BY <2>1, <2>2, <3>2
    <3> QED BY <1>11, <3>1, <3>2 DEF Cool
  <2>4. /\ pc[r] = "cool" /\ pc' = [pc EXCEPT ![r] = "pick"]
        /\ failovers' = [failovers EXCEPT ![r] = Append(@, acc[r])]
        /\ UNCHANGED <<soft, sticky, gone, at, avail, tried, prefer, acc,
                       outcome, attempts, res, log, base>>
    BY <1>11 DEF Cool
  <2>5. failovers' \in [Requests -> Seq(Seats)]
    BY <2>1, <2>4
  <2> QED BY <2>3, <2>4, <2>5
<1>12. CASE Clear(r)
  BY <1>12 DEF Clear
<1>13. CASE Heal(r)
  <2>1. CASE UNCHANGED <<cool, rest>>
    BY <1>13, <2>1 DEF Heal
  <2>2. CASE Lift({acc[r]})
    BY <1>13, <2>2 DEF Heal, Lift
  <2> QED BY <1>13, <2>1, <2>2 DEF Heal
<1>14. CASE Stick(r)
  <2>1. acc[r] \in Seats
    BY <1>14 DEF Stick
  <2>2. sticky' \in [Sessions -> Seats \cup {NoSeat}]
    BY <1>14, <2>1 DEF Stick
  <2> QED BY <1>14, <2>2, ResultTypes DEF Stick, Return
<1>15. CASE Hard(r)
  BY <1>15, ResultTypes DEF Hard, Return
<1>16. CASE Fallback(r)
  BY <1>16 DEF Fallback
<1>17. CASE FallbackSkipped(r)
  BY <1>17 DEF FallbackSkipped
<1>18. CASE NoFallbackLeft(r)
  BY <1>18 DEF NoFallbackLeft
<1> QED
  BY <1>1, <1>2, <1>3, <1>4, <1>5, <1>6, <1>7, <1>8, <1>9, <1>10, <1>11,
     <1>12, <1>13, <1>14, <1>15, <1>16, <1>17, <1>18 DEF Step

LEMMA TypedNext == Typed /\ [Next]_vars => Typed'
  BY TypedEnvironment, TypedStep DEF Next

\* Every variable keeps its type in every behaviour of the dispatch.
THEOREM TypeCorrect == Spec => []TypeOK
<1>1. Typed => TypeOK
  BY DEF Typed
<1> QED
  BY TypedInit, TypedNext, <1>1, PTL DEF Spec

LEMMA TypedAlways == Spec => []Typed
  BY TypedInit, TypedNext, PTL DEF Spec

-----------------------------------------------------------------------------
(***************************************************************************)
(* A seat a request cooled is not called again by it.  Between the failed  *)
(* call and the next one lie other requests, the prober, time and the      *)
(* fallback routes; RestIsRespected is what all of them preserve: a seat   *)
(* at rest still cools, so no later listing returns it, and the listing in *)
(* hand has it tried.                                                      *)
(***************************************************************************)
RestInv == RestIsRespected /\ NoRetryWhileCooling

LEMMA RestEnvironment ==
  ASSUME Typed, RestInv,
         \/ \E r \in Requests : Start(r) \/ HangUp(r)
         \/ Tick
         \/ \E k \in Sessions : AffinityExpires(k)
         \/ \E s \in Seats : ProbeHealthy(s) \/ ProbeUnhealthy(s)
         \/ UNCHANGED vars
  PROVE  RestInv'
<1> USE DEF Typed, TypeOK, RestInv, RestIsRespected, NoRetryWhileCooling,
            shared, run, past
<1>1. ASSUME NEW r \in Requests, Start(r) PROVE RestInv'
  BY <1>1 DEF Start, Goto, Dispatching, InLoop, InCall
<1>2. ASSUME NEW r \in Requests, HangUp(r) PROVE RestInv'
  BY <1>2 DEF HangUp
<1>3. CASE Tick
  BY <1>3 DEF Tick, Minus1
<1>4. ASSUME NEW k \in Sessions, AffinityExpires(k) PROVE RestInv'
  BY <1>4 DEF AffinityExpires
<1>5. ASSUME NEW s \in Seats, ProbeHealthy(s) PROVE RestInv'
  BY <1>5 DEF ProbeHealthy, Lift
<1>6. ASSUME NEW s \in Seats, ProbeUnhealthy(s) PROVE RestInv'
  <2>1. ProbeCool > 0
    BY DispatchAssumption
  <2>2. \A t \in Seats : cool[t] > 0 => cool'[t] > 0
    BY <1>6, <2>1 DEF ProbeUnhealthy
  <2>3. UNCHANGED <<pc, acc, avail, tried, rest>>
    BY <1>6 DEF ProbeUnhealthy
  <2> QED BY <2>2, <2>3
<1>7. CASE UNCHANGED vars
  BY <1>7 DEF vars
<1> QED
  BY <1>1, <1>2, <1>3, <1>4, <1>5, <1>6, <1>7

LEMMA RestStep ==
  ASSUME Typed, RestInv, NEW r \in Requests, Step(r)
  PROVE  RestInv'
<1> USE DEF Typed, TypeOK, RestInv, RestIsRespected, NoRetryWhileCooling,
            shared, run, past, Goto, Dispatching, InLoop, InCall
<1>1. CASE List(r)
  <2>1. \A s \in FilterServable(r, Usable(r)) : cool[s] = 0
    BY DEF FilterServable, Usable
  <2>2. rest[r] \cap FilterServable(r, Usable(r)) = {}
    BY <2>1
  <2> QED BY <1>1, <2>2 DEF List
<1>2. CASE ListNone(r)
  BY <1>2 DEF ListNone
<1>3. CASE ListNoneFiltered(r)
  BY <1>3 DEF ListNoneFiltered
<1>4. CASE ListFails(r)
  BY <1>4 DEF ListFails
<1>5. CASE Empty(r)
  BY <1>5 DEF Empty
<1>6. CASE Session(r)
  BY <1>6 DEF Session
<1>7. CASE Pick(r)
  <2>1. PICK s \in Picks(r) : /\ acc' = [acc EXCEPT ![r] = s]
                              /\ tried' = [tried EXCEPT ![r] = @ \cup {s}]
    BY <1>7 DEF Pick
  <2>2. s \in avail[r] /\ s \notin tried[r]
    BY DEF Picks, Candidates
  <2>3. s \notin rest[r]
    BY <1>7, <2>2 DEF Pick
  <2> QED BY <1>7, <2>1, <2>3 DEF Pick
<1>8. CASE Exhausted(r)
  BY <1>8 DEF Exhausted
<1>9. CASE Answer(r)
  BY <1>9 DEF Answer, AfterAnswer
<1>10. CASE Note(r)
  BY <1>10 DEF Note
<1>11. CASE Cool(r)
  <2>1. acc[r] \in Seats /\ acc[r] \in tried[r]
    BY <1>11 DEF Cool, CallIsTried
  <2>2. CoolFor[outcome[r]] \in Nat \ {0}
    BY <1>11, DispatchAssumption DEF Cool, CallIsTried
  <2>5. /\ pc[r] = "cool" /\ pc' = [pc EXCEPT ![r] = "pick"]
        /\ failovers' = [failovers EXCEPT ![r] = Append(@, acc[r])]
        /\ UNCHANGED <<soft, sticky, gone, at, avail, tried, prefer, acc,
                       outcome, attempts, res, log, base>>
    BY <1>11 DEF Cool
  <2>3. CASE UNCHANGED <<cool, rest>>
    BY <2>3, <2>5
  <2>4. CASE /\ cool' = [cool EXCEPT ![acc[r]] = CoolFor[outcome[r]]]
             /\ rest' = [rest EXCEPT ![r] = @ \cup {acc[r]}]
    <3>1. \A s \in Seats : cool[s] > 0 => cool'[s] > 0
      BY <2>1, <2>2, <2>4
    <3>2. /\ cool'[acc[r]] > 0
          /\ \A q \in Requests : rest'[q] \subseteq rest[q] \cup {acc[r]}
          /\ \A q \in Requests : q # r => rest'[q] = rest[q]
      BY <2>1, <2>2, <2>4
    <3> QED BY <2>1, <2>5, <3>1, <3>2
  <2> QED BY <1>11, <2>3, <2>4 DEF Cool
<1>12. CASE Clear(r)
  BY <1>12 DEF Clear
<1>13. CASE Heal(r)
  <2>1. CASE UNCHANGED <<cool, rest>>
    BY <1>13, <2>1 DEF Heal
  <2>2. CASE Lift({acc[r]})
    BY <1>13, <2>2 DEF Heal, Lift
  <2> QED BY <1>13, <2>1, <2>2 DEF Heal
<1>14. CASE Stick(r)
  BY <1>14 DEF Stick
<1>15. CASE Hard(r)
  BY <1>15 DEF Hard
<1>16. CASE Fallback(r)
  BY <1>16 DEF Fallback
<1>17. CASE FallbackSkipped(r)
  BY <1>17 DEF FallbackSkipped
<1>18. CASE NoFallbackLeft(r)
  BY <1>18 DEF NoFallbackLeft
<1> QED
  BY <1>1, <1>2, <1>3, <1>4, <1>5, <1>6, <1>7, <1>8, <1>9, <1>10, <1>11,
     <1>12, <1>13, <1>14, <1>15, <1>16, <1>17, <1>18 DEF Step

\* A request never calls a seat it cooled and whose cooldown nothing lifted.
THEOREM RestRespected == Spec => []NoRetryWhileCooling
<1>1. Init => RestInv
  BY DEF Init, RestInv, RestIsRespected, NoRetryWhileCooling, Dispatching,
         InLoop, InCall
<1>2. Typed /\ RestInv /\ [Next]_vars => RestInv'
  BY RestEnvironment, RestStep DEF Next
<1>3. RestInv => NoRetryWhileCooling
  BY DEF RestInv
<1> QED
  BY <1>1, <1>2, <1>3, TypedAlways, PTL DEF Spec

-----------------------------------------------------------------------------
(***************************************************************************)
(* The dispatch implements the abstract failover.  Each action of a        *)
(* request moves only that request's abstract state (OthersKept), by one   *)
(* abstract action or by none.                                             *)
(***************************************************************************)
\* What a request holds while it looks for a fallback route is a failure.
FallbackHolds ==
  \A r \in Requests : pc[r] = "fallback" => res[r].kind \in {"fail", "cooling"}

LEMMA FallbackHoldsInit == Init => FallbackHolds
  BY DEF Init, FallbackHolds

LEMMA FallbackHoldsNext == Typed /\ FallbackHolds /\ [Next]_vars => FallbackHolds'
<1> SUFFICES ASSUME Typed, FallbackHolds, [Next]_vars PROVE FallbackHolds'
  OBVIOUS
<1> USE DEF Typed, TypeOK, FallbackHolds, shared, run, past, Goto, Return
<1>1. ASSUME NEW r \in Requests, Step(r) PROVE FallbackHolds'
  <2>1. CASE Exhausted(r)
    BY <2>1 DEF Exhausted
  <2>2. CASE Empty(r)
    <3>1. Cooling.kind = "cooling"
      BY DEF Cooling, NoResult
    <3>2. CASE Pool[Here(r)] = {}
      BY <2>2, <3>2 DEF Empty
    <3>3. CASE Pool[Here(r)] # {}
      BY <2>2, <3>1, <3>3 DEF Empty
    <3> QED BY <3>2, <3>3
  <2>3. CASE Answer(r)
    BY <2>3 DEF Answer, AfterAnswer
  <2>4. CASE List(r) \/ ListNone(r) \/ ListNoneFiltered(r) \/ ListFails(r)
    BY <2>4 DEF List, ListNone, ListNoneFiltered, ListFails
  <2>5. CASE Session(r) \/ Pick(r) \/ Note(r) \/ Cool(r) \/ Clear(r)
    BY <2>5 DEF Session, Pick, Note, Cool, Clear
  <2>6. CASE Heal(r) \/ Stick(r) \/ Hard(r)
    BY <2>6 DEF Heal, Stick, Hard
  <2>7. CASE Fallback(r) \/ FallbackSkipped(r) \/ NoFallbackLeft(r)
    BY <2>7 DEF Fallback, FallbackSkipped, NoFallbackLeft
  <2> QED
    BY <1>1, <2>1, <2>2, <2>3, <2>4, <2>5, <2>6, <2>7 DEF Step
<1>2. ASSUME NEW r \in Requests, Start(r) \/ HangUp(r) PROVE FallbackHolds'
  BY <1>2 DEF Start, HangUp
<1>3. ASSUME \/ Tick \/ UNCHANGED vars
             \/ \E k \in Sessions : AffinityExpires(k)
             \/ \E s \in Seats : ProbeHealthy(s) \/ ProbeUnhealthy(s)
      PROVE  FallbackHolds'
  BY <1>3 DEF Tick, vars, AffinityExpires, ProbeHealthy, ProbeUnhealthy
<1> QED
  BY <1>1, <1>2, <1>3 DEF Next

\* A step that changes the locals of one request only keeps the abstract
\* state of the others.
LEMMA OthersKept ==
  ASSUME Typed, NEW r \in Requests,
         \A q \in Requests \ {r} :
            /\ pc'[q] = pc[q] /\ res'[q] = res[q] /\ acc'[q] = acc[q]
            /\ avail'[q] = avail[q] /\ tried'[q] = tried[q]
  PROVE  \A q \in Requests \ {r} :
            Phase(q)' = Phase(q) /\ Left(q)' = Left(q) /\ By(q)' = By(q)
  BY DEF Phase, Left, By, Candidates

\* The abstract state of a request as a function of its location.
LEMMA PhaseAt ==
  ASSUME NEW r \in Requests
  PROVE  /\ pc[r] = "idle" => Phase(r) = "idle"
         /\ pc[r] \in {"list", "empty", "fallback"} => Phase(r) = "between"
         /\ pc[r] \in InLoop => Phase(r) = "open"
         /\ pc[r] \in {"clear", "heal", "stick"} => Phase(r) = "served"
         /\ pc[r] = "hard" => Phase(r) = "refused"
         /\ pc[r] = "done" =>
              Phase(r) = IF res[r].kind = "ok" THEN "served"
                         ELSE IF res[r].kind = "hard" THEN "refused"
                         ELSE IF res[r].kind = "error" THEN "aborted"
                         ELSE "gaveup"
  BY DEF Phase, InLoop

\* A step in which only r's abstract state may move.
Alone(r) ==
  \A q \in Requests \ {r} :
     Phase(q)' = Phase(q) /\ Left(q)' = Left(q) /\ By(q)' = By(q)

LEMMA AbstractMoves ==
  ASSUME NEW r \in Requests, Alone(r)
  PROVE  /\ phases' = [phases EXCEPT ![r] = Phase(r)']
         /\ lefts' = [lefts EXCEPT ![r] = Left(r)']
         /\ bys' = [bys EXCEPT ![r] = By(r)']
         /\ phases[r] = Phase(r) /\ lefts[r] = Left(r) /\ bys[r] = By(r)
         /\ Phase(r)' = Phase(r) => phases' = phases
         /\ Left(r)' = Left(r) => lefts' = lefts
         /\ By(r)' = By(r) => bys' = bys
  BY DEF Alone, phases, lefts, bys

\* One abstract action per way in which a request's abstract state moves.
LEMMA AbstractStutter ==
  ASSUME NEW r \in Requests, Alone(r),
         Phase(r)' = Phase(r), Left(r)' = Left(r), By(r)' = By(r)
  PROVE  UNCHANGED Abstract!fvars
  BY AbstractMoves DEF Abstract!fvars

LEMMA AbstractAccept ==
  ASSUME NEW r \in Requests, Alone(r), Phase(r) = "idle",
         Phase(r)' = "between", Left(r)' = Left(r), By(r)' = By(r)
  PROVE  Abstract!FailoverNext
  BY AbstractMoves DEF Abstract!FailoverNext, Abstract!Accept, Abstract!Move

LEMMA AbstractOpen ==
  ASSUME NEW r \in Requests, Alone(r), Phase(r) = "between",
         Phase(r)' = "open", Left(r)' # {}, Left(r)' \subseteq Seats,
         By(r)' = By(r)
  PROVE  Abstract!FailoverNext
  BY AbstractMoves DEF Abstract!FailoverNext, Abstract!OpenPool, Abstract!Move

LEMMA AbstractMiss ==
  ASSUME NEW r \in Requests, Alone(r), Phase(r) = "open",
         Phase(r)' = "open", acc[r] \in Left(r),
         Left(r)' = Left(r) \ {acc[r]}, By(r)' = By(r)
  PROVE  Abstract!FailoverNext
  BY AbstractMoves DEF Abstract!FailoverNext, Abstract!Miss

LEMMA AbstractSettle ==
  ASSUME NEW r \in Requests, Alone(r), Phase(r) = "open",
         NEW to \in {"served", "refused"}, Phase(r)' = to,
         acc[r] \in Left(r), Left(r)' = {}, By(r)' = acc[r]
  PROVE  Abstract!FailoverNext
  BY AbstractMoves DEF Abstract!FailoverNext, Abstract!Settle, Abstract!Move

LEMMA AbstractClose ==
  ASSUME NEW r \in Requests, Alone(r), Phase(r) = "open", Left(r) = {},
         Phase(r)' = "between", Left(r)' = Left(r), By(r)' = By(r)
  PROVE  Abstract!FailoverNext
  BY AbstractMoves DEF Abstract!FailoverNext, Abstract!ClosePool, Abstract!Move

LEMMA AbstractGiveUp ==
  ASSUME NEW r \in Requests, Alone(r), Phase(r) = "between",
         Phase(r)' = "gaveup", Left(r)' = Left(r), By(r)' = By(r)
  PROVE  Abstract!FailoverNext
  BY AbstractMoves DEF Abstract!FailoverNext, Abstract!GiveUp, Abstract!Move

LEMMA AbstractAbort ==
  ASSUME NEW r \in Requests, Alone(r),
         Phase(r) = "between" \/ (Phase(r) = "open" /\ Left(r) \cap Broken # {}),
         Phase(r)' = "aborted", Left(r)' = {}, By(r)' = By(r)
  PROVE  Abstract!FailoverNext
  BY AbstractMoves DEF Abstract!FailoverNext, Abstract!Abort

\* The step of a request writes nobody else's locals.
LEMMA StepAlone ==
  ASSUME Typed, NEW r \in Requests, Step(r)
  PROVE  Alone(r)
<1> SUFFICES \A q \in Requests \ {r} :
               /\ pc'[q] = pc[q] /\ res'[q] = res[q] /\ acc'[q] = acc[q]
               /\ avail'[q] = avail[q] /\ tried'[q] = tried[q]
  BY OthersKept DEF Alone
<1> USE DEF Typed, TypeOK, run, Goto, Return
<1>1. CASE List(r) \/ ListNone(r) \/ ListNoneFiltered(r) \/ ListFails(r)
  BY <1>1 DEF List, ListNone, ListNoneFiltered, ListFails
<1>2. CASE Empty(r)
  <2>1. CASE Pool[Here(r)] = {}
    BY <1>2, <2>1 DEF Empty
  <2>2. CASE Pool[Here(r)] # {}
    BY <1>2, <2>2 DEF Empty
  <2> QED BY <2>1, <2>2
<1>3. CASE Session(r) \/ Exhausted(r) \/ Note(r) \/ Cool(r) \/ Clear(r)
  BY <1>3 DEF Session, Exhausted, Note, Cool, Clear
<1>4. CASE Pick(r)
  BY <1>4 DEF Pick
<1>5. CASE Answer(r)
  BY <1>5 DEF Answer
<1>6. CASE Heal(r) \/ Stick(r) \/ Hard(r)
  BY <1>6 DEF Heal, Stick, Hard
<1>7. CASE Fallback(r) \/ FallbackSkipped(r) \/ NoFallbackLeft(r)
  BY <1>7 DEF Fallback, FallbackSkipped, NoFallbackLeft
<1> QED
  BY <1>1, <1>2, <1>3, <1>4, <1>5, <1>6, <1>7 DEF Step

\* PhaseAt in the next state.
LEMMA PhaseNext ==
  ASSUME NEW r \in Requests
  PROVE  /\ pc'[r] = "idle" => Phase(r)' = "idle"
         /\ pc'[r] \in {"list", "empty", "fallback"} => Phase(r)' = "between"
         /\ pc'[r] \in InLoop => Phase(r)' = "open"
         /\ pc'[r] \in {"clear", "heal", "stick"} => Phase(r)' = "served"
         /\ pc'[r] = "hard" => Phase(r)' = "refused"
         /\ pc'[r] = "done" =>
              Phase(r)' = IF res'[r].kind = "ok" THEN "served"
                          ELSE IF res'[r].kind = "hard" THEN "refused"
                          ELSE IF res'[r].kind = "error" THEN "aborted"
                          ELSE "gaveup"
  BY DEF Phase, InLoop

LEMMA KindOf ==
  /\ Failed.kind = "error" /\ Cooling.kind = "cooling"
  /\ \A r \in Requests, k \in Kinds, s \in Seats \cup {NoSeat}, n \in Nat,
        t \in Seq(Seats) : Reply(r, k, s, n, t).kind = k
  BY DEF Failed, Cooling, NoResult, Reply

LEMMA ImplementsStep ==
  ASSUME Typed, FallbackHolds, NEW r \in Requests, Step(r)
  PROVE  [Abstract!FailoverNext]_(Abstract!fvars)
<1> USE DEF Typed, TypeOK, CallIsTried, Goto, Return, run, shared, past
<1>0. Alone(r)
  BY StepAlone
<1>1. CASE List(r)
  <2>1. /\ pc[r] = "list" /\ pc'[r] = "session"
        /\ avail'[r] = FilterServable(r, Usable(r)) /\ tried'[r] = {}
    BY <1>1 DEF List
  <2>2. Phase(r) = "between" /\ Phase(r)' = "open"
    BY <2>1, PhaseAt, PhaseNext DEF InLoop
  <2>3. /\ FilterServable(r, Usable(r)) # {}
        /\ FilterServable(r, Usable(r)) \subseteq Seats
    <3>1. Pool[Here(r)] \subseteq Seats
      BY DispatchAssumption DEF Here
    <3> QED BY <1>1, <3>1 DEF List, FilterServable, Usable
  <2>4. Left(r)' = FilterServable(r, Usable(r))
    BY <2>1 DEF Left, Candidates, InLoop
  <2>5. By(r)' = By(r)
    BY <2>2 DEF By
  <2> QED BY <1>0, <2>2, <2>3, <2>4, <2>5, AbstractOpen
<1>2. CASE ListNone(r) \/ Fallback(r) \/ FallbackSkipped(r)
  <2>1. /\ pc[r] \in {"list", "fallback"}
        /\ pc'[r] \in {"empty", "list", "fallback"}
    BY <1>2 DEF ListNone, Fallback, FallbackSkipped
  <2>2. Phase(r) = "between" /\ Phase(r)' = "between"
    BY <2>1, PhaseAt, PhaseNext
  <2>3. Left(r)' = Left(r) /\ By(r)' = By(r)
    BY <2>1, <2>2 DEF Left, By, InLoop
  <2> QED BY <1>0, <2>2, <2>3, AbstractStutter
<1>3. CASE ListNoneFiltered(r) \/ NoFallbackLeft(r) \/ (Empty(r) /\ Pool[Here(r)] = {})
  <2>1. /\ pc[r] \in {"list", "empty", "fallback"}
        /\ pc'[r] = "done"
        /\ res'[r].kind \in {"noaccounts", "fail", "cooling"}
    <3>1. Reply(r, "noaccounts", NoSeat, 0, << >>).kind = "noaccounts"
      BY DEF Reply
    <3>2. CASE ListNoneFiltered(r)
      BY <3>1, <3>2 DEF ListNoneFiltered
    <3>3. CASE NoFallbackLeft(r)
      BY <3>3 DEF NoFallbackLeft, FallbackHolds
    <3>4. CASE Empty(r) /\ Pool[Here(r)] = {}
      BY <3>1, <3>4 DEF Empty
    <3> QED BY <1>3, <3>2, <3>3, <3>4
  <2>2. Phase(r) = "between" /\ Phase(r)' = "gaveup"
    BY <2>1, PhaseAt, PhaseNext
  <2>3. Left(r)' = Left(r) /\ By(r)' = By(r)
    BY <2>1, <2>2 DEF Left, By, InLoop
  <2> QED BY <1>0, <2>2, <2>3, AbstractGiveUp
<1>4. CASE ListFails(r)
  <2>1. /\ pc[r] \in {"list", "empty"} /\ pc'[r] = "done"
        /\ res'[r].kind = "error"
    BY <1>4, KindOf DEF ListFails
  <2>2. Phase(r) = "between" /\ Phase(r)' = "aborted"
    BY <2>1, PhaseAt, PhaseNext
  <2>3. Left(r)' = {} /\ By(r)' = By(r)
    BY <2>1, <2>2 DEF Left, By, InLoop
  <2> QED BY <1>0, <2>2, <2>3, AbstractAbort
<1>5. CASE Empty(r) /\ Pool[Here(r)] # {}
  <2>1. pc[r] = "empty" /\ pc'[r] = "fallback"
    BY <1>5 DEF Empty
  <2>2. Phase(r) = "between" /\ Phase(r)' = "between"
    BY <2>1, PhaseAt, PhaseNext
  <2>3. Left(r)' = Left(r) /\ By(r)' = By(r)
    BY <2>1, <2>2 DEF Left, By, InLoop
  <2> QED BY <1>0, <2>2, <2>3, AbstractStutter
<1>6. CASE Session(r) \/ Note(r) \/ Cool(r)
  <2>1. /\ pc[r] \in InLoop \ {"call"} /\ pc'[r] \in InLoop \ {"call"}
        /\ avail'[r] = avail[r] /\ tried'[r] = tried[r]
    BY <1>6 DEF Session, Note, Cool, InLoop
  <2>2. Phase(r) = "open" /\ Phase(r)' = "open"
    BY <2>1, PhaseAt, PhaseNext
  <2>3. Left(r)' = Left(r) /\ By(r)' = By(r)
    BY <2>1, <2>2 DEF Left, By, Candidates
  <2> QED BY <1>0, <2>2, <2>3, AbstractStutter
<1>7. CASE Pick(r)
  <2>1. PICK s \in Picks(r) : /\ acc' = [acc EXCEPT ![r] = s]
                              /\ tried' = [tried EXCEPT ![r] = @ \cup {s}]
    BY <1>7 DEF Pick
  <2>2. s \in avail[r] /\ s \notin tried[r]
    BY DEF Picks, Candidates
  <2>3. /\ pc[r] = "pick" /\ pc'[r] = "call" /\ acc'[r] = s
        /\ avail'[r] = avail[r] /\ tried'[r] = tried[r] \cup {s}
    BY <1>7, <2>1 DEF Pick
  <2>4. Phase(r) = "open" /\ Phase(r)' = "open"
    BY <2>3, PhaseAt, PhaseNext DEF InLoop
  <2>5. Left(r) = avail[r] \ tried[r]
    BY <2>3 DEF Left, Candidates, InLoop
  <2>6. Left(r)' = (avail[r] \ (tried[r] \cup {s})) \cup {s}
    BY <2>3 DEF Left, Candidates, InLoop
  <2>7. Left(r)' = Left(r) /\ By(r)' = By(r)
    BY <2>2, <2>4, <2>5, <2>6 DEF By
  <2> QED BY <1>0, <2>4, <2>7, AbstractStutter
<1>8. CASE Exhausted(r)
  <2>1. pc[r] = "pick" /\ pc'[r] = "fallback" /\ Candidates(r) = {}
    BY <1>8 DEF Exhausted
  <2>2. Phase(r) = "open" /\ Phase(r)' = "between"
    BY <2>1, PhaseAt, PhaseNext DEF InLoop
  <2>3. Left(r) = {} /\ Left(r)' = {} /\ By(r)' = By(r)
    BY <2>1, <2>2 DEF Left, By, InLoop
  <2> QED BY <1>0, <2>2, <2>3, AbstractClose
<1>9. CASE Answer(r)
  <2>1. PICK o \in Answers(r) :
          /\ pc' = [pc EXCEPT ![r] = AfterAnswer(o)]
          /\ res' = IF o = "error" THEN [res EXCEPT ![r] = Failed] ELSE res
    BY <1>9 DEF Answer
  <2>2. /\ pc[r] = "call" /\ pc'[r] = AfterAnswer(o)
        /\ avail'[r] = avail[r] /\ tried'[r] = tried[r] /\ acc'[r] = acc[r]
    BY <1>9, <2>1 DEF Answer
  <2>3. acc[r] \in tried[r] /\ acc[r] \in Left(r)
    BY <2>2 DEF Left, InCall, InLoop
  <2>4. Left(r) \ {acc[r]} = avail[r] \ tried[r]
    BY <2>2, <2>3 DEF Left, Candidates, InLoop
  <2>5. Phase(r) = "open"
    BY <2>2, PhaseAt DEF InLoop
  <2>6. CASE o \in SoftOutcomes
    <3>1. pc'[r] = "note"
      BY <2>2, <2>6 DEF AfterAnswer, SoftOutcomes
    <3>2. Phase(r)' = "open" /\ By(r)' = By(r)
      BY <3>1, <2>5, PhaseNext DEF InLoop, By
    <3>3. Left(r)' = Left(r) \ {acc[r]}
      BY <2>2, <2>4, <3>1 DEF Left, Candidates, InLoop
    <3> QED BY <1>0, <2>3, <2>5, <3>2, <3>3, AbstractMiss
  <2>7. CASE o = "ok"
    <3>1. pc'[r] = "clear"
      BY <2>2, <2>7 DEF AfterAnswer, SoftOutcomes
    <3>2. Phase(r)' = "served"
      BY <3>1, PhaseNext
    <3>3. Left(r)' = {} /\ By(r)' = acc[r]
      BY <2>2, <3>1, <3>2 DEF Left, InLoop, By
    <3> QED BY <1>0, <2>3, <2>5, <3>2, <3>3, AbstractSettle
  <2>8. CASE o = "hard"
    <3>1. pc'[r] = "hard"
      BY <2>2, <2>8 DEF AfterAnswer, SoftOutcomes
    <3>2. Phase(r)' = "refused"
      BY <3>1, PhaseNext
    <3>3. Left(r)' = {} /\ By(r)' = acc[r]
      BY <2>2, <3>1, <3>2 DEF Left, InLoop, By
    <3> QED BY <1>0, <2>3, <2>5, <3>2, <3>3, AbstractSettle
  <2>9. CASE o = "error"
    <3>1. pc'[r] = "done" /\ res'[r].kind = "error"
      BY <2>1, <2>2, <2>9, KindOf DEF AfterAnswer, SoftOutcomes
    <3>2. Phase(r)' = "aborted"
      BY <3>1, PhaseNext
    <3>3. acc[r] \in Broken
      BY <2>1, <2>9 DEF Answers, Outcomes, SoftOutcomes
    <3>4. Left(r)' = {} /\ By(r)' = By(r)
      BY <2>2, <2>5, <3>1, <3>2 DEF Left, InLoop, By
    <3> QED BY <1>0, <2>3, <2>5, <3>2, <3>3, <3>4, AbstractAbort
  <2> QED
    BY <2>1, <2>6, <2>7, <2>8, <2>9 DEF Answers, Outcomes, SoftOutcomes
<1>10. CASE Clear(r) \/ Heal(r)
  <2>1. /\ pc[r] \in {"clear", "heal"} /\ pc'[r] \in {"heal", "stick"}
        /\ acc'[r] = acc[r]
    BY <1>10 DEF Clear, Heal
  <2>2. Phase(r) = "served" /\ Phase(r)' = "served"
    BY <2>1, PhaseAt, PhaseNext
  <2>3. Left(r)' = Left(r) /\ By(r)' = By(r)
    BY <2>1, <2>2 DEF Left, By, InLoop
  <2> QED BY <1>0, <2>2, <2>3, AbstractStutter
<1>11. CASE Stick(r)
  <2>1. /\ pc[r] = "stick" /\ pc'[r] = "done" /\ acc'[r] = acc[r]
        /\ res'[r].kind = "ok"
    BY <1>11 DEF Stick, Reply
  <2>2. Phase(r) = "served" /\ Phase(r)' = "served"
    BY <2>1, PhaseAt, PhaseNext
  <2>3. Left(r)' = Left(r) /\ By(r)' = By(r)
    BY <2>1, <2>2 DEF Left, By, InLoop
  <2> QED BY <1>0, <2>2, <2>3, AbstractStutter
<1>12. CASE Hard(r)
  <2>1. /\ pc[r] = "hard" /\ pc'[r] = "done" /\ acc'[r] = acc[r]
        /\ res'[r].kind = "hard"
    BY <1>12 DEF Hard, Reply
  <2>2. Phase(r) = "refused" /\ Phase(r)' = "refused"
    BY <2>1, PhaseAt, PhaseNext
  <2>3. Left(r)' = Left(r) /\ By(r)' = By(r)
    BY <2>1, <2>2 DEF Left, By, InLoop
  <2> QED BY <1>0, <2>2, <2>3, AbstractStutter
<1> QED
  BY <1>1, <1>2, <1>3, <1>4, <1>5, <1>6, <1>7, <1>8, <1>9, <1>10, <1>11,
     <1>12 DEF Step

\* The dispatch implements the abstract failover: a pool is left only when
\* every seat of it has missed, and nothing is tried after an answer.
THEOREM Implements == Spec => Promise
<1>1. Init => Abstract!FailoverInit
  BY DEF Init, Abstract!FailoverInit, phases, lefts, bys, Phase, Left, By,
         InLoop
<1>2. Typed /\ FallbackHolds /\ [Next]_vars
        => [Abstract!FailoverNext]_(Abstract!fvars)
  <2> SUFFICES ASSUME Typed, FallbackHolds, [Next]_vars
               PROVE  [Abstract!FailoverNext]_(Abstract!fvars)
    OBVIOUS
  <2>1. ASSUME NEW r \in Requests, Step(r)
        PROVE  [Abstract!FailoverNext]_(Abstract!fvars)
    BY <2>1, ImplementsStep
  <2>2. ASSUME NEW r \in Requests, Start(r)
        PROVE  [Abstract!FailoverNext]_(Abstract!fvars)
    <3>1. /\ pc' = [pc EXCEPT ![r] = "list"] /\ pc[r] = "idle"
          /\ UNCHANGED <<acc, avail, tried, res>>
      BY <2>2 DEF Start, Goto, run
    <3>2. Alone(r)
      BY <3>1, OthersKept DEF Alone, Typed, TypeOK
    <3>3. Phase(r) = "idle" /\ Phase(r)' = "between"
      BY <3>1, PhaseAt, PhaseNext DEF Typed, TypeOK
    <3>4. Left(r)' = Left(r) /\ By(r)' = By(r)
      BY <3>1, <3>3 DEF Left, By, InLoop, Typed, TypeOK
    <3> QED BY <3>2, <3>3, <3>4, AbstractAccept
  <2>3. ASSUME UNCHANGED <<pc, acc, avail, tried, res>>
        PROVE  UNCHANGED Abstract!fvars
    BY <2>3 DEF Abstract!fvars, phases, lefts, bys, Phase, Left, By,
                Candidates
  <2>4. ASSUME NEW r \in Requests, HangUp(r)
        PROVE  UNCHANGED <<pc, acc, avail, tried, res>>
    BY <2>4 DEF HangUp, run
  <2>5. ASSUME \/ Tick \/ UNCHANGED vars
               \/ \E k \in Sessions : AffinityExpires(k)
               \/ \E s \in Seats : ProbeHealthy(s) \/ ProbeUnhealthy(s)
        PROVE  UNCHANGED <<pc, acc, avail, tried, res>>
    BY <2>5 DEF Tick, vars, AffinityExpires, ProbeHealthy, ProbeUnhealthy, run
  <2> QED
    BY <2>1, <2>2, <2>3, <2>4, <2>5 DEF Next
<1> QED
  BY <1>1, <1>2, TypedAlways, FallbackHoldsInit, FallbackHoldsNext, PTL
     DEF Spec, Promise, Abstract!FailoverSpec

-----------------------------------------------------------------------------
(***************************************************************************)
(* The trail.  The counter, the tried set and the failover records of a    *)
(* dispatch are three copies of one history, kept by different statements: *)
(* TrailOf ties all of them to the calls really made, at every location    *)
(* between which only some of them have been written.  A dispatch that     *)
(* gives up has tried all it listed, hence called all of it.               *)
(***************************************************************************)
TrailOf(r) ==
  /\ base[r] <= Len(log[r])
  /\ pc[r] \in Dispatching =>
       /\ attempts[r] = Len(log[r]) - base[r]
       /\ tried[r] = Called(r)
       /\ tried[r] \subseteq avail[r]
  /\ pc[r] \in {"session", "pick"} => failovers[r] = Calls(r)
  /\ pc[r] \in InCall =>
       /\ base[r] < Len(log[r]) /\ log[r][Len(log[r])] = acc[r]
       /\ failovers[r] = SubSeq(log[r], base[r] + 1, Len(log[r]) - 1)
  /\ pc[r] = "fallback" /\ res[r].kind = "fail" =>
       Called(r) = avail[r] /\ failovers[r] = Calls(r)

TrailInv == \A r \in Requests : TrailOf(r)

\* One call more at the end of a log: the calls since b, one more as well.
LEMMA CallsGrow ==
  ASSUME NEW l \in Seq(Seats), NEW b \in Nat, b <= Len(l), NEW s \in Seats
  PROVE  /\ Append(l, s) \in Seq(Seats) /\ Len(Append(l, s)) = Len(l) + 1
         /\ Append(l, s)[Len(l) + 1] = s
         /\ SubSeq(Append(l, s), b + 1, Len(l)) = SubSeq(l, b + 1, Len(l))
         /\ SubSeq(Append(l, s), b + 1, Len(l) + 1)
              = Append(SubSeq(l, b + 1, Len(l)), s)
<1> DEFINE m == Append(l, s)
           u == SubSeq(l, b + 1, Len(l))
           v == SubSeq(m, b + 1, Len(l))
           w == SubSeq(m, b + 1, Len(l) + 1)
<1>1. /\ m \in Seq(Seats) /\ Len(m) = Len(l) + 1 /\ m[Len(l) + 1] = s
      /\ \A i \in 1..Len(l) : m[i] = l[i]
  BY AppendProperties
<1>2. /\ \A i \in 1..Len(l) : l[i] \in Seats
      /\ \A i \in 1..Len(l) + 1 : m[i] \in Seats
  BY <1>1, ElementOfSeq
<1>3. /\ u \in Seq(Seats) /\ Len(u) = Len(l) - b
      /\ \A i \in 1..Len(l) - b : u[i] = l[b + i]
  <2>1. \A i \in b + 1..Len(l) : l[i] \in Seats
    BY <1>2
  <2> QED BY <2>1, SubSeqProperties
<1>4. /\ v \in Seq(Seats) /\ Len(v) = Len(l) - b
      /\ \A i \in 1..Len(l) - b : v[i] = m[b + i]
  <2>1. \A i \in b + 1..Len(l) : m[i] \in Seats
    BY <1>2
  <2> QED BY <2>1, SubSeqProperties
<1>5. /\ w \in Seq(Seats) /\ Len(w) = Len(l) + 1 - b
      /\ \A i \in 1..Len(l) + 1 - b : w[i] = m[b + i]
  <2>1. \A i \in b + 1..Len(l) + 1 : m[i] \in Seats
    BY <1>2
  <2> QED BY <2>1, SubSeqProperties
<1>6. v = u
  <2> HIDE DEF m, u, v
  <2>1. \A i \in 1..Len(v) : v[i] = u[i]
    BY <1>1, <1>3, <1>4
  <2> QED BY <1>3, <1>4, <2>1, SeqEqual
<1>7. w = Append(u, s)
  <2> DEFINE x == Append(u, s)
  <2> HIDE DEF m, u, w
  <2>1. /\ x \in Seq(Seats) /\ Len(x) = Len(u) + 1
        /\ \A i \in 1..Len(u) : x[i] = u[i]
        /\ x[Len(u) + 1] = s
    BY <1>3, AppendProperties
  <2> HIDE DEF x
  <2>2. ASSUME NEW i \in 1..Len(w) PROVE w[i] = x[i]
    <3>1. w[i] = m[b + i] /\ i \in 1..Len(u) + 1
      BY <1>3, <1>5
    <3>2. CASE i \in 1..Len(u)
      <4>1. x[i] = l[b + i] /\ b + i \in 1..Len(l)
        BY <1>3, <2>1, <3>2
      <4> QED BY <1>1, <3>1, <4>1
    <3>3. CASE i = Len(u) + 1
      <4>1. x[i] = s /\ b + i = Len(l) + 1
        BY <1>3, <2>1, <3>3
      <4> QED BY <1>1, <3>1, <4>1
    <3>4. Len(u) \in Nat
      BY <1>3, LenProperties
    <3> QED BY <3>1, <3>2, <3>3, <3>4
  <2>3. w = x
    BY <1>3, <1>5, <2>1, <2>2, SeqEqual
  <2> QED BY <2>3 DEF x
<1> QED BY <1>1, <1>6, <1>7

\* The same seen from the longer log: its last call taken off.
LEMMA CallsLast ==
  ASSUME NEW l \in Seq(Seats), NEW b \in Nat, b < Len(l)
  PROVE  SubSeq(l, b + 1, Len(l))
           = Append(SubSeq(l, b + 1, Len(l) - 1), l[Len(l)])
<1>1. b + 1 \in 1..Len(l) /\ Len(l) \in b + 1..Len(l)
  OBVIOUS
<1>2. SubSeq(l, b + 1, Len(l))
        = SubSeq(l, b + 1, Len(l) - 1) \o <<l[Len(l)]>>
  BY <1>1, SubSeqRecursiveSecond
<1>3. \A i \in b + 1..Len(l) - 1 : l[i] \in Seats
  BY ElementOfSeq
<1> DEFINE u == SubSeq(l, b + 1, Len(l) - 1)
           s == l[Len(l)]
<1>4. u \in Seq(Seats)
  BY <1>3, SubSeqProperties
<1>5. s \in Seats
  BY ElementOfSeq
<1>6. u \o <<s>> = Append(u, s)
  <2> HIDE DEF u, s
  <2> QED BY <1>4, <1>5, AppendIsConcat
<1> QED BY <1>2, <1>6

\* The elements of a sequence that has grown by one.
Elements(q) == {q[i] : i \in DOMAIN q}

LEMMA ElementsGrow ==
  ASSUME NEW q \in Seq(Seats), NEW s \in Seats
  PROVE  Elements(Append(q, s)) = Elements(q) \cup {s}
  BY AppendProperties, LenProperties DEF Elements

\* What a request's trail rests on.
Kept(r) ==
  /\ avail'[r] = avail[r] /\ tried'[r] = tried[r]
  /\ attempts'[r] = attempts[r] /\ failovers'[r] = failovers[r]
  /\ log'[r] = log[r] /\ base'[r] = base[r]

LEMMA TrailUntouched ==
  ASSUME NEW r \in Requests, TrailOf(r), Kept(r), pc'[r] = pc[r],
         acc'[r] = acc[r], res'[r] = res[r]
  PROVE  TrailOf(r)'
  BY DEF TrailOf, Kept, Called, Calls

LEMMA TrailInCall ==
  ASSUME NEW r \in Requests, TrailOf(r), Kept(r), acc'[r] = acc[r],
         pc[r] \in InCall, pc'[r] \in InCall
  PROVE  TrailOf(r)'
  BY DEF TrailOf, Kept, Called, Calls, Dispatching, InCall

LEMMA TrailEnds ==
  ASSUME NEW r \in Requests, TrailOf(r), Kept(r),
         pc'[r] \notin Dispatching,
         pc'[r] = "fallback" => res'[r].kind # "fail"
  PROVE  TrailOf(r)'
  BY DEF TrailOf, Kept, Dispatching, InLoop, InCall

LEMMA TrailList ==
  ASSUME Typed, TrailInv, NEW r \in Requests, List(r)
  PROVE  TrailOf(r)'
<1> USE DEF Typed, TypeOK
<1>1. /\ pc'[r] = "session" /\ tried'[r] = {} /\ attempts'[r] = 0
      /\ failovers'[r] = << >> /\ base'[r] = Len(log[r]) /\ log'[r] = log[r]
  BY DEF List, Goto
<1>2. Len(log[r]) \in Nat
  BY LenProperties
<1>3. SubSeq(log[r], Len(log[r]) + 1, Len(log[r])) = << >>
  BY <1>2, SubSeqEmpty
<1>4. Calls(r)' = << >>
  BY <1>1, <1>3 DEF Calls
<1>5. Called(r)' = {}
  BY <1>4 DEF Called
<1> QED
  BY <1>1, <1>2, <1>4, <1>5 DEF TrailOf, Dispatching, InLoop, InCall

LEMMA TrailPick ==
  ASSUME Typed, TrailInv, NEW r \in Requests, Pick(r)
  PROVE  TrailOf(r)'
<1> USE DEF Typed, TypeOK
<1>1. PICK s \in Picks(r) : /\ acc' = [acc EXCEPT ![r] = s]
                            /\ tried' = [tried EXCEPT ![r] = @ \cup {s}]
                            /\ log' = [log EXCEPT ![r] = Append(@, s)]
  BY DEF Pick
<1>2. s \in Seats /\ s \in avail[r]
  BY DEF Picks, Candidates
<1>3. /\ pc[r] = "pick" /\ pc'[r] = "call" /\ acc'[r] = s
      /\ tried'[r] = tried[r] \cup {s} /\ log'[r] = Append(log[r], s)
      /\ attempts'[r] = attempts[r] + 1
      /\ base'[r] = base[r] /\ failovers'[r] = failovers[r]
      /\ avail'[r] = avail[r]
  BY <1>1 DEF Pick, Goto
<1>4. /\ base[r] <= Len(log[r]) /\ attempts[r] = Len(log[r]) - base[r]
      /\ tried[r] = Called(r) /\ tried[r] \subseteq avail[r]
      /\ failovers[r] = Calls(r)
  BY <1>3 DEF TrailInv, TrailOf, Dispatching, InLoop
<1>5. log[r] \in Seq(Seats) /\ base[r] \in Nat /\ Len(log[r]) \in Nat
  BY LenProperties
<1>6. /\ Len(log'[r]) = Len(log[r]) + 1 /\ log'[r][Len(log[r]) + 1] = s
      /\ SubSeq(log'[r], base[r] + 1, Len(log[r])) = Calls(r)
      /\ SubSeq(log'[r], base[r] + 1, Len(log[r]) + 1) = Append(Calls(r), s)
  <2> DEFINE l == log[r]
             b == base[r]
  <2>1. /\ l \in Seq(Seats) /\ b \in Nat /\ b <= Len(l)
        /\ log'[r] = Append(l, s) /\ Calls(r) = SubSeq(l, b + 1, Len(l))
    BY <1>3, <1>4, <1>5 DEF Calls
  <2> HIDE DEF l, b, Typed, TypeOK
  <2>2. /\ Len(log'[r]) = Len(l) + 1 /\ log'[r][Len(l) + 1] = s
        /\ SubSeq(log'[r], b + 1, Len(l)) = Calls(r)
        /\ SubSeq(log'[r], b + 1, Len(l) + 1) = Append(Calls(r), s)
    BY <1>2, <2>1, CallsGrow
  <2> QED BY <2>2 DEF l, b
<1>7. Calls(r)' = Append(Calls(r), s)
  <2>1. /\ base'[r] = base[r] /\ Len(log'[r]) = Len(log[r]) + 1
        /\ SubSeq(log'[r], base[r] + 1, Len(log[r]) + 1) = Append(Calls(r), s)
    BY <1>3, <1>6
  <2> QED BY <2>1 DEF Calls
<1>8. Called(r)' = Called(r) \cup {s}
  <2>1. Called(r) = Elements(Calls(r)) /\ Called(r)' = Elements(Calls(r)')
    BY DEF Called, Elements
  <2>2. Calls(r) \in Seq(Seats)
    BY <1>4
  <2>3. Elements(Append(Calls(r), s)) = Elements(Calls(r)) \cup {s}
    BY <1>2, <2>2, ElementsGrow
  <2> QED BY <1>7, <2>1, <2>3
<1>9. failovers'[r] = SubSeq(log'[r], base'[r] + 1, Len(log'[r]) - 1)
  <2>1. base'[r] = base[r] /\ Len(log'[r]) - 1 = Len(log[r])
    BY <1>3, <1>5, <1>6
  <2> QED BY <1>3, <1>4, <1>6, <2>1
<1>10. /\ base'[r] < Len(log'[r]) /\ base'[r] <= Len(log'[r])
       /\ attempts'[r] = Len(log'[r]) - base'[r]
       /\ log'[r][Len(log'[r])] = acc'[r]
  <2>1. Len(log'[r]) = Len(log[r]) + 1 /\ Len(log[r]) \in Nat
    BY <1>5, <1>6
  <2>2. base'[r] = base[r] /\ base[r] \in Nat /\ base[r] <= Len(log[r])
    BY <1>3, <1>4, <1>5
  <2>3. attempts'[r] = Len(log[r]) - base[r] + 1
    BY <1>3, <1>4
  <2>4. log'[r][Len(log'[r])] = acc'[r]
    BY <1>3, <1>6
  <2> QED BY <2>1, <2>2, <2>3, <2>4
<1>11. tried'[r] = Called(r)' /\ tried'[r] \subseteq avail'[r]
  BY <1>2, <1>3, <1>4, <1>8
<1> QED
  BY <1>3, <1>9, <1>10, <1>11 DEF TrailOf, Dispatching, InLoop, InCall

LEMMA TrailCool ==
  ASSUME Typed, TrailInv, NEW r \in Requests, Cool(r)
  PROVE  TrailOf(r)'
<1> USE DEF Typed, TypeOK
<1>1. /\ pc[r] = "cool" /\ pc'[r] = "pick"
      /\ failovers'[r] = Append(failovers[r], acc[r])
      /\ avail'[r] = avail[r] /\ tried'[r] = tried[r]
      /\ attempts'[r] = attempts[r] /\ log'[r] = log[r] /\ base'[r] = base[r]
  BY DEF Cool, Goto
<1>2. /\ base[r] < Len(log[r]) /\ log[r][Len(log[r])] = acc[r]
      /\ failovers[r] = SubSeq(log[r], base[r] + 1, Len(log[r]) - 1)
      /\ attempts[r] = Len(log[r]) - base[r]
      /\ tried[r] = Called(r) /\ tried[r] \subseteq avail[r]
  BY <1>1 DEF TrailInv, TrailOf, Dispatching, InCall
<1>3. failovers'[r] = Calls(r)
  BY <1>1, <1>2, CallsLast DEF Calls
<1>4. Calls(r)' = Calls(r) /\ Called(r)' = Called(r)
  BY <1>1 DEF Called, Calls
<1>5. base'[r] <= Len(log'[r])
  BY <1>1, <1>2, LenProperties
<1>6. /\ attempts'[r] = Len(log'[r]) - base'[r]
      /\ tried'[r] = Called(r)' /\ tried'[r] \subseteq avail'[r]
      /\ failovers'[r] = Calls(r)'
  BY <1>1, <1>2, <1>3, <1>4
<1> QED
  BY <1>1, <1>5, <1>6 DEF TrailOf, Dispatching, InLoop, InCall

LEMMA TrailExhausted ==
  ASSUME Typed, TrailInv, NEW r \in Requests, Exhausted(r)
  PROVE  TrailOf(r)'
<1> USE DEF Typed, TypeOK
<1>1. pc[r] = "pick" /\ pc'[r] = "fallback" /\ Kept(r)
  BY DEF Exhausted, Goto, Kept, run, past
<1>2. /\ base[r] <= Len(log[r]) /\ tried[r] = Called(r)
      /\ tried[r] \subseteq avail[r] /\ failovers[r] = Calls(r)
  BY <1>1 DEF TrailInv, TrailOf, Dispatching, InLoop
<1>3. Called(r) = avail[r]
  BY <1>2 DEF Exhausted, Candidates
<1>4. Calls(r)' = Calls(r) /\ Called(r)' = Called(r)
  BY <1>1 DEF Kept, Called, Calls
<1> QED
  BY <1>1, <1>2, <1>3, <1>4 DEF Kept, TrailOf, Dispatching, InLoop, InCall

LEMMA TrailStep ==
  ASSUME Typed, TrailInv, NEW r \in Requests, Step(r)
  PROVE  TrailOf(r)'
<1> USE DEF Typed, TypeOK, Goto, Return, run, past
<1>0. TrailOf(r)
  BY DEF TrailInv
<1>1. CASE List(r)
  BY <1>1, TrailList
<1>2. CASE ListNone(r) \/ ListNoneFiltered(r) \/ ListFails(r)
  BY <1>0, <1>2, TrailEnds
  DEF Kept, ListNone, ListNoneFiltered, ListFails, Dispatching, InLoop, InCall
<1>3. CASE Empty(r)
  <2>1. Kept(r)
    BY <1>3 DEF Empty, Kept
  <2>2. pc'[r] \in {"done", "fallback"}
    BY <1>3 DEF Empty
  <2>3. pc'[r] = "fallback" => res'[r].kind = "cooling"
    <3>1. Cooling.kind = "cooling"
      BY DEF Cooling, NoResult
    <3> QED BY <1>3, <3>1 DEF Empty
  <2> QED BY <1>0, <2>1, <2>2, <2>3, TrailEnds DEF Dispatching, InLoop, InCall
<1>4. CASE Session(r)
  BY <1>0, <1>4
  DEF Session, TrailOf, Called, Calls, Dispatching, InLoop, InCall
<1>5. CASE Pick(r)
  BY <1>5, TrailPick
<1>6. CASE Exhausted(r)
  BY <1>6, TrailExhausted
<1>7. CASE Answer(r)
  <2>1. Kept(r) /\ acc'[r] = acc[r] /\ pc[r] = "call"
    BY <1>7 DEF Answer, Kept
  <2>2. pc'[r] \in {"note", "clear", "hard", "done"}
    BY <1>7 DEF Answer, AfterAnswer
  <2>3. CASE pc'[r] = "done"
    BY <1>0, <2>1, <2>3, TrailEnds DEF Dispatching, InLoop, InCall
  <2>4. CASE pc'[r] # "done"
    BY <1>0, <2>1, <2>2, <2>4, TrailInCall DEF InCall
  <2> QED BY <2>3, <2>4
<1>8. CASE Note(r) \/ Clear(r) \/ Heal(r)
  BY <1>0, <1>8, TrailInCall DEF Kept, Note, Clear, Heal, InCall
<1>9. CASE Cool(r)
  BY <1>9, TrailCool
<1>10. CASE Stick(r) \/ Hard(r) \/ Fallback(r) \/ NoFallbackLeft(r)
  BY <1>0, <1>10, TrailEnds
  DEF Kept, Stick, Hard, Fallback, NoFallbackLeft, Dispatching, InLoop, InCall
<1>11. CASE FallbackSkipped(r)
  BY <1>0, <1>11, TrailUntouched DEF Kept, FallbackSkipped
<1> QED
  BY <1>1, <1>2, <1>3, <1>4, <1>5, <1>6, <1>7, <1>8, <1>9, <1>10, <1>11
  DEF Step

\* A request's own steps are the only ones that touch its trail.
LEMMA TrailOthers ==
  ASSUME Typed, TrailInv, NEW r \in Requests, Step(r),
         NEW q \in Requests, q # r
  PROVE  TrailOf(q)'
<1> USE DEF Typed, TypeOK, Goto, Return, run, past
<1>1. Kept(q) /\ pc'[q] = pc[q] /\ acc'[q] = acc[q] /\ res'[q] = res[q]
  <2>1. CASE List(r) \/ ListNone(r) \/ ListNoneFiltered(r) \/ ListFails(r)
    BY <2>1 DEF Kept, List, ListNone, ListNoneFiltered, ListFails
  <2>2. CASE Empty(r) \/ Session(r) \/ Pick(r) \/ Exhausted(r)
    BY <2>2 DEF Kept, Empty, Session, Pick, Exhausted
  <2>3. CASE Answer(r)
    BY <2>3 DEF Kept, Answer
  <2>4. CASE Note(r) \/ Cool(r) \/ Clear(r) \/ Heal(r)
    BY <2>4 DEF Kept, Note, Cool, Clear, Heal
  <2>5. CASE Stick(r) \/ Hard(r)
    BY <2>5 DEF Kept, Stick, Hard
  <2>6. CASE Fallback(r) \/ FallbackSkipped(r) \/ NoFallbackLeft(r)
    BY <2>6 DEF Kept, Fallback, FallbackSkipped, NoFallbackLeft
  <2> QED BY <2>1, <2>2, <2>3, <2>4, <2>5, <2>6 DEF Step
<1> QED BY <1>1, TrailUntouched DEF TrailInv

LEMMA TrailInit == Init => TrailInv
<1> SUFFICES ASSUME Init, NEW r \in Requests PROVE TrailOf(r)
  BY DEF TrailInv
<1>1. /\ pc[r] = "idle" /\ log[r] = << >> /\ base[r] = 0
  BY DEF Init
<1>2. Len(log[r]) = 0
  BY <1>1
<1> QED
  BY <1>1, <1>2 DEF TrailOf, Dispatching, InLoop, InCall

LEMMA TrailNext == Typed /\ TrailInv /\ [Next]_vars => TrailInv'
<1> SUFFICES ASSUME Typed, TrailInv, [Next]_vars, NEW q \in Requests
             PROVE  TrailOf(q)'
  BY DEF TrailInv
<1> USE DEF Typed, TypeOK, run, past
<1>1. ASSUME NEW r \in Requests, Step(r) PROVE TrailOf(q)'
  BY <1>1, TrailStep, TrailOthers
<1>2. ASSUME NEW r \in Requests, Start(r) PROVE TrailOf(q)'
  <2>1. Kept(q) /\ acc'[q] = acc[q] /\ res'[q] = res[q]
    BY <1>2 DEF Start, Kept
  <2>2. CASE q = r
    BY <1>2, <2>1, <2>2, TrailEnds
    DEF TrailInv, Start, Goto, Dispatching, InLoop, InCall
  <2>3. CASE q # r
    BY <1>2, <2>1, <2>3, TrailUntouched DEF TrailInv, Start, Goto
  <2> QED BY <2>2, <2>3
<1>3. ASSUME \/ Tick \/ UNCHANGED vars
             \/ \E r \in Requests : HangUp(r)
             \/ \E k \in Sessions : AffinityExpires(k)
             \/ \E s \in Seats : ProbeHealthy(s) \/ ProbeUnhealthy(s)
      PROVE  TrailOf(q)'
  <2>1. Kept(q) /\ pc'[q] = pc[q] /\ acc'[q] = acc[q] /\ res'[q] = res[q]
    BY <1>3 DEF Kept, Tick, vars, HangUp, AffinityExpires, ProbeHealthy,
                ProbeUnhealthy
  <2> QED BY <2>1, TrailUntouched DEF TrailInv
<1> QED
  BY <1>1, <1>2, <1>3 DEF Next

\* The counter and the failover records tell exactly the calls a dispatch
\* made, whatever the pools, the outcomes and the other requests.
THEOREM TrailExact == Spec => []TrailIsExact
<1>1. Typed /\ TrailInv => TrailIsExact
  <2> SUFFICES ASSUME Typed, TrailInv, NEW r \in Requests,
                      pc[r] \in Dispatching \ {"session"}
               PROVE  /\ attempts[r] = Len(log[r]) - base[r]
                      /\ failovers[r] = SubSeq(log[r], base[r] + 1,
                           Len(log[r]) - IF pc[r] \in InCall THEN 1 ELSE 0)
    BY DEF TrailIsExact
  <2>1. Len(log[r]) \in Nat
    BY LenProperties DEF Typed, TypeOK
  <2>2. attempts[r] = Len(log[r]) - base[r]
    BY DEF TrailInv, TrailOf
  <2>3. CASE pc[r] \in InCall
    BY <2>2, <2>3 DEF TrailInv, TrailOf
  <2>4. CASE pc[r] \notin InCall
    <3>1. failovers[r] = SubSeq(log[r], base[r] + 1, Len(log[r]))
      BY <2>4 DEF TrailInv, TrailOf, Calls, Dispatching, InLoop, InCall
    <3>2. Len(log[r]) - 0 = Len(log[r])
      BY <2>1
    <3> QED BY <2>2, <2>4, <3>1, <3>2
  <2> QED BY <2>3, <2>4
<1> QED
  BY <1>1, TrailInit, TrailNext, TypedAlways, PTL DEF Spec

\* A dispatch gives up on its pool only when every seat it listed was called
\* by it, whatever the other requests and the prober do meanwhile.
THEOREM ExhaustedBeforeFallback == Spec => []GivesUpExhausted
<1>1. TrailInv => GivesUpExhausted
  BY DEF TrailInv, TrailOf, GivesUpExhausted
<1> QED
  BY <1>1, TrailInit, TrailNext, TypedAlways, PTL DEF Spec

=============================================================================

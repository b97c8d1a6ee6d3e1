------------------------------ MODULE Dispatch ------------------------------
(***************************************************************************)
(* Sequential dispatch of the proxy engine (internal/proxy/proxy.go): a    *)
(* request walks the seats of a route until one answers, cooling the seats *)
(* that soft-fail, and then walks the fallback routes.  Requests run in    *)
(* goroutines of their own and share the cooldown column of the accounts   *)
(* table, the selector's soft-failure map and the session affinity map;    *)
(* the health prober writes the cooldown column concurrently.              *)
(***************************************************************************)
EXTENDS Integers, Sequences, FiniteSets

CONSTANTS
  Requests,    \* in-flight HTTP requests
  Seats,       \* accounts
  Routes,      \* routes
  Sessions,    \* session keys
  NoSeat,      \* uuid.Nil
  NoSession,   \* the empty session key
  Pool,        \* seats attached to a route
  Rank,        \* ORDER BY ra.position, a.created_at of a route
  Sequential,  \* routes whose strategy takes the first candidate
  Chain,       \* a request's primary route and its existing fallback routes
  SessionOf,   \* SessionKey(header, body) of a request
  Filtered,    \* image requests, dispatched with filterImageCapableAccounts
  Capable,     \* seats for which accountSupportsImages
  Servable,    \* seats that have a model they can run for a request
  CoolFor,     \* cooldown of each soft outcome, in ticks
  ProbeCool,   \* cooldown of a failed probe, in ticks
  SoftWindow,  \* SoftFailWindow, in ticks
  MayHangUp,   \* requests whose client may disconnect
  Broken       \* seats whose base_url does not parse

SoftOutcomes == {"limited", "down", "ttft"}
Outcomes == SoftOutcomes \cup {"ok", "hard", "error", "none"}
Kinds == {"none", "ok", "hard", "fail", "cooling", "noaccounts", "error"}
Locations == {"idle", "list", "empty", "session", "pick", "call", "note",
              "cool", "clear", "heal", "stick", "hard", "fallback", "done"}

ASSUME DispatchAssumption ==
  /\ IsFiniteSet(Seats) /\ NoSeat \notin Seats /\ NoSession \notin Sessions
  /\ Pool \in [Routes -> SUBSET Seats]
  /\ Rank \in [Routes -> [Seats -> Nat]]
  /\ \A rt \in Routes : \A s, t \in Pool[rt] :
        Rank[rt][s] = Rank[rt][t] => s = t
  /\ Sequential \subseteq Routes
  /\ Chain \in [Requests -> Seq(Routes) \ {<< >>}]
  /\ SessionOf \in [Requests -> Sessions \cup {NoSession}]
  /\ Servable \in [Requests -> SUBSET Seats]
  /\ CoolFor \in [SoftOutcomes -> Nat \ {0}]
  /\ ProbeCool \in Nat \ {0} /\ SoftWindow \in Nat \ {0}

VARIABLES
  cool,       \* ticks until accounts.cooldown_until
  soft,       \* ticks left of the seat's window in Selector.softFail
  sticky,     \* Affinity.m
  pc,         \* where each request's goroutine stands
  gone,       \* the request's context is cancelled
  at,         \* index in Chain of the route being dispatched
  avail,      \* the accounts slice of the running dispatch
  tried,      \* tried map of the running dispatch
  prefer,     \* sticky account read by the running dispatch
  acc,        \* account of the running call
  outcome,    \* what the running call returned
  attempts,   \* attempts counter of the running dispatch
  failovers,  \* failovers slice of the running dispatch
  res         \* the Result dispatchWithFallbacks holds, then returns

(***************************************************************************)
(* History, read by the properties only.                                   *)
(***************************************************************************)
VARIABLES
  log,        \* every seat the request called, over all its dispatches
  base,       \* length of log when the running dispatch began
  rest        \* seats a request cooled and whose cooldown was not lifted since

shared == <<cool, soft, sticky>>
run == <<avail, tried, prefer, acc, outcome, attempts, failovers>>
past == <<log, base, rest>>
vars == <<cool, soft, sticky, pc, gone, at, avail, tried, prefer, acc,
          outcome, attempts, failovers, res, log, base, rest>>

Results == [kind : Kinds, seat : Seats \cup {NoSeat}, attempts : Nat,
            failovers : Seq(Seats)]

NoResult == [kind |-> "none", seat |-> NoSeat, attempts |-> 0,
             failovers |-> << >>]

\* A Go error: no Result reaches the handler.
Failed == [NoResult EXCEPT !.kind = "error"]

\* 503 no_usable_accounts, with its Retry-After.
Cooling == [NoResult EXCEPT !.kind = "cooling"]

Init ==
  /\ cool = [s \in Seats |-> 0]
  /\ soft = [s \in Seats |-> 0]
  /\ sticky = [k \in Sessions |-> NoSeat]
  /\ pc = [r \in Requests |-> "idle"]
  /\ gone = [r \in Requests |-> FALSE]
  /\ at = [r \in Requests |-> 1]
  /\ avail = [r \in Requests |-> {}]
  /\ tried = [r \in Requests |-> {}]
  /\ prefer = [r \in Requests |-> NoSeat]
  /\ acc = [r \in Requests |-> NoSeat]
  /\ outcome = [r \in Requests |-> "none"]
  /\ attempts = [r \in Requests |-> 0]
  /\ failovers = [r \in Requests |-> << >>]
  /\ res = [r \in Requests |-> NoResult]
  /\ log = [r \in Requests |-> << >>]
  /\ base = [r \in Requests |-> 0]
  /\ rest = [r \in Requests |-> {}]

Goto(r, from, to) == pc[r] = from /\ pc' = [pc EXCEPT ![r] = to]

Here(r) == Chain[r][at[r]]

\* The Result of a dispatch that ends the request: its attempts are added to
\* those of the failed result held so far.
Reply(r, kind, seat, n, trail) ==
  [kind |-> kind, seat |-> seat, attempts |-> n + res[r].attempts,
   failovers |-> trail]

Return(r, result) == res' = [res EXCEPT ![r] = result]

\* The client disconnects: net/http cancels the request's context.
HangUp(r) ==
  /\ r \in MayHangUp /\ ~gone[r] /\ pc[r] \notin {"idle", "done"}
  /\ gone' = [gone EXCEPT ![r] = TRUE]
  /\ UNCHANGED <<shared, pc, at, run, res, past>>

Start(r) ==
  /\ Goto(r, "idle", "list")
  /\ UNCHANGED <<shared, gone, at, run, res, past>>

-----------------------------------------------------------------------------
(***************************************************************************)
(* dispatch: the list of accounts and the empty pool.                      *)
(***************************************************************************)

\* Mutant of Usable: the query forgets the cooldown.
UsableCooling(r) ==
  {s \in Pool[Here(r)] : r \in Filtered => s \in Capable}

\* ListRouteAccounts, then the image filter.
Usable(r) ==
  {s \in Pool[Here(r)] : cool[s] = 0 /\ (r \in Filtered => s \in Capable)}

\* FilterServableAccounts: no servable seat keeps them all.
FilterServable(r, S) ==
  IF S \cap Servable[r] # {} THEN S \cap Servable[r] ELSE S

List(r) ==
  /\ ~gone[r] /\ Usable(r) # {}
  /\ Goto(r, "list", "session")
  /\ avail' = [avail EXCEPT ![r] = FilterServable(r, Usable(r))]
  /\ tried' = [tried EXCEPT ![r] = {}]
  /\ attempts' = [attempts EXCEPT ![r] = 0]
  /\ failovers' = [failovers EXCEPT ![r] = << >>]
  /\ base' = [base EXCEPT ![r] = Len(log[r])]
  /\ UNCHANGED <<shared, gone, at, prefer, acc, outcome, res, log, rest>>

ListNone(r) ==
  /\ ~gone[r] /\ Usable(r) = {} /\ r \notin Filtered
  /\ Goto(r, "list", "empty")
  /\ UNCHANGED <<shared, gone, at, run, res, past>>

\* A filtered request with no usable seat is refused with 400 at once.
ListNoneFiltered(r) ==
  /\ ~gone[r] /\ Usable(r) = {} /\ r \in Filtered
  /\ Goto(r, "list", "done")
  /\ Return(r, Reply(r, "noaccounts", NoSeat, 0, << >>))
  /\ UNCHANGED <<shared, gone, at, run, past>>

\* The query fails, of a database error or a cancelled context; dispatch
\* returns the error.
ListFails(r) ==
  /\ pc[r] \in {"list", "empty"}
  /\ pc' = [pc EXCEPT ![r] = "done"]
  /\ Return(r, Failed)
  /\ UNCHANGED <<shared, gone, at, run, past>>

\* emptyAccountsResult: 400 for a route without accounts, which ends the
\* request; 503 with Retry-After when every seat cools, which falls back.
Empty(r) ==
  /\ ~gone[r] /\ pc[r] = "empty"
  /\ \/ /\ Pool[Here(r)] = {}
        /\ pc' = [pc EXCEPT ![r] = "done"]
        /\ Return(r, Reply(r, "noaccounts", NoSeat, 0, << >>))
     \/ /\ Pool[Here(r)] # {}
        /\ pc' = [pc EXCEPT ![r] = "fallback"]
        /\ Return(r, Cooling)
  /\ UNCHANGED <<shared, gone, at, run, past>>

\* affinity().Get
Session(r) ==
  /\ Goto(r, "session", "pick")
  /\ prefer' = [prefer EXCEPT ![r] = IF SessionOf[r] = NoSession
                                     THEN NoSeat ELSE sticky[SessionOf[r]]]
  /\ UNCHANGED <<shared, gone, at, avail, tried, acc, outcome, attempts,
                 failovers, res, past>>

-----------------------------------------------------------------------------
(***************************************************************************)
(* dispatch: the loop over the candidates.                                 *)
(***************************************************************************)

\* Mutant of Candidates: a soft failure excludes a seat.
CandidatesFreshOnly(r) == {s \in avail[r] \ tried[r] : soft[s] = 0}

Candidates(r) == avail[r] \ tried[r]

\* PreferAccount puts the sticky seat first, PreferFresh the seats without a
\* recent soft failure before the others, keeping the order in each group.
Before(r, s, t) ==
  \/ soft[s] = 0 /\ soft[t] > 0
  \/ /\ soft[s] = 0 <=> soft[t] = 0
     /\ \/ s = prefer[r]
        \/ t # prefer[r] /\ Rank[Here(r)][s] <= Rank[Here(r)][t]

\* Sequential takes the head of the list; the strategies that score or draw
\* may take any candidate.
Picks(r) ==
  {s \in Candidates(r) :
     Here(r) \in Sequential => \A t \in Candidates(r) : Before(r, s, t)}

Pick(r) ==
  /\ Goto(r, "pick", "call")
  /\ \E s \in Picks(r) :
       /\ acc' = [acc EXCEPT ![r] = s]
       /\ tried' = [tried EXCEPT ![r] = @ \cup {s}]
       /\ log' = [log EXCEPT ![r] = Append(@, s)]
  /\ attempts' = [attempts EXCEPT ![r] = @ + 1]
  /\ UNCHANGED <<shared, gone, at, avail, prefer, outcome, failovers, res,
                 base, rest>>

\* Mutant of Exhausted: the first failure is returned.
ExhaustedEarly(r) ==
  /\ attempts[r] > 0
  /\ Goto(r, "pick", "fallback")
  /\ Return(r, [kind |-> "fail", seat |-> acc[r], attempts |-> attempts[r],
               failovers |-> failovers[r]])
  /\ UNCHANGED <<shared, gone, at, run, past>>

\* No candidate left: the last failed result stands, with the whole trail.
Exhausted(r) ==
  /\ Candidates(r) = {}
  /\ Goto(r, "pick", "fallback")
  /\ Return(r, [kind |-> "fail", seat |-> acc[r], attempts |-> attempts[r],
               failovers |-> failovers[r]])
  /\ UNCHANGED <<shared, gone, at, run, past>>

\* What a call can return: a bridge that cannot convert the request refuses it
\* before anything is read or sent; a malformed base_url fails http.NewRequest
\* after the credential was read; a cancelled context fails the exchange.
Answers(r) ==
  IF acc[r] \in Broken THEN {"hard", "error", "down"}
  ELSE IF gone[r] THEN {"hard", "down", "ttft"}
  ELSE Outcomes \ {"error", "none"}

AfterAnswer(o) ==
  CASE o \in SoftOutcomes -> "note"
    [] o = "ok" -> "clear"
    [] o = "hard" -> "hard"
    [] OTHER -> "done"

\* The call (with awaitCommit on a stream) comes back.
Answer(r) ==
  /\ pc[r] = "call"
  /\ \E o \in Answers(r) :
       /\ outcome' = [outcome EXCEPT ![r] = o]
       /\ pc' = [pc EXCEPT ![r] = AfterAnswer(o)]
       /\ res' = IF o = "error" THEN [res EXCEPT ![r] = Failed] ELSE res
  /\ UNCHANGED <<shared, gone, at, avail, tried, prefer, acc, attempts,
                 failovers, past>>

\* NoteSoftFail
Note(r) ==
  /\ Goto(r, "note", "cool")
  /\ soft' = [soft EXCEPT ![acc[r]] = SoftWindow]
  /\ UNCHANGED <<cool, sticky, gone, at, run, res, past>>

\* Mutant of Cool: a stream that fails before its first token is not recorded.
CoolNoTrail(r) ==
  /\ Goto(r, "cool", "pick")
  /\ cool' = [cool EXCEPT ![acc[r]] = CoolFor[outcome[r]]]
  /\ rest' = [rest EXCEPT ![r] = @ \cup {acc[r]}]
  /\ failovers' = IF outcome[r] = "ttft" THEN failovers
                  ELSE [failovers EXCEPT ![r] = Append(@, acc[r])]
  /\ UNCHANGED <<soft, sticky, gone, at, avail, tried, prefer, acc, outcome,
                 attempts, res, log, base>>

\* SetCooldown, whose error is dropped, and the failover record.
Cool(r) ==
  /\ Goto(r, "cool", "pick")
  /\ \/ UNCHANGED <<cool, rest>>
     \/ /\ ~gone[r]
        /\ cool' = [cool EXCEPT ![acc[r]] = CoolFor[outcome[r]]]
        /\ rest' = [rest EXCEPT ![r] = @ \cup {acc[r]}]
  /\ failovers' = [failovers EXCEPT ![r] = Append(@, acc[r])]
  /\ UNCHANGED <<soft, sticky, gone, at, avail, tried, prefer, acc, outcome,
                 attempts, res, log, base>>

\* Success: ClearSoftFail.
Clear(r) ==
  /\ Goto(r, "clear", "heal")
  /\ soft' = [soft EXCEPT ![acc[r]] = 0]
  /\ UNCHANGED <<cool, sticky, gone, at, run, res, past>>

\* Writing NULL or a past time to cooldown_until ends the rest of the seat.
Lift(S) ==
  /\ cool' = [s \in Seats |-> IF s \in S THEN 0 ELSE cool[s]]
  /\ rest' = [r \in Requests |-> rest[r] \ S]

\* MarkAccountHealthy, whose error is dropped.
Heal(r) ==
  /\ Goto(r, "heal", "stick")
  /\ \/ UNCHANGED <<cool, rest>>
     \/ ~gone[r] /\ Lift({acc[r]})
  /\ UNCHANGED <<soft, sticky, gone, at, run, res, log, base>>

\* affinity().Set, which ignores the empty session key.
Stick(r) ==
  /\ Goto(r, "stick", "done")
  /\ sticky' = IF SessionOf[r] = NoSession THEN sticky
               ELSE [sticky EXCEPT ![SessionOf[r]] = acc[r]]
  /\ Return(r, Reply(r, "ok", acc[r], attempts[r], failovers[r]))
  /\ UNCHANGED <<cool, soft, gone, at, run, past>>

\* A hard error (400, 404, ...) clears the soft failure and ends the request.
Hard(r) ==
  /\ Goto(r, "hard", "done")
  /\ soft' = [soft EXCEPT ![acc[r]] = 0]
  /\ Return(r, Reply(r, "hard", acc[r], attempts[r], failovers[r]))
  /\ UNCHANGED <<cool, sticky, gone, at, run, past>>

\* Mutant of NoFallbackLeft: the last slug never ends the request.
NoFallbackLeftStuck(r) ==
  /\ at[r] > Len(Chain[r])
  /\ Goto(r, "fallback", "done")
  /\ UNCHANGED <<shared, gone, at, run, res, past>>

\* dispatchWithFallbacks: the next overflow route.
Fallback(r) ==
  /\ at[r] < Len(Chain[r])
  /\ Goto(r, "fallback", "list")
  /\ at' = [at EXCEPT ![r] = @ + 1]
  /\ UNCHANGED <<shared, gone, run, res, past>>

\* GetRouteBySlug misses its cache and its query fails: skip the slug.
FallbackSkipped(r) ==
  /\ at[r] < Len(Chain[r]) /\ pc[r] = "fallback"
  /\ at' = [at EXCEPT ![r] = @ + 1]
  /\ UNCHANGED <<shared, pc, gone, run, res, past>>

NoFallbackLeft(r) ==
  /\ at[r] = Len(Chain[r])
  /\ Goto(r, "fallback", "done")
  /\ UNCHANGED <<shared, gone, at, run, res, past>>

-----------------------------------------------------------------------------
(***************************************************************************)
(* The environment: time, the affinity TTL and the health prober.          *)
(***************************************************************************)

Minus1(n) == IF n > 0 THEN n - 1 ELSE 0

Tick ==
  /\ \E s \in Seats : cool[s] > 0 \/ soft[s] > 0
  /\ cool' = [s \in Seats |-> Minus1(cool[s])]
  /\ soft' = [s \in Seats |-> Minus1(soft[s])]
  /\ rest' = [r \in Requests |-> {s \in rest[r] : cool[s] > 1}]
  /\ UNCHANGED <<sticky, pc, gone, at, run, res, log, base>>

AffinityExpires(k) ==
  /\ sticky[k] # NoSeat
  /\ sticky' = [sticky EXCEPT ![k] = NoSeat]
  /\ UNCHANGED <<cool, soft, pc, gone, at, run, res, past>>

ProbeHealthy(s) ==
  /\ cool[s] > 0
  /\ Lift({s})
  /\ UNCHANGED <<soft, sticky, pc, gone, at, run, res, log, base>>

ProbeUnhealthy(s) ==
  /\ cool' = [cool EXCEPT ![s] = ProbeCool]
  /\ UNCHANGED <<soft, sticky, pc, gone, at, run, res, past>>

-----------------------------------------------------------------------------
Step(r) ==
  \/ List(r) \/ ListNone(r) \/ ListNoneFiltered(r) \/ ListFails(r)
  \/ Empty(r) \/ Session(r) \/ Pick(r) \/ Exhausted(r) \/ Answer(r)
  \/ Note(r) \/ Cool(r) \/ Clear(r) \/ Heal(r) \/ Stick(r) \/ Hard(r)
  \/ Fallback(r) \/ FallbackSkipped(r) \/ NoFallbackLeft(r)

Next ==
  \/ \E r \in Requests : Start(r) \/ HangUp(r) \/ Step(r)
  \/ Tick
  \/ \E k \in Sessions : AffinityExpires(k)
  \/ \E s \in Seats : ProbeHealthy(s) \/ ProbeUnhealthy(s)

Spec == Init /\ [][Next]_vars

\* A started goroutine keeps running: its database calls return and its HTTP
\* exchange is cut by http.Client.Timeout (120 s) if the vendor never answers.
FairSpec == Spec /\ \A r \in Requests : WF_vars(Step(r))

-----------------------------------------------------------------------------
(***************************************************************************)
(* Properties.                                                             *)
(***************************************************************************)

\* Every variable holds a value of its type.
TypeOK ==
  /\ cool \in [Seats -> Nat]
  /\ soft \in [Seats -> Nat]
  /\ sticky \in [Sessions -> Seats \cup {NoSeat}]
  /\ pc \in [Requests -> Locations]
  /\ gone \in [Requests -> BOOLEAN]
  /\ at \in [Requests -> Nat \ {0}]
  /\ \A r \in Requests : at[r] <= Len(Chain[r])
  /\ avail \in [Requests -> SUBSET Seats]
  /\ tried \in [Requests -> SUBSET Seats]
  /\ prefer \in [Requests -> Seats \cup {NoSeat}]
  /\ acc \in [Requests -> Seats \cup {NoSeat}]
  /\ outcome \in [Requests -> Outcomes]
  /\ attempts \in [Requests -> Nat]
  /\ failovers \in [Requests -> Seq(Seats)]
  /\ res \in [Requests -> Results]
  /\ log \in [Requests -> Seq(Seats)]
  /\ base \in [Requests -> Nat]
  /\ rest \in [Requests -> SUBSET Seats]

\* The calls of the running, or last, dispatch of a request.
Calls(r) == SubSeq(log[r], base[r] + 1, Len(log[r]))
Called(r) == {Calls(r)[i] : i \in DOMAIN Calls(r)}

InLoop == {"session", "pick", "call", "note", "cool"}
InCall == {"call", "note", "cool", "clear", "heal", "stick", "hard"}
Dispatching == InLoop \cup InCall

\* The account of a running call is one the dispatch has marked as tried, and
\* only a soft failure is noted and cooled.
CallIsTried ==
  \A r \in Requests :
    /\ pc[r] \in InCall => acc[r] \in tried[r]
    /\ pc[r] \in {"note", "cool"} => outcome[r] \in SoftOutcomes

\* A seat a request cooled is still cooling, and the request's running
\* dispatch either did not list it or has tried it.
RestIsRespected ==
  /\ \A r \in Requests : \A s \in rest[r] : cool[s] > 0
  /\ \A r \in Requests : pc[r] \in Dispatching => rest[r] \cap avail[r] \subseteq tried[r]

\* A dispatch gives up on its pool only after every seat it listed was called
\* by this very request (the empty-candidates return of dispatch), whatever the
\* other requests and the prober do to the seats meanwhile.
GivesUpExhausted ==
  \A r \in Requests :
    (pc[r] = "fallback" /\ res[r].kind = "fail") => Called(r) = avail[r]

\* The failover trail and the attempt counter of a dispatch tell exactly the
\* calls that have failed so far, in their order: what the handler bills as
\* usage events (on exhaustion the last of them is the returned Result too).
TrailIsExact ==
  \A r \in Requests : pc[r] \in Dispatching \ {"session"} =>
    /\ attempts[r] = Len(log[r]) - base[r]
    /\ failovers[r] = SubSeq(log[r], base[r] + 1,
                             Len(log[r]) - IF pc[r] \in InCall THEN 1 ELSE 0)

\* A request does not call again a seat it cooled itself, not even through a
\* fallback route that shares the seat, until time, a probe or another
\* request's success has lifted the cooldown.
NoRetryWhileCooling ==
  \A r \in Requests : pc[r] = "call" => acc[r] \notin rest[r]

\* Every request that was accepted is answered.
Answered == \A r \in Requests : pc[r] = "list" ~> pc[r] = "done"

\* The dispatch implements the abstract failover.
Phase(r) ==
  CASE pc[r] = "idle" -> "idle"
    [] pc[r] \in {"list", "empty", "fallback"} -> "between"
    [] pc[r] \in InLoop -> "open"
    [] pc[r] \in {"clear", "heal", "stick"} -> "served"
    [] pc[r] = "hard" -> "refused"
    [] OTHER -> CASE res[r].kind = "ok" -> "served"
                  [] res[r].kind = "hard" -> "refused"
                  [] res[r].kind = "error" -> "aborted"
                  [] OTHER -> "gaveup"

Left(r) ==
  IF pc[r] \in InLoop
  THEN Candidates(r) \cup (IF pc[r] = "call" THEN {acc[r]} ELSE {}) ELSE {}

By(r) == IF Phase(r) \in {"served", "refused"} THEN acc[r] ELSE NoSeat

phases == [r \in Requests |-> Phase(r)]
lefts == [r \in Requests |-> Left(r)]
bys == [r \in Requests |-> By(r)]

Abstract == INSTANCE Failover WITH phase <- phases, left <- lefts, by <- bys

\* Every behaviour of the dispatch is one of the abstract failover: a pool is
\* never left with an untried seat, and nothing is tried after an answer.
Promise == Abstract!FailoverSpec

=============================================================================

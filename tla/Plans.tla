------------------------------- MODULE Plans --------------------------------
(***************************************************************************)
(* The plan of one project (internal/billing, store/billing.go) and what   *)
(* it gates: how many objects the project may hold, its parallel presets,  *)
(* the requests a minute of one key, the tokens a month, with              *)
(* BILLING_ENFORCE set.  Every gate reads the billing row by itself, and   *)
(* the call acts on what it read after other calls have moved on.          *)
(***************************************************************************)
EXTENDS Integers, FiniteSets

CONSTANTS
  Apis,        \* POST of an account, a route or a key to the control API
  Consoles,    \* the same from the console
  Updaters,    \* PATCH of a route to the parallel preset, of either kind
  Frees,       \* activations of the free plan
  Upstreams,   \* callers of the upstream endpoints, with one key
  Casts,       \* which of them come together
  FreeObjects, StarterObjects, \* plans of a project: objects of one kind,
  FreeRPM, DefaultRPM,         \* requests a minute,
  FreeTokens,                  \* tokens a month
  Window,      \* of the rate limiter
  UnifiGrace,
  MaxTokens,   \* bound on the tokens of one call
  MaxObjects, MaxUsed, \* bounds on the objects, and on the tokens of a month
  MaxPayments, MaxTime \* bounds

Procs == Apis \cup Consoles \cup Updaters \cup Frees \cup Upstreams
Creators == (Apis \cup Consoles) \ Updaters
Paid == {"starter", "pro"}
RawPlans == {"none", "trial", "free"} \cup Paid
Statuses == {"none", "active", "past_due", "trialing"}
Locations == {"console", "entitled", "ensure", "activate", "capacity", "count",
              "parallel", "insert", "insertParallel", "update", "rpm", "allow",
              "softcap", "usage", "record", "done"}
NoEnd == -1
Nothing == [plan |-> "none", end |-> NoEnd]

ASSUME PlansAssumption ==
  /\ {FreeObjects, StarterObjects, FreeRPM, DefaultRPM, FreeTokens} \subseteq Nat \ {0}
  /\ FreeObjects <= StarterObjects
  /\ Window \in Nat \ {0} /\ {UnifiGrace, MaxTokens} \subseteq Nat
  /\ {MaxObjects, MaxUsed, MaxPayments, MaxTime} \subseteq Nat
  /\ Apis \cap Consoles = {} /\ Updaters \cap Upstreams = {}
  /\ (Apis \cup Consoles) \cap (Frees \cup Upstreams) = {}
  /\ Frees \cap (Upstreams \cup Updaters) = {}
  /\ Casts \subseteq SUBSET Procs /\ IsFiniteSet(Procs)

VARIABLES
  now,
  row,      \* the billing columns of the project
  keys,     \* the objects are the project's active keys
  objects,  \* how many of one kind it holds that were made behind the gate
  minted,   \* how many keys it holds that were made without it
  parallel, \* some route has the parallel preset
  bucket,   \* the limiter's window for the key
  used,     \* the tokens recorded this month
  pc,
  on,       \* where a call goes on when its gate lets it, and when it fails
  lim       \* the limit a call read from the row, 0 before and after its use

(***************************************************************************)
(* History, read by the properties only.                                   *)
(***************************************************************************)
VARIABLES
  payments,
  owed,      \* the plan last paid for and not expired, and until when
  overtaken, \* a payment came between the read of an activation and its write
  widest,    \* the largest limit a count was compared with, 0 for none
  granted,   \* the calls the limiter let through: when, and in which window
  uncapped   \* a call of this month was compared with no cap

billing == <<row, payments, owed>>
control == <<objects, minted, parallel, widest>>
traffic == <<bucket, used, granted, uncapped>>
vars == <<now, row, keys, objects, minted, parallel, bucket, used, pc, on, lim, payments,
          owed, overtaken, widest, granted, uncapped>>

Held == objects + minted

-----------------------------------------------------------------------------
(***************************************************************************)
(* internal/billing: what a row entitles to.                               *)
(***************************************************************************)

Canonical(plan) == IF plan = "trial" THEN "free" ELSE plan

Limits(plan) ==
  [objects |-> IF plan = "free" THEN FreeObjects
               ELSE IF plan = "starter" THEN StarterObjects ELSE 0,
   rpm     |-> IF plan = "free" THEN FreeRPM ELSE 0,
   tokens  |-> IF plan = "free" THEN FreeTokens ELSE 0]

Entitled(r, t) ==
  \/ Canonical(r.plan) = "free"
  \/ /\ r.status \in {"active", "past_due", "trialing"}
     /\ IF r.end = NoEnd
        THEN r.status # "past_due"
        ELSE t <= r.end + (IF r.unifi /\ r.status = "past_due" THEN UnifiGrace ELSE 0)

EffectivePlan(r, t) == IF Entitled(r, t) THEN Canonical(r.plan) ELSE "none"

EntitledNow == Entitled(row, now)
PlanNow == EffectivePlan(row, now)

-----------------------------------------------------------------------------
\* Whoever is answered comes again.
Entry(p) ==
  IF p \in Consoles THEN "console"
  ELSE IF p \in Updaters THEN "parallel"
  ELSE IF p \in Apis THEN "capacity"
  ELSE IF p \in Frees THEN "ensure" ELSE "entitled"

\* What the gate of the plan stands before.
Behind(p) ==
  IF p \in Upstreams THEN "rpm"
  ELSE IF p \in Updaters THEN "parallel" ELSE "capacity"

\* A project starts without a plan, or with a row of the retired trial.
Init ==
  /\ now = 0
  /\ \E r \in {<<"none", "none">>, <<"trial", "trialing">>} :
       row = [plan |-> r[1], status |-> r[2], end |-> NoEnd, unifi |-> FALSE]
  /\ objects = 0 /\ minted = 0 /\ parallel = FALSE
  /\ bucket = [start |-> 0, count |-> 0]
  /\ used = 0
  /\ \E cast \in Casts :
       /\ keys \in IF cast \cap Creators = {} THEN {FALSE} ELSE BOOLEAN
       /\ pc = [p \in Procs |-> IF p \in cast THEN Entry(p) ELSE "done"]
  /\ on = [p \in Procs |-> [ok |-> IF p \in Frees THEN "ensure" ELSE Behind(p),
                            err |-> Entry(p)]]
  /\ lim = [p \in Procs |-> 0]
  /\ payments = 0 /\ owed = Nothing /\ overtaken = FALSE
  /\ widest = FreeObjects
  /\ granted = {}
  /\ uncapped = FALSE

Goto(p, from, to) == pc[p] = from /\ pc' = [pc EXCEPT ![p] = to]

-----------------------------------------------------------------------------
(***************************************************************************)
(* Becoming entitled.                                                      *)
(***************************************************************************)

\* A read of the row fails: a gate answers 500, an activation fails.
LookupFails(p) ==
  /\ \/ \E from \in {"console", "entitled", "capacity", "count", "parallel"} :
          Goto(p, from, Entry(p))
     \/ Goto(p, "ensure", on[p].err)
  /\ UNCHANGED <<now, billing, control, traffic, on, lim, overtaken>>

\* ensureConsoleEntitled: an unentitled project is put on the free plan; when
\* that fails, requirePlanEntitled tries once more.
EnsureConsoleEntitled(p) ==
  /\ \/ EntitledNow /\ Goto(p, "console", Behind(p)) /\ UNCHANGED on
     \/ ~EntitledNow /\ Goto(p, "console", "ensure")
        /\ on' = [on EXCEPT ![p] = [ok |-> Behind(p), err |-> "entitled"]]
  /\ UNCHANGED <<now, billing, control, traffic, lim, overtaken>>

RequirePlanEntitled(p) ==
  /\ \/ EntitledNow /\ Goto(p, "entitled", on[p].ok) /\ UNCHANGED on
     \/ ~EntitledNow /\ Goto(p, "entitled", "ensure")
        /\ on' = [on EXCEPT ![p] = [ok |-> on[p].ok, err |-> Entry(p)]]
  /\ UNCHANGED <<now, billing, control, traffic, lim, overtaken>>

\* EnsureFreePlan reads the row: a paid plan and a clean free one stay.
EnsureFreeReadAny(p) ==
  /\ Goto(p, "ensure", IF PlanNow = "free" /\ row.status = "active"
                       THEN on[p].ok ELSE "activate")
  /\ UNCHANGED <<now, billing, control, traffic, on, lim, overtaken>>

EnsureFreeRead(p) ==
  /\ Goto(p, "ensure", IF \/ PlanNow \in Paid
                          \/ PlanNow = "free" /\ row.status = "active"
                       THEN on[p].ok ELSE "activate")
  /\ UNCHANGED <<now, billing, control, traffic, on, lim, overtaken>>

FreeRow == [plan |-> "free", status |-> "active", end |-> NoEnd, unifi |-> row.unifi]

\* ... and writes it, whatever it has become since.
EnsureFreeWrite(p) ==
  /\ \/ Goto(p, "activate", on[p].ok) /\ row' = FreeRow
     \/ Goto(p, "activate", on[p].err) /\ UNCHANGED row
  /\ UNCHANGED <<now, payments, owed, control, traffic, on, lim, overtaken>>

-----------------------------------------------------------------------------
(***************************************************************************)
(* The hosted billing service writes the row through the store.            *)
(***************************************************************************)

ApplyPaidPeriod ==
  /\ payments < MaxPayments
  /\ \E plan \in Paid, end \in now..MaxTime, unifi \in BOOLEAN :
       /\ row' = [plan |-> plan, status |-> "active", end |-> end, unifi |-> unifi]
       /\ owed' = [plan |-> plan, end |-> end]
  /\ payments' = payments + 1
  /\ overtaken' = (overtaken \/ \E p \in Procs : pc[p] = "activate")
  /\ UNCHANGED <<now, control, traffic, pc, on, lim>>

SetBillingPastDue ==
  /\ owed # Nothing /\ row.status = "active"
  /\ row' = [plan |-> row.plan, status |-> "past_due", end |-> row.end, unifi |-> row.unifi]
  /\ UNCHANGED <<now, payments, owed, control, traffic, pc, on, lim, overtaken>>

SetBillingExpired ==
  /\ owed # Nothing
  /\ row' = FreeRow
  /\ owed' = Nothing
  /\ UNCHANGED <<now, payments, control, traffic, pc, on, lim, overtaken>>

-----------------------------------------------------------------------------
(***************************************************************************)
(* The control plane: capacity, then the preset, then the object.          *)
(***************************************************************************)

RequirePlanCapacity(p) ==
  /\ \/ /\ EntitledNow
        /\ Goto(p, "capacity", "count")
        /\ lim' = [lim EXCEPT ![p] = Limits(PlanNow).objects]
     \/ ~EntitledNow /\ Goto(p, "capacity", Entry(p)) /\ UNCHANGED lim
  /\ UNCHANGED <<now, billing, control, traffic, on, overtaken>>

\* CountProjectAccounts, CountProjectRoutes or CountProjectActiveKeys; a
\* limit of 0 means none.
CountWithin(p, full) ==
  /\ \/ /\ ~full
        /\ \E to \in IF keys THEN {"insert"} ELSE {"insert", "parallel"} : Goto(p, "count", to)
     \/ full /\ Goto(p, "count", Entry(p))
  /\ widest' = IF full \/ widest = 0 THEN widest
               ELSE IF lim[p] = 0 \/ lim[p] > widest THEN lim[p] ELSE widest
  /\ lim' = [lim EXCEPT ![p] = 0]
  /\ UNCHANGED <<now, billing, objects, minted, parallel, traffic, on, overtaken>>

CountOffByOne(p) == CountWithin(p, lim[p] > 0 /\ Held > lim[p])
Count(p) == CountWithin(p, lim[p] > 0 /\ Held >= lim[p])

\* requireProParallel: a lapsed project is asked for a plan only, which
\* requirePlanEntitled then gives it.
ParallelPassed(p) == IF p \in Updaters THEN "update" ELSE "insertParallel"

RequireProParallel(p) ==
  /\ Goto(p, "parallel", IF ~EntitledNow THEN "entitled"
                         ELSE IF PlanNow = "pro" THEN ParallelPassed(p) ELSE Entry(p))
  /\ on' = [on EXCEPT ![p] = [ok |-> ParallelPassed(p), err |-> on[p].err]]
  /\ UNCHANGED <<now, billing, control, traffic, lim, overtaken>>

\* CreateAccount, CreateRoute or InsertKey: the row, or an error.
Create(p) ==
  /\ \/ Goto(p, "insert", Entry(p)) /\ objects' = objects + 1 /\ UNCHANGED parallel
     \/ Goto(p, "insertParallel", Entry(p)) /\ objects' = objects + 1 /\ parallel' = TRUE
     \/ Goto(p, "update", Entry(p)) /\ UNCHANGED objects /\ parallel' = (objects > 0 \/ parallel)
  /\ UNCHANGED <<now, billing, minted, widest, traffic, on, lim, overtaken>>
  /\ Held' <= MaxObjects

CreateFails(p) ==
  /\ \E from \in {"insert", "insertParallel", "update"} : Goto(p, from, Entry(p))
  /\ UNCHANGED <<now, billing, control, traffic, on, lim, overtaken>>

\* A sign-in of a project without a cli key, or one that has the cli key
\* rotated, and Bootstrap make a key that passes no gate; the keys a rotation
\* revokes first are deletions.
MintKey ==
  /\ keys
  /\ Held < MaxObjects
  /\ minted' = minted + 1
  /\ UNCHANGED <<now, billing, objects, parallel, widest, traffic, pc, on, lim, overtaken>>

-----------------------------------------------------------------------------
(***************************************************************************)
(* handleUpstream: the plan, the rate, the cap, the call, its usage.       *)
(***************************************************************************)

PlanRPMLimit(p) ==
  /\ Goto(p, "rpm", "allow")
  /\ \E r \in {PlanNow, "none"} : \* or the lookup fails
       lim' = [lim EXCEPT ![p] = IF Limits(r).rpm > 0 THEN Limits(r).rpm ELSE DefaultRPM]
  /\ UNCHANGED <<now, billing, control, traffic, on, overtaken>>

Elapsed == bucket.count = 0 \/ now - bucket.start >= Window

\* MemoryLimiter.AllowWithLimit, first counts the call that opens a window.
AllowFrom(p, first) ==
  /\ IF Elapsed \/ bucket.count < lim[p]
     THEN /\ Goto(p, "allow", "softcap")
          /\ bucket' = IF Elapsed THEN [start |-> now, count |-> first]
                       ELSE [start |-> bucket.start, count |-> bucket.count + 1]
          /\ granted' = granted \cup {[no |-> Cardinality(granted), at |-> now,
                                      opened |-> bucket'.start]}
     ELSE Goto(p, "allow", Entry(p)) /\ UNCHANGED <<bucket, granted>>
  /\ lim' = [lim EXCEPT ![p] = 0]
  /\ UNCHANGED <<now, billing, control, used, uncapped, on, overtaken>>

AllowUncounted(p) == AllowFrom(p, 0)
Allow(p) == AllowFrom(p, 1)

\* No cap when the lookup fails.
PlanSoftCap(p) ==
  /\ Goto(p, "softcap", "usage")
  /\ \E plan \in {PlanNow, "none"} : lim' = [lim EXCEPT ![p] = Limits(plan).tokens]
  /\ UNCHANGED <<now, billing, control, traffic, on, overtaken>>

\* OverSoftTokenCap; a sum that fails lets the call through.
WithinCap(p, over) ==
  /\ \/ over /\ Goto(p, "usage", Entry(p)) /\ UNCHANGED uncapped
     \/ ~over /\ Goto(p, "usage", "record") /\ uncapped' = (uncapped \/ lim[p] = 0)
     \/ lim[p] > 0 /\ Goto(p, "usage", "record") /\ uncapped' = TRUE
  /\ lim' = [lim EXCEPT ![p] = 0]
  /\ UNCHANGED <<now, billing, control, bucket, used, granted, on, overtaken>>

OverSoftTokenCapLate(p) == WithinCap(p, lim[p] > 0 /\ used > lim[p])
OverSoftTokenCap(p) == WithinCap(p, lim[p] > 0 /\ used >= lim[p])

\* InsertUsage, once the call has ended or its stream has begun: a stream and
\* a failed insert count no token.
InsertUsage(p) ==
  /\ Goto(p, "record", Entry(p))
  /\ \E n \in 0..MaxTokens : used + n <= MaxUsed /\ used' = used + n
  /\ UNCHANGED <<now, billing, control, bucket, granted, uncapped, on, lim, overtaken>>

-----------------------------------------------------------------------------
Tick ==
  /\ now < MaxTime
  /\ now' = now + 1
  /\ UNCHANGED <<billing, control, traffic, pc, on, lim, overtaken>>

\* UsageTotals sums from MonthStartUTC.
NewMonth ==
  /\ used > 0
  /\ used' = 0 /\ uncapped' = FALSE
  /\ UNCHANGED <<now, billing, control, bucket, granted, pc, on, lim, overtaken>>

\* DeleteAccount, DeleteRoute or RevokeKey.
Delete ==
  /\ \/ objects > 0 /\ objects' = objects - 1 /\ UNCHANGED minted
     \/ minted > 0 /\ minted' = minted - 1 /\ UNCHANGED objects
  /\ parallel' \in IF Held = 1 THEN {FALSE} ELSE {FALSE, parallel}
  /\ UNCHANGED <<now, billing, widest, traffic, pc, on, lim, overtaken>>

Step(p) ==
  \/ LookupFails(p) \/ EnsureConsoleEntitled(p) \/ RequirePlanEntitled(p)
  \/ EnsureFreeRead(p) \/ EnsureFreeWrite(p)
  \/ RequirePlanCapacity(p) \/ Count(p) \/ RequireProParallel(p)
  \/ Create(p) \/ CreateFails(p)
  \/ PlanRPMLimit(p) \/ Allow(p) \/ PlanSoftCap(p) \/ OverSoftTokenCap(p)
  \/ InsertUsage(p)

Next ==
  /\ \/ \E p \in Procs : Step(p)
     \/ ApplyPaidPeriod \/ SetBillingPastDue \/ SetBillingExpired
     \/ Tick \/ NewMonth \/ Delete \/ MintKey
  /\ UNCHANGED keys

Spec == Init /\ [][Next]_vars

-----------------------------------------------------------------------------
TypeOK ==
  /\ now \in 0..MaxTime
  /\ row \in [plan : RawPlans, status : Statuses, end : -1..MaxTime, unifi : BOOLEAN]
  /\ keys \in BOOLEAN /\ objects \in Nat /\ minted \in Nat /\ parallel \in BOOLEAN
  /\ bucket \in [start : 0..MaxTime, count : Nat]
  /\ used \in 0..MaxUsed
  /\ pc \in [Procs -> Locations]
  /\ on \in [Procs -> [ok : Locations, err : Locations]]
  /\ lim \in [Procs -> Nat]
  /\ payments \in 0..MaxPayments /\ owed \in [plan : RawPlans, end : -1..MaxTime]
  /\ overtaken \in BOOLEAN /\ widest \in Nat
  /\ granted \subseteq [no : Nat, at : 0..MaxTime, opened : 0..MaxTime]
  /\ IsFiniteSet(granted) /\ uncapped \in BOOLEAN

\* Counting and creating are two steps (requirePlanCapacity), so a plan's
\* limit can be passed, but never by more than the callers that counted
\* before the others created and the keys minted without a gate: where none
\* is, one caller at a time keeps the limit.
OvershootBounded ==
  widest > 0 => Held < widest + Cardinality(Creators) + minted

\* The cap is compared before the call whose tokens are recorded after it
\* (handleUpstream): the calls under way at once are all a month can exceed
\* the cap by, unless some call was compared with no cap, on a paid plan or
\* because the store failed.
CapOvershootBounded ==
  ~uncapped => used < FreeTokens + MaxTokens * Cardinality(Upstreams)

HighestRPM == IF FreeRPM > DefaultRPM THEN FreeRPM ELSE DefaultRPM

GrantedFrom(t) == {call \in granted : call.at \in t..t + Window - 1}

\* The limiter's windows begin with a call and not at fixed times, so a key
\* gets less than twice its limit in any span as long as a window, whatever
\* the plan and its limit become meanwhile.
BurstBelowTwice ==
  \A t \in 0..MaxTime : Cardinality(GrantedFrom(t)) < 2 * HighestRPM

\* A plan that was paid for and neither ended nor expired stays the project's
\* plan, unless it was paid while an activation of the free plan stood between
\* its read and its write (EnsureFreePlan).
PaidLostOnlyByRace ==
  owed # Nothing /\ ~overtaken /\ now <= owed.end => row.plan = owed.plan
=============================================================================

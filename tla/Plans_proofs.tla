---------------------------- MODULE Plans_proofs ----------------------------
(***************************************************************************)
(* Theorems about a project's plan and what it gates, for any number of    *)
(* callers, any limits and any length of the run.                          *)
(***************************************************************************)
EXTENDS Plans, FiniteSetTheorems, TLAPS

(***************************************************************************)
(* Type correctness.  It needs to know who stands where: only a creator    *)
(* counts or creates, only a caller of the upstream endpoints is limited.  *)
(***************************************************************************)
Roles ==
  \A p \in Procs :
    /\ pc[p] = "console" => p \in Consoles
    /\ pc[p] \in {"capacity", "count", "insert", "insertParallel"} => p \in Creators
    /\ pc[p] \in {"rpm", "allow", "softcap", "usage", "record"} => p \in Upstreams
    /\ pc[p] = "parallel" => p \in Updaters \cup Creators
    /\ on[p].ok \in {"ensure", "capacity", "rpm", "parallel", "update", "insertParallel"}
    /\ on[p].ok \in {"capacity", "insertParallel"} => p \in Creators
    /\ on[p].ok \in {"parallel", "update"} => p \in Updaters
    /\ on[p].ok = "rpm" => p \in Upstreams
    /\ on[p].err \in {"console", "parallel", "capacity", "ensure", "entitled"}
    /\ on[p].err = "console" => p \in Consoles
    /\ on[p].err = "parallel" => p \in Updaters
    /\ on[p].err = "capacity" => p \in Creators

\* The parts of TypeOK.
Flags ==
  /\ keys \in BOOLEAN /\ parallel \in BOOLEAN
  /\ overtaken \in BOOLEAN /\ uncapped \in BOOLEAN

Places ==
  /\ pc \in [Procs -> Locations]
  /\ on \in [Procs -> [ok : Locations, err : Locations]]
  /\ lim \in [Procs -> Nat]

Bill ==
  /\ row \in [plan : RawPlans, status : Statuses, end : -1..MaxTime, unifi : BOOLEAN]
  /\ payments \in 0..MaxPayments /\ owed \in [plan : RawPlans, end : -1..MaxTime]

Numbers ==
  /\ now \in 0..MaxTime
  /\ objects \in Nat /\ minted \in Nat /\ widest \in Nat
  /\ bucket \in [start : 0..MaxTime, count : Nat]
  /\ used \in 0..MaxUsed
  /\ granted \subseteq [no : Nat, at : 0..MaxTime, opened : 0..MaxTime]
  /\ IsFiniteSet(granted)

Typed == Places /\ Bill /\ Numbers /\ Roles

LEMMA Parts == Places /\ Bill /\ Numbers /\ Flags <=> TypeOK
  BY DEF Places, Bill, Numbers, Flags, TypeOK

LEMMA EntryOf ==
  ASSUME NEW p \in Procs
  PROVE  /\ Entry(p) \in {"console", "parallel", "capacity", "ensure", "entitled"}
         /\ Entry(p) = "console" => p \in Consoles
         /\ Entry(p) = "parallel" => p \in Updaters
         /\ Entry(p) = "capacity" => p \in Creators
  BY PlansAssumption DEF Procs, Creators, Entry

LEMMA LimitsType ==
  ASSUME NEW plan
  PROVE  /\ Limits(plan).objects \in Nat
         /\ Limits(plan).rpm \in Nat
         /\ Limits(plan).tokens \in {0, FreeTokens}
  BY PlansAssumption DEF Limits

LEMMA FlagsAlways == Spec => []Flags
<1>1. Init => Flags
  BY DEF Init, Flags
<1>2. ASSUME Flags, NEW p \in Procs, Step(p), UNCHANGED keys PROVE Flags'
  <2>1. CASE LookupFails(p)
    BY <1>2, <2>1, Zenon DEF LookupFails, Flags, control, traffic
  <2>2. CASE EnsureConsoleEntitled(p)
    BY <1>2, <2>2, Zenon DEF EnsureConsoleEntitled, Flags, control, traffic
  <2>3. CASE RequirePlanEntitled(p)
    BY <1>2, <2>3, Zenon DEF RequirePlanEntitled, Flags, control, traffic
  <2>4. CASE EnsureFreeRead(p)
    BY <1>2, <2>4, Zenon DEF EnsureFreeRead, Flags, control, traffic
  <2>5. CASE EnsureFreeWrite(p)
    BY <1>2, <2>5, Zenon DEF EnsureFreeWrite, Flags, control, traffic
  <2>6. CASE RequirePlanCapacity(p)
    BY <1>2, <2>6, Zenon DEF RequirePlanCapacity, Flags, control, traffic
  <2>7. CASE Count(p)
    BY <1>2, <2>7, Zenon DEF Count, CountWithin, Flags, control, traffic
  <2>8. CASE RequireProParallel(p)
    BY <1>2, <2>8, Zenon DEF RequireProParallel, Flags, control, traffic
  <2>9. CASE Create(p)
    BY <1>2, <2>9, Zenon DEF Create, Flags, control, traffic
  <2>10. CASE CreateFails(p)
    BY <1>2, <2>10, Zenon DEF CreateFails, Flags, control, traffic
  <2>11. CASE PlanRPMLimit(p)
    BY <1>2, <2>11, Zenon DEF PlanRPMLimit, Flags, control, traffic
  <2>12. CASE Allow(p)
    BY <1>2, <2>12, Zenon DEF Allow, AllowFrom, Flags, control, traffic
  <2>13. CASE PlanSoftCap(p)
    BY <1>2, <2>13, Zenon DEF PlanSoftCap, Flags, control, traffic
  <2>14. CASE OverSoftTokenCap(p)
    BY <1>2, <2>14, Zenon DEF OverSoftTokenCap, WithinCap, Flags, control, traffic
  <2>15. CASE InsertUsage(p)
    BY <1>2, <2>15, Zenon DEF InsertUsage, Flags, control, traffic
  <2> QED
    BY <1>2, <2>1, <2>2, <2>3, <2>4, <2>5, <2>6, <2>7, <2>8, <2>9, <2>10,
       <2>11, <2>12, <2>13, <2>14, <2>15 DEF Step
<1>3. Flags /\ [Next]_vars => Flags'
  <2> SUFFICES ASSUME Flags, [Next]_vars PROVE Flags'
    OBVIOUS
  <2>0. UNCHANGED keys
    BY DEF Next, vars
  <2>1. CASE ApplyPaidPeriod
    BY <2>0, <2>1, Zenon DEF ApplyPaidPeriod, Flags, control, traffic
  <2>2. CASE SetBillingPastDue
    BY <2>0, <2>2, Zenon DEF SetBillingPastDue, Flags, control, traffic
  <2>3. CASE SetBillingExpired
    BY <2>0, <2>3, Zenon DEF SetBillingExpired, Flags, control, traffic
  <2>4. CASE Tick
    BY <2>0, <2>4, Zenon DEF Tick, Flags, control, traffic
  <2>5. CASE NewMonth
    BY <2>0, <2>5, Zenon DEF NewMonth, Flags, control, traffic
  <2>6. CASE Delete
    BY <2>0, <2>6, Zenon DEF Delete, Flags, control, traffic
  <2>7. CASE MintKey
    BY <2>0, <2>7, Zenon DEF MintKey, Flags, control, traffic
  <2>8. CASE UNCHANGED vars
    BY <2>8 DEF vars, Flags
  <2> QED
    BY <1>2, <2>0, <2>1, <2>2, <2>3, <2>4, <2>5, <2>6, <2>7, <2>8 DEF Next
<1> QED
  BY <1>1, <1>3, PTL DEF Spec

LEMMA TypedInit == Init => Typed
<1> SUFFICES ASSUME Init PROVE Typed
  OBVIOUS
<1>0. IsFiniteSet({})
  BY FS_EmptySet
<1>1. Places /\ Bill /\ Numbers
  BY <1>0, PlansAssumption, EntryOf
  DEF Init, Places, Bill, Numbers, Locations, RawPlans, Paid, Statuses, NoEnd, Nothing, Behind
<1>2. Roles
  BY PlansAssumption, EntryOf DEF Init, Roles, Procs, Creators, Behind
<1> QED
  BY <1>1, <1>2 DEF Typed

LEMMA AllowNumbers ==
  ASSUME Numbers, NEW p \in Procs, Allow(p)
  PROVE  Numbers'
<1>1. UNCHANGED <<now, objects, minted, widest, used>>
  BY DEF Allow, AllowFrom, control
<1>2. \/ bucket' = [start |-> now, count |-> 1]
      \/ bucket' = [start |-> bucket.start, count |-> bucket.count + 1]
      \/ bucket' = bucket
  BY DEF Allow, AllowFrom
<1>3. \/ granted' = granted \cup {[no |-> Cardinality(granted), at |-> now,
                                   opened |-> bucket'.start]}
      \/ granted' = granted
  BY DEF Allow, AllowFrom
<1>4. bucket' \in [start : 0..MaxTime, count : Nat]
  BY <1>2 DEF Numbers
<1>5. Cardinality(granted) \in Nat
  BY FS_CardinalityType DEF Numbers
<1>6. granted' \subseteq [no : Nat, at : 0..MaxTime, opened : 0..MaxTime]
  BY <1>3, <1>4, <1>5 DEF Numbers
<1>7. IsFiniteSet(granted')
  <2>1. IsFiniteSet(granted)
    BY DEF Numbers
  <2>2. \A x : IsFiniteSet(granted \cup {x})
    BY <2>1, FS_AddElement
  <2> QED BY <1>3, <2>1, <2>2
<1> QED
  BY <1>1, <1>4, <1>6, <1>7 DEF Numbers

LEMMA TypesStep ==
  ASSUME Typed, NEW p \in Procs, Step(p)
  PROVE  Places' /\ Bill' /\ Numbers'
<1>1. /\ Entry(p) \in Locations /\ ParallelPassed(p) \in Locations
      /\ Behind(p) \in Locations /\ on[p].ok \in Locations /\ on[p].err \in Locations
  BY EntryOf DEF Locations, ParallelPassed, Behind, Typed, Roles
<1>2. \A plan : Limits(plan).objects \in Nat /\ Limits(plan).rpm \in Nat /\ Limits(plan).tokens \in Nat
  BY LimitsType, PlansAssumption
<1>3. /\ {"entitled", "ensure", "activate", "count", "parallel", "insert"} \subseteq Locations
      /\ {"update", "allow", "softcap", "usage", "record", "capacity"} \subseteq Locations
  BY DEF Locations
<1> USE PlansAssumption, <1>1, <1>2, <1>3
    DEF Typed, Goto
<1>4. CASE LookupFails(p)
  <2>1. Places'
    BY <1>4 DEF LookupFails, Places
  <2>2. Bill'
    BY <1>4 DEF LookupFails, Bill, billing
  <2>3. Numbers'
    BY <1>4 DEF LookupFails, Numbers, control, traffic
  <2> QED
    BY <2>1, <2>2, <2>3
<1>5. CASE EnsureConsoleEntitled(p)
  <2>1. Places'
    BY <1>5 DEF EnsureConsoleEntitled, Places
  <2>2. Bill'
    BY <1>5 DEF EnsureConsoleEntitled, Bill, billing
  <2>3. Numbers'
    BY <1>5 DEF EnsureConsoleEntitled, Numbers, control, traffic
  <2> QED
    BY <2>1, <2>2, <2>3
<1>6. CASE RequirePlanEntitled(p)
  <2>1. Places'
    BY <1>6 DEF RequirePlanEntitled, Places
  <2>2. Bill'
    BY <1>6 DEF RequirePlanEntitled, Bill, billing
  <2>3. Numbers'
    BY <1>6 DEF RequirePlanEntitled, Numbers, control, traffic
  <2> QED
    BY <2>1, <2>2, <2>3
<1>7. CASE EnsureFreeRead(p)
  <2>1. Places'
    BY <1>7 DEF EnsureFreeRead, Places
  <2>2. Bill'
    BY <1>7 DEF EnsureFreeRead, Bill, billing
  <2>3. Numbers'
    BY <1>7 DEF EnsureFreeRead, Numbers, control, traffic
  <2> QED
    BY <2>1, <2>2, <2>3
<1>8. CASE EnsureFreeWrite(p)
  <2>1. Places'
    BY <1>8 DEF EnsureFreeWrite, Places
  <2>2. Bill'
    BY <1>8 DEF EnsureFreeWrite, Bill, billing, FreeRow, NoEnd, RawPlans, Statuses
  <2>3. Numbers'
    BY <1>8 DEF EnsureFreeWrite, Numbers, control, traffic
  <2> QED
    BY <2>1, <2>2, <2>3
<1>9. CASE RequirePlanCapacity(p)
  <2>1. Places'
    BY <1>9 DEF RequirePlanCapacity, Places
  <2>2. Bill'
    BY <1>9 DEF RequirePlanCapacity, Bill, billing
  <2>3. Numbers'
    BY <1>9 DEF RequirePlanCapacity, Numbers, control, traffic
  <2> QED
    BY <2>1, <2>2, <2>3
<1>10. CASE Count(p)
  <2>1. Places'
    BY <1>10 DEF Count, CountWithin, Places
  <2>2. Bill'
    BY <1>10 DEF Count, CountWithin, Bill, billing
  <2>3. lim[p] \in Nat
    BY DEF Places
  <2>4. widest' \in Nat
    BY <1>10, <2>3 DEF Count, CountWithin, Numbers
  <2>5. Numbers'
    BY <1>10, <2>4 DEF Count, CountWithin, Numbers, traffic
  <2> QED
    BY <2>1, <2>2, <2>5
<1>11. CASE RequireProParallel(p)
  <2>1. Places'
    BY <1>11 DEF RequireProParallel, Places
  <2>2. Bill'
    BY <1>11 DEF RequireProParallel, Bill, billing
  <2>3. Numbers'
    BY <1>11 DEF RequireProParallel, Numbers, control, traffic
  <2> QED
    BY <2>1, <2>2, <2>3
<1>12. CASE Create(p)
  <2>1. Places'
    BY <1>12 DEF Create, Places
  <2>2. Bill'
    BY <1>12 DEF Create, Bill, billing
  <2>3. Numbers'
    BY <1>12 DEF Create, Numbers, control, traffic
  <2> QED
    BY <2>1, <2>2, <2>3
<1>13. CASE CreateFails(p)
  <2>1. Places'
    BY <1>13 DEF CreateFails, Places
  <2>2. Bill'
    BY <1>13 DEF CreateFails, Bill, billing
  <2>3. Numbers'
    BY <1>13 DEF CreateFails, Numbers, control, traffic
  <2> QED
    BY <2>1, <2>2, <2>3
<1>14. CASE PlanRPMLimit(p)
  <2>1. Places'
    BY <1>14 DEF PlanRPMLimit, Places
  <2>2. Bill'
    BY <1>14 DEF PlanRPMLimit, Bill, billing
  <2>3. Numbers'
    BY <1>14 DEF PlanRPMLimit, Numbers, control, traffic
  <2> QED
    BY <2>1, <2>2, <2>3
<1>15. CASE Allow(p)
  <2>1. Places'
    BY <1>15 DEF Allow, AllowFrom, Places
  <2>2. Bill'
    BY <1>15 DEF Allow, AllowFrom, Bill, billing
  <2>5. Numbers'
    BY <1>15, AllowNumbers
  <2> QED
    BY <2>1, <2>2, <2>5
<1>16. CASE PlanSoftCap(p)
  <2>1. Places'
    BY <1>16 DEF PlanSoftCap, Places
  <2>2. Bill'
    BY <1>16 DEF PlanSoftCap, Bill, billing
  <2>3. Numbers'
    BY <1>16 DEF PlanSoftCap, Numbers, control, traffic
  <2> QED
    BY <2>1, <2>2, <2>3
<1>17. CASE OverSoftTokenCap(p)
  <2>1. Places'
    BY <1>17 DEF OverSoftTokenCap, WithinCap, Places
  <2>2. Bill'
    BY <1>17 DEF OverSoftTokenCap, WithinCap, Bill, billing
  <2>3. Numbers'
    BY <1>17 DEF OverSoftTokenCap, WithinCap, Numbers, control, traffic
  <2> QED
    BY <2>1, <2>2, <2>3
<1>18. CASE InsertUsage(p)
  <2>1. Places'
    BY <1>18 DEF InsertUsage, Places
  <2>2. Bill'
    BY <1>18 DEF InsertUsage, Bill, billing
  <2>3. Numbers'
    BY <1>18 DEF InsertUsage, Numbers, control, traffic
  <2> QED
    BY <2>1, <2>2, <2>3
<1> QED
  BY <1>4, <1>5, <1>6, <1>7, <1>8, <1>9, <1>10, <1>11, <1>12, <1>13, <1>14,
     <1>15, <1>16, <1>17, <1>18 DEF Step

LEMMA RolesStep ==
  ASSUME Typed, NEW p \in Procs, Step(p)
  PROVE  Roles'
<1>0. /\ Entry(p) \in {"console", "parallel", "capacity", "ensure", "entitled"}
      /\ Entry(p) = "console" => p \in Consoles
      /\ Entry(p) = "parallel" => p \in Updaters
      /\ Entry(p) = "capacity" => p \in Creators
      /\ p \in Consoles => p \notin Upstreams
      /\ p \in Consoles \ Updaters => p \in Creators
  BY EntryOf, PlansAssumption DEF Creators
<1> USE <1>0 DEF Typed, Places, Roles, Goto
<1>1. CASE LookupFails(p)
  BY <1>1 DEF LookupFails
<1>2. CASE EnsureConsoleEntitled(p)
  BY <1>2 DEF EnsureConsoleEntitled, Behind
<1>3. CASE RequirePlanEntitled(p)
  BY <1>3 DEF RequirePlanEntitled
<1>4. CASE EnsureFreeRead(p)
  BY <1>4 DEF EnsureFreeRead
<1>5. CASE EnsureFreeWrite(p)
  BY <1>5 DEF EnsureFreeWrite
<1>6. CASE RequirePlanCapacity(p)
  BY <1>6 DEF RequirePlanCapacity
<1>7. CASE Count(p)
  BY <1>7 DEF Count, CountWithin
<1>8. CASE RequireProParallel(p)
  BY <1>8 DEF RequireProParallel, ParallelPassed
<1>9. CASE Create(p)
  BY <1>9 DEF Create
<1>10. CASE CreateFails(p)
  BY <1>10 DEF CreateFails
<1>11. CASE PlanRPMLimit(p)
  BY <1>11 DEF PlanRPMLimit
<1>12. CASE Allow(p)
  BY <1>12 DEF Allow, AllowFrom
<1>13. CASE PlanSoftCap(p)
  BY <1>13 DEF PlanSoftCap
<1>14. CASE OverSoftTokenCap(p)
  BY <1>14 DEF OverSoftTokenCap, WithinCap
<1>15. CASE InsertUsage(p)
  BY <1>15 DEF InsertUsage
<1> QED
  BY <1>1, <1>2, <1>3, <1>4, <1>5, <1>6, <1>7, <1>8, <1>9, <1>10, <1>11,
     <1>12, <1>13, <1>14, <1>15 DEF Step

LEMMA TypedNext == Typed /\ [Next]_vars => Typed'
<1> SUFFICES ASSUME Typed, [Next]_vars PROVE Typed'
  OBVIOUS
<1>0. Places /\ Bill /\ Numbers /\ Roles
  BY DEF Typed
<1>1. CASE ApplyPaidPeriod
  <2>1. Places'
    BY <1>0, <1>1, PlansAssumption DEF ApplyPaidPeriod, Places
  <2>2. Bill'
    BY <1>0, <1>1, PlansAssumption DEF ApplyPaidPeriod, RawPlans, Paid, Statuses, Bill, Numbers
  <2>3. Numbers'
    BY <1>0, <1>1, PlansAssumption DEF ApplyPaidPeriod, control, traffic, Numbers
  <2>4. Roles'
    BY <1>0, <1>1, PlansAssumption DEF ApplyPaidPeriod, Roles
  <2> QED
    BY <2>1, <2>2, <2>3, <2>4 DEF Typed
<1>2. CASE SetBillingPastDue
  <2>1. Places'
    BY <1>0, <1>2, PlansAssumption DEF SetBillingPastDue, Places
  <2>2. Bill'
    BY <1>0, <1>2, PlansAssumption DEF SetBillingPastDue, RawPlans, Paid, Statuses, Bill
  <2>3. Numbers'
    BY <1>0, <1>2, PlansAssumption DEF SetBillingPastDue, control, traffic, Numbers
  <2>4. Roles'
    BY <1>0, <1>2, PlansAssumption DEF SetBillingPastDue, Roles
  <2> QED
    BY <2>1, <2>2, <2>3, <2>4 DEF Typed
<1>3. CASE SetBillingExpired
  <2>1. Places'
    BY <1>0, <1>3, PlansAssumption DEF SetBillingExpired, Places
  <2>2. Bill'
    BY <1>0, <1>3, PlansAssumption DEF SetBillingExpired, RawPlans, Paid, Statuses, FreeRow, Nothing, NoEnd, Bill
  <2>3. Numbers'
    BY <1>0, <1>3, PlansAssumption DEF SetBillingExpired, control, traffic, Numbers
  <2>4. Roles'
    BY <1>0, <1>3, PlansAssumption DEF SetBillingExpired, Roles
  <2> QED
    BY <2>1, <2>2, <2>3, <2>4 DEF Typed
<1>4. CASE Tick
  <2>1. Places'
    BY <1>0, <1>4, PlansAssumption DEF Tick, Places
  <2>2. Bill'
    BY <1>0, <1>4, PlansAssumption DEF Tick, billing, Bill
  <2>3. Numbers'
    BY <1>0, <1>4, PlansAssumption DEF Tick, control, traffic, Numbers
  <2>4. Roles'
    BY <1>0, <1>4, PlansAssumption DEF Tick, Roles
  <2> QED
    BY <2>1, <2>2, <2>3, <2>4 DEF Typed
<1>5. CASE NewMonth
  <2>1. Places'
    BY <1>0, <1>5, PlansAssumption DEF NewMonth, Places
  <2>2. Bill'
    BY <1>0, <1>5, PlansAssumption DEF NewMonth, billing, Bill
  <2>3. Numbers'
    BY <1>0, <1>5, PlansAssumption DEF NewMonth, control, Numbers
  <2>4. Roles'
    BY <1>0, <1>5, PlansAssumption DEF NewMonth, Roles
  <2> QED
    BY <2>1, <2>2, <2>3, <2>4 DEF Typed
<1>6. CASE Delete
  <2>1. Places'
    BY <1>0, <1>6, PlansAssumption DEF Delete, Places
  <2>2. Bill'
    BY <1>0, <1>6, PlansAssumption DEF Delete, billing, Bill
  <2>3. Numbers'
    BY <1>0, <1>6, PlansAssumption DEF Delete, traffic, Numbers
  <2>4. Roles'
    BY <1>0, <1>6, PlansAssumption DEF Delete, Roles
  <2> QED
    BY <2>1, <2>2, <2>3, <2>4 DEF Typed
<1>7. CASE UNCHANGED vars
  <2>1. Places'
    BY <1>0, <1>7, PlansAssumption DEF vars, Places
  <2>2. Bill'
    BY <1>0, <1>7, PlansAssumption DEF vars, Bill
  <2>3. Numbers'
    BY <1>0, <1>7, PlansAssumption DEF vars, Numbers
  <2>4. Roles'
    BY <1>0, <1>7, PlansAssumption DEF vars, Roles
  <2> QED
    BY <2>1, <2>2, <2>3, <2>4 DEF Typed
<1>8. CASE MintKey
  <2>1. Places'
    BY <1>0, <1>8, PlansAssumption DEF MintKey, Places
  <2>2. Bill'
    BY <1>0, <1>8, PlansAssumption DEF MintKey, billing, Bill
  <2>3. Numbers'
    BY <1>0, <1>8, PlansAssumption DEF MintKey, traffic, Numbers
  <2>4. Roles'
    BY <1>0, <1>8, PlansAssumption DEF MintKey, Roles
  <2> QED
    BY <2>1, <2>2, <2>3, <2>4 DEF Typed
<1> QED
  BY <1>1, <1>2, <1>3, <1>4, <1>5, <1>6, <1>7, <1>8, TypesStep, RolesStep DEF Next, Typed

LEMMA TypedAlways == Spec => []Typed
  BY TypedInit, TypedNext, PTL DEF Spec

\* Every variable always holds a value of its type.
THEOREM TypeCorrect == Spec => []TypeOK
<1>1. Typed /\ Flags => TypeOK
  BY Parts DEF Typed
<1> QED
  BY <1>1, TypedAlways, FlagsAlways, PTL

(***************************************************************************)
(* A plan that was paid for is what the row still says, and no activation  *)
(* of the free plan is about to write: EnsureFreeRead finds a paid plan.   *)
(***************************************************************************)
Kept ==
  owed # Nothing /\ ~overtaken /\ now <= owed.end =>
    /\ row.plan = owed.plan /\ row.plan \in Paid
    /\ row.status \in {"active", "past_due"}
    /\ row.end = owed.end /\ row.end # NoEnd
    /\ \A p \in Procs : pc[p] # "activate"

LEMMA KeptFrame ==
  ASSUME Kept, UNCHANGED <<now, row, owed, overtaken>>,
         \A q \in Procs : pc'[q] = "activate" => pc[q] = "activate"
  PROVE  Kept'
  BY DEF Kept

LEMMA KeptIsPaid ==
  ASSUME Typed, Kept, owed # Nothing, ~overtaken, now <= owed.end
  PROVE  PlanNow \in Paid
<1>1. now \in Int /\ owed.end \in Int /\ UnifiGrace \in Nat
  BY PlansAssumption DEF Typed, Numbers, Bill
<1>2. row.plan \in {"starter", "pro"} /\ row.status \in {"active", "past_due"}
      /\ row.end = owed.end /\ row.end # NoEnd
  BY DEF Kept, Paid
<1>3. now <= row.end + (IF row.unifi /\ row.status = "past_due" THEN UnifiGrace ELSE 0)
  BY <1>1, <1>2
<1>4. Entitled(row, now)
  BY <1>2, <1>3 DEF Entitled
<1> QED
  BY <1>2, <1>4 DEF PlanNow, EffectivePlan, Canonical, Paid

LEMMA KeptStep ==
  ASSUME Typed, Kept, NEW p \in Procs, Step(p)
  PROVE  Kept'
<1>0. /\ Entry(p) # "activate" /\ Behind(p) # "activate" /\ ParallelPassed(p) # "activate"
      /\ on[p].ok # "activate" /\ on[p].err # "activate" /\ pc \in [Procs -> Locations]
  BY EntryOf DEF Behind, ParallelPassed, Typed, Roles, Places
<1> USE <1>0, KeptFrame DEF Goto
<1>1. CASE LookupFails(p)
  BY <1>1 DEF LookupFails, billing
<1>2. CASE EnsureConsoleEntitled(p)
  BY <1>2 DEF EnsureConsoleEntitled, billing
<1>3. CASE RequirePlanEntitled(p)
  BY <1>3 DEF RequirePlanEntitled, billing
<1>4. CASE EnsureFreeRead(p)
  <2>1. UNCHANGED <<now, row, owed, overtaken>>
    BY <1>4 DEF EnsureFreeRead, billing
  <2>2. CASE owed # Nothing /\ ~overtaken /\ now <= owed.end
    <3>1. PlanNow \in Paid
      BY <2>2, KeptIsPaid
    <3>2. pc' = [pc EXCEPT ![p] = on[p].ok]
      BY <1>4, <3>1 DEF EnsureFreeRead
    <3> QED
      BY <2>1, <3>2
  <2>3. CASE ~(owed # Nothing /\ ~overtaken /\ now <= owed.end)
    BY <2>1, <2>3 DEF Kept
  <2> QED
    BY <2>2, <2>3
<1>5. CASE EnsureFreeWrite(p)
  <2>1. pc[p] = "activate" /\ UNCHANGED <<now, owed, overtaken>>
    BY <1>5 DEF EnsureFreeWrite
  <2>2. ~(owed # Nothing /\ ~overtaken /\ now <= owed.end)
    BY <2>1 DEF Kept
  <2> QED
    BY <2>1, <2>2 DEF Kept
<1>6. CASE RequirePlanCapacity(p)
  BY <1>6 DEF RequirePlanCapacity, billing
<1>7. CASE Count(p)
  BY <1>7 DEF Count, CountWithin, billing
<1>8. CASE RequireProParallel(p)
  BY <1>8 DEF RequireProParallel, billing
<1>9. CASE Create(p)
  BY <1>9 DEF Create, billing
<1>10. CASE CreateFails(p)
  BY <1>10 DEF CreateFails, billing
<1>11. CASE PlanRPMLimit(p)
  BY <1>11 DEF PlanRPMLimit, billing
<1>12. CASE Allow(p)
  BY <1>12 DEF Allow, AllowFrom, billing
<1>13. CASE PlanSoftCap(p)
  BY <1>13 DEF PlanSoftCap, billing
<1>14. CASE OverSoftTokenCap(p)
  BY <1>14 DEF OverSoftTokenCap, WithinCap, billing
<1>15. CASE InsertUsage(p)
  BY <1>15 DEF InsertUsage, billing
<1> QED
  BY <1>1, <1>2, <1>3, <1>4, <1>5, <1>6, <1>7, <1>8, <1>9, <1>10, <1>11,
     <1>12, <1>13, <1>14, <1>15 DEF Step

LEMMA KeptNext == Typed /\ Kept /\ [Next]_vars => Kept'
<1> SUFFICES ASSUME Typed, Kept, [Next]_vars PROVE Kept'
  OBVIOUS
<1>1. CASE ApplyPaidPeriod
  <2>1. PICK plan \in Paid, end \in now..MaxTime, unifi \in BOOLEAN :
          /\ row' = [plan |-> plan, status |-> "active", end |-> end, unifi |-> unifi]
          /\ owed' = [plan |-> plan, end |-> end]
    BY <1>1 DEF ApplyPaidPeriod
  <2>2. end # NoEnd
    BY PlansAssumption DEF Typed, Numbers, NoEnd
  <2>3. ~overtaken' => \A p \in Procs : pc'[p] # "activate"
    BY <1>1 DEF ApplyPaidPeriod
  <2> QED
    BY <2>1, <2>2, <2>3 DEF Kept
<1>2. CASE SetBillingPastDue
  BY <1>2 DEF SetBillingPastDue, Kept, Typed, Bill
<1>3. CASE SetBillingExpired
  BY <1>3 DEF SetBillingExpired, Kept
<1>4. CASE Tick
  BY <1>4 DEF Tick, Kept, Typed, Numbers, Bill, billing
<1>5. CASE NewMonth
  BY <1>5, KeptFrame DEF NewMonth, billing
<1>6. CASE Delete
  BY <1>6, KeptFrame DEF Delete, billing
<1>7. CASE MintKey
  BY <1>7, KeptFrame DEF MintKey, billing
<1>8. CASE UNCHANGED vars
  BY <1>8 DEF vars, Kept
<1> QED
  BY <1>1, <1>2, <1>3, <1>4, <1>5, <1>6, <1>7, <1>8, KeptStep DEF Next

\* A plan paid for and not ended stays the plan, unless it was paid while an
\* activation of the free plan stood between its read and its write.
THEOREM PaidLostOnlyByRaceAlways == Spec => []PaidLostOnlyByRace
<1>1. Init => Kept
  BY DEF Init, Kept
<1>2. Kept => PaidLostOnlyByRace
  BY DEF Kept, PaidLostOnlyByRace
<1> QED
  BY <1>1, <1>2, KeptNext, TypedAlways, PTL DEF Spec

(***************************************************************************)
(* Whoever has counted and not yet created counts against the limit.       *)
(***************************************************************************)
Passed ==
  {p \in Creators : \/ pc[p] \in {"insert", "parallel", "insertParallel"}
                    \/ /\ pc[p] \in {"entitled", "ensure", "activate"}
                       /\ on[p].ok = "insertParallel"}

Room ==
  widest > 0 => objects + Cardinality(Passed) <= widest - 1 + Cardinality(Creators)

LEMMA CreatorsFinite == IsFiniteSet(Creators) /\ Cardinality(Creators) \in Nat
<1>1. Creators \in SUBSET Procs
  BY DEF Creators, Procs
<1>2. IsFiniteSet(Creators)
  BY <1>1, PlansAssumption, FS_Subset
<1> QED
  BY <1>2, FS_CardinalityType

LEMMA PassedFinite ==
  ASSUME NEW S \in SUBSET Creators
  PROVE  /\ IsFiniteSet(S) /\ Cardinality(S) \in Nat
         /\ Cardinality(S) <= Cardinality(Creators)
         /\ \A T \in SUBSET S : Cardinality(T) <= Cardinality(S)
<1>1. IsFiniteSet(S) /\ Cardinality(S) <= Cardinality(Creators)
  BY CreatorsFinite, FS_Subset
<1> QED
  BY <1>1, FS_CardinalityType, FS_Subset

LEMMA RoomFrame ==
  ASSUME Room, Numbers, objects' \in Nat, objects' <= objects, widest' = widest,
         Passed' \subseteq Passed
  PROVE  Room'
<1>1. Passed \in SUBSET Creators /\ Passed' \in SUBSET Passed /\ Passed' \in SUBSET Creators
  BY DEF Passed
<1>2. /\ Cardinality(Passed) \in Nat /\ Cardinality(Passed') \in Nat
      /\ Cardinality(Passed') <= Cardinality(Passed)
  BY <1>1, PassedFinite
<1> QED
  BY <1>2, CreatorsFinite DEF Room, Numbers

LEMMA RoomStep ==
  ASSUME Typed, Room, NEW p \in Procs, Step(p)
  PROVE  Room'
<1>0. /\ pc \in [Procs -> Locations] /\ on \in [Procs -> [ok : Locations, err : Locations]]
      /\ Numbers /\ objects \in Nat /\ Creators \subseteq Procs
      /\ Entry(p) \in {"console", "parallel", "capacity", "ensure", "entitled"}
      /\ p \in Creators => Entry(p) \in {"console", "capacity"}
      /\ p \in Creators => Behind(p) = "capacity"
      /\ on[p].ok \in {"ensure", "capacity", "rpm", "parallel", "update", "insertParallel"}
      /\ on[p].err \in {"console", "parallel", "capacity", "ensure", "entitled"}
      /\ p \in Creators => on[p].ok # "parallel" /\ on[p].err # "parallel"
      /\ p \notin Creators => on[p].ok # "insertParallel"
      /\ pc[p] = "count" => p \in Creators
  BY EntryOf, PlansAssumption
  DEF Typed, Places, Numbers, Roles, Procs, Creators, Behind, Entry
<1> DEFINE Frame == objects' = objects /\ widest' = widest /\ Passed' \subseteq Passed
<1>00. Frame => Room'
  BY <1>0, RoomFrame
<1> USE <1>0 DEF Goto
<1>1. CASE LookupFails(p)
  <2>1. objects' = objects /\ widest' = widest
    BY <1>1 DEF LookupFails, control
  <2>2. Passed' \subseteq Passed
    BY <1>1 DEF LookupFails, Passed
  <2> QED
    BY <2>1, <2>2, <1>00
<1>2. CASE EnsureConsoleEntitled(p)
  <2>1. objects' = objects /\ widest' = widest
    BY <1>2 DEF EnsureConsoleEntitled, control
  <2>2. Passed' \subseteq Passed
    BY <1>2 DEF EnsureConsoleEntitled, Passed
  <2> QED
    BY <2>1, <2>2, <1>00
<1>3. CASE RequirePlanEntitled(p)
  <2>1. objects' = objects /\ widest' = widest
    BY <1>3 DEF RequirePlanEntitled, control
  <2>2. Passed' \subseteq Passed
    BY <1>3 DEF RequirePlanEntitled, Passed
  <2> QED
    BY <2>1, <2>2, <1>00
<1>4. CASE EnsureFreeRead(p)
  <2>1. objects' = objects /\ widest' = widest
    BY <1>4 DEF EnsureFreeRead, control
  <2>2. Passed' \subseteq Passed
    BY <1>4 DEF EnsureFreeRead, Passed
  <2> QED
    BY <2>1, <2>2, <1>00
<1>5. CASE EnsureFreeWrite(p)
  <2>1. objects' = objects /\ widest' = widest
    BY <1>5 DEF EnsureFreeWrite, control
  <2>2. Passed' \subseteq Passed
    BY <1>5 DEF EnsureFreeWrite, Passed
  <2> QED
    BY <2>1, <2>2, <1>00
<1>6. CASE RequirePlanCapacity(p)
  <2>1. objects' = objects /\ widest' = widest
    BY <1>6 DEF RequirePlanCapacity, control
  <2>2. Passed' \subseteq Passed
    BY <1>6 DEF RequirePlanCapacity, Passed
  <2> QED
    BY <2>1, <2>2, <1>00
<1>7. CASE Count(p)
  <2>1. objects' = objects /\ p \in Creators /\ lim[p] \in Nat
    BY <1>7 DEF Count, CountWithin, Typed, Places
  <2>2. CASE widest' = widest /\ Passed' \subseteq Passed
    BY <2>1, <2>2, <1>00
  <2>3. CASE ~(widest' = widest /\ Passed' \subseteq Passed)
    <3>1. ~(lim[p] > 0 /\ Held >= lim[p])
      BY <1>7, <2>1, <2>3 DEF Count, CountWithin, Passed
    <3>2. widest' > 0 => objects < widest'
      BY <1>7, <2>1, <3>1 DEF Count, CountWithin, Numbers, Held
    <3>3. Passed' \in SUBSET Creators
      BY DEF Passed
    <3>4. Cardinality(Passed') \in Nat /\ Cardinality(Passed') <= Cardinality(Creators)
      BY <3>3, PassedFinite
    <3>5. widest' \in Nat
      BY <1>7, <2>1 DEF Count, CountWithin, Numbers
    <3> QED
      BY <2>1, <3>2, <3>4, <3>5, CreatorsFinite DEF Room
  <2> QED
    BY <2>2, <2>3
<1>8. CASE RequireProParallel(p)
  <2>1. objects' = objects /\ widest' = widest
    BY <1>8 DEF RequireProParallel, control
  <2>2. Passed' \subseteq Passed
    BY <1>8 DEF RequireProParallel, Passed, ParallelPassed
  <2> QED
    BY <2>1, <2>2, <1>00
<1>9. CASE Create(p)
  <2>1. widest' = widest /\ Passed' \subseteq Passed
    BY <1>9 DEF Create, Passed
  <2>2. CASE objects' = objects
    BY <2>1, <2>2, <1>00
  <2>3. CASE objects' # objects
    <3>1. objects' = objects + 1 /\ pc[p] \in {"insert", "insertParallel"}
      BY <1>9, <2>3 DEF Create
    <3>2. p \in Passed /\ Passed' \subseteq Passed \ {p}
      BY <1>9, <3>1 DEF Create, Passed, Typed, Roles
    <3>3. /\ IsFiniteSet(Passed) /\ Cardinality(Passed) \in Nat
          /\ Passed \in SUBSET Creators /\ Passed' \in SUBSET Creators
      BY PassedFinite DEF Passed
    <3>4. /\ Cardinality(Passed') <= Cardinality(Passed \ {p})
          /\ Cardinality(Passed \ {p}) = Cardinality(Passed) - 1
          /\ Cardinality(Passed') \in Nat
      BY <3>2, <3>3, PassedFinite, FS_RemoveElement
    <3> QED
      BY <2>1, <3>1, <3>3, <3>4, CreatorsFinite DEF Room, Numbers
  <2> QED
    BY <2>2, <2>3
<1>10. CASE CreateFails(p)
  <2>1. objects' = objects /\ widest' = widest
    BY <1>10 DEF CreateFails, control
  <2>2. Passed' \subseteq Passed
    BY <1>10 DEF CreateFails, Passed
  <2> QED
    BY <2>1, <2>2, <1>00
<1>11. CASE PlanRPMLimit(p)
  <2>1. objects' = objects /\ widest' = widest
    BY <1>11 DEF PlanRPMLimit, control
  <2>2. Passed' \subseteq Passed
    BY <1>11 DEF PlanRPMLimit, Passed
  <2> QED
    BY <2>1, <2>2, <1>00
<1>12. CASE Allow(p)
  <2>1. objects' = objects /\ widest' = widest
    BY <1>12 DEF Allow, AllowFrom, control
  <2>2. Passed' \subseteq Passed
    BY <1>12 DEF Allow, AllowFrom, Passed
  <2> QED
    BY <2>1, <2>2, <1>00
<1>13. CASE PlanSoftCap(p)
  <2>1. objects' = objects /\ widest' = widest
    BY <1>13 DEF PlanSoftCap, control
  <2>2. Passed' \subseteq Passed
    BY <1>13 DEF PlanSoftCap, Passed
  <2> QED
    BY <2>1, <2>2, <1>00
<1>14. CASE OverSoftTokenCap(p)
  <2>1. objects' = objects /\ widest' = widest
    BY <1>14 DEF OverSoftTokenCap, WithinCap, control
  <2>2. Passed' \subseteq Passed
    BY <1>14 DEF OverSoftTokenCap, WithinCap, Passed
  <2> QED
    BY <2>1, <2>2, <1>00
<1>15. CASE InsertUsage(p)
  <2>1. objects' = objects /\ widest' = widest
    BY <1>15 DEF InsertUsage, control
  <2>2. Passed' \subseteq Passed
    BY <1>15 DEF InsertUsage, Passed
  <2> QED
    BY <2>1, <2>2, <1>00
<1> QED
  BY <1>1, <1>2, <1>3, <1>4, <1>5, <1>6, <1>7, <1>8, <1>9, <1>10, <1>11,
     <1>12, <1>13, <1>14, <1>15 DEF Step

LEMMA RoomNext == Typed /\ Room /\ [Next]_vars => Room'
<1> SUFFICES ASSUME Typed, Room, [Next]_vars PROVE Room'
  OBVIOUS
<1>0. Numbers /\ objects \in Nat
  BY DEF Typed, Numbers
<1> USE <1>0, RoomFrame DEF Passed, control
<1>1. CASE ApplyPaidPeriod
  BY <1>1 DEF ApplyPaidPeriod
<1>2. CASE SetBillingPastDue
  BY <1>2 DEF SetBillingPastDue
<1>3. CASE SetBillingExpired
  BY <1>3 DEF SetBillingExpired
<1>4. CASE Tick
  BY <1>4 DEF Tick
<1>5. CASE NewMonth
  BY <1>5 DEF NewMonth
<1>6. CASE Delete
  BY <1>6 DEF Delete, Numbers
<1>7. CASE MintKey
  BY <1>7 DEF MintKey
<1>8. CASE UNCHANGED vars
  BY <1>8 DEF vars
<1> QED
  BY <1>1, <1>2, <1>3, <1>4, <1>5, <1>6, <1>7, <1>8, RoomStep DEF Next

\* Concurrent creations pass a plan's limit by less than their number and the
\* keys that sign-ins minted without asking for the plan.
THEOREM OvershootBoundedAlways == Spec => []OvershootBounded
<1>1. Init => Room
  <2> SUFFICES ASSUME Init PROVE Room
    OBVIOUS
  <2>1. Passed \in SUBSET Creators
    BY DEF Passed
  <2>2. Cardinality(Passed) \in Nat /\ Cardinality(Passed) <= Cardinality(Creators)
    BY <2>1, PassedFinite
  <2>3. objects = 0 /\ widest \in Nat \ {0}
    BY PlansAssumption DEF Init
  <2> QED
    BY <2>2, <2>3, CreatorsFinite DEF Room
<1>2. Typed /\ Room => OvershootBounded
  <2>1. Passed \in SUBSET Creators
    BY DEF Passed
  <2> QED
    BY <2>1, PassedFinite, CreatorsFinite DEF Typed, Numbers, Room, Held, OvershootBounded
<1> QED
  BY <1>1, <1>2, RoomNext, TypedAlways, PTL DEF Spec

(***************************************************************************)
(* Whoever passed the comparison with the cap has MaxTokens to its credit. *)
(***************************************************************************)
Recording == {p \in Upstreams : pc[p] = "record"}

Credit ==
  /\ \A p \in Procs : pc[p] = "usage" => lim[p] \in {0, FreeTokens}
  /\ ~uncapped =>
       used + MaxTokens * Cardinality(Recording)
         <= FreeTokens - 1 + MaxTokens * Cardinality(Upstreams)

LEMMA UpstreamsFinite ==
  /\ IsFiniteSet(Upstreams) /\ Cardinality(Upstreams) \in Nat
  /\ \A S \in SUBSET Upstreams :
       IsFiniteSet(S) /\ Cardinality(S) \in Nat /\ Cardinality(S) <= Cardinality(Upstreams)
<1>1. Upstreams \in SUBSET Procs
  BY DEF Procs
<1>2. IsFiniteSet(Upstreams)
  BY <1>1, PlansAssumption, FS_Subset
<1> QED
  BY <1>2, FS_CardinalityType, FS_Subset

LEMMA Product ==
  ASSUME NEW m \in Nat, NEW a \in Nat, NEW b \in Nat, a <= b
  PROVE  m * a \in Nat /\ m * b \in Nat /\ m * a <= m * b
<1>1. b = a + (b - a) /\ b - a \in Nat
  OBVIOUS
<1>2. m * b = m * a + m * (b - a)
  BY <1>1
<1>3. m * a \in Nat /\ m * (b - a) \in Nat
  BY <1>1
<1> QED
  BY <1>2, <1>3

LEMMA CreditFrame ==
  ASSUME Credit, Numbers, used' \in Nat, used' <= used, uncapped' = uncapped,
         Recording' = Recording,
         \A p \in Procs : pc'[p] = "usage" => lim'[p] \in {0, FreeTokens}
  PROVE  Credit'
<1>1. MaxTokens * Cardinality(Recording) \in Nat /\ MaxTokens * Cardinality(Upstreams) \in Nat
  <2>1. Recording \in SUBSET Upstreams
    BY DEF Recording
  <2>2. MaxTokens \in Nat
    BY PlansAssumption
  <2> QED
    BY <2>1, <2>2, UpstreamsFinite, Product
<1>2. FreeTokens \in Nat /\ used \in Nat
  BY PlansAssumption DEF Numbers
<1> QED
  BY <1>1, <1>2 DEF Credit

LEMMA CreditStep ==
  ASSUME Typed, Credit, NEW p \in Procs, Step(p)
  PROVE  Credit'
<1>0. /\ pc \in [Procs -> Locations] /\ lim \in [Procs -> Nat] /\ Numbers
      /\ used \in Nat /\ Upstreams \subseteq Procs
      /\ Entry(p) \in {"console", "parallel", "capacity", "ensure", "entitled"}
      /\ Behind(p) \in {"rpm", "parallel", "capacity"}
      /\ ParallelPassed(p) \in {"update", "insertParallel"}
      /\ on[p].ok \in {"ensure", "capacity", "rpm", "parallel", "update", "insertParallel"}
      /\ on[p].err \in {"console", "parallel", "capacity", "ensure", "entitled"}
      /\ MaxTokens \in Nat /\ FreeTokens \in Nat \ {0}
      /\ \A q \in Procs : pc[q] = "usage" => lim[q] \in {0, FreeTokens}
  BY EntryOf, PlansAssumption
  DEF Typed, Places, Numbers, Roles, Procs, Behind, ParallelPassed, Credit
<1> DEFINE Frame == /\ used' = used /\ uncapped' = uncapped /\ Recording' = Recording
                    /\ \A q \in Procs : pc'[q] = "usage" => lim'[q] \in {0, FreeTokens}
<1>00. Frame => Credit'
  BY <1>0, CreditFrame
<1> USE <1>0 DEF Goto
<1>1. CASE LookupFails(p)
  <2>1. used' = used /\ uncapped' = uncapped
    BY <1>1 DEF LookupFails, traffic
  <2>2. Recording' = Recording
    BY <1>1 DEF LookupFails, Recording
  <2>3. \A q \in Procs : pc'[q] = "usage" => lim'[q] \in {0, FreeTokens}
    BY <1>1 DEF LookupFails
  <2> QED
    BY <2>1, <2>2, <2>3, <1>00
<1>2. CASE EnsureConsoleEntitled(p)
  <2>1. used' = used /\ uncapped' = uncapped
    BY <1>2 DEF EnsureConsoleEntitled, traffic
  <2>2. Recording' = Recording
    BY <1>2 DEF EnsureConsoleEntitled, Recording
  <2>3. \A q \in Procs : pc'[q] = "usage" => lim'[q] \in {0, FreeTokens}
    BY <1>2 DEF EnsureConsoleEntitled
  <2> QED
    BY <2>1, <2>2, <2>3, <1>00
<1>3. CASE RequirePlanEntitled(p)
  <2>1. used' = used /\ uncapped' = uncapped
    BY <1>3 DEF RequirePlanEntitled, traffic
  <2>2. Recording' = Recording
    BY <1>3 DEF RequirePlanEntitled, Recording
  <2>3. \A q \in Procs : pc'[q] = "usage" => lim'[q] \in {0, FreeTokens}
    BY <1>3 DEF RequirePlanEntitled
  <2> QED
    BY <2>1, <2>2, <2>3, <1>00
<1>4. CASE EnsureFreeRead(p)
  <2>1. used' = used /\ uncapped' = uncapped
    BY <1>4 DEF EnsureFreeRead, traffic
  <2>2. Recording' = Recording
    BY <1>4 DEF EnsureFreeRead, Recording
  <2>3. \A q \in Procs : pc'[q] = "usage" => lim'[q] \in {0, FreeTokens}
    BY <1>4 DEF EnsureFreeRead
  <2> QED
    BY <2>1, <2>2, <2>3, <1>00
<1>5. CASE EnsureFreeWrite(p)
  <2>1. used' = used /\ uncapped' = uncapped
    BY <1>5 DEF EnsureFreeWrite, traffic
  <2>2. Recording' = Recording
    BY <1>5 DEF EnsureFreeWrite, Recording
  <2>3. \A q \in Procs : pc'[q] = "usage" => lim'[q] \in {0, FreeTokens}
    BY <1>5 DEF EnsureFreeWrite
  <2> QED
    BY <2>1, <2>2, <2>3, <1>00
<1>6. CASE RequirePlanCapacity(p)
  <2>1. used' = used /\ uncapped' = uncapped
    BY <1>6 DEF RequirePlanCapacity, traffic
  <2>2. Recording' = Recording
    BY <1>6 DEF RequirePlanCapacity, Recording
  <2>3. \A q \in Procs : pc'[q] = "usage" => lim'[q] \in {0, FreeTokens}
    BY <1>6 DEF RequirePlanCapacity
  <2> QED
    BY <2>1, <2>2, <2>3, <1>00
<1>7. CASE Count(p)
  <2>1. used' = used /\ uncapped' = uncapped
    BY <1>7 DEF Count, CountWithin, traffic
  <2>2. Recording' = Recording
    BY <1>7 DEF Count, CountWithin, Recording
  <2>3. \A q \in Procs : pc'[q] = "usage" => lim'[q] \in {0, FreeTokens}
    BY <1>7 DEF Count, CountWithin
  <2> QED
    BY <2>1, <2>2, <2>3, <1>00
<1>8. CASE RequireProParallel(p)
  <2>1. used' = used /\ uncapped' = uncapped
    BY <1>8 DEF RequireProParallel, traffic
  <2>2. Recording' = Recording
    BY <1>8 DEF RequireProParallel, Recording
  <2>3. \A q \in Procs : pc'[q] = "usage" => lim'[q] \in {0, FreeTokens}
    BY <1>8 DEF RequireProParallel
  <2> QED
    BY <2>1, <2>2, <2>3, <1>00
<1>9. CASE Create(p)
  <2>1. used' = used /\ uncapped' = uncapped
    BY <1>9 DEF Create, traffic
  <2>2. Recording' = Recording
    BY <1>9 DEF Create, Recording
  <2>3. \A q \in Procs : pc'[q] = "usage" => lim'[q] \in {0, FreeTokens}
    BY <1>9 DEF Create
  <2> QED
    BY <2>1, <2>2, <2>3, <1>00
<1>10. CASE CreateFails(p)
  <2>1. used' = used /\ uncapped' = uncapped
    BY <1>10 DEF CreateFails, traffic
  <2>2. Recording' = Recording
    BY <1>10 DEF CreateFails, Recording
  <2>3. \A q \in Procs : pc'[q] = "usage" => lim'[q] \in {0, FreeTokens}
    BY <1>10 DEF CreateFails
  <2> QED
    BY <2>1, <2>2, <2>3, <1>00
<1>11. CASE PlanRPMLimit(p)
  <2>1. used' = used /\ uncapped' = uncapped
    BY <1>11 DEF PlanRPMLimit, traffic
  <2>2. Recording' = Recording
    BY <1>11 DEF PlanRPMLimit, Recording
  <2>3. \A q \in Procs : pc'[q] = "usage" => lim'[q] \in {0, FreeTokens}
    BY <1>11 DEF PlanRPMLimit
  <2> QED
    BY <2>1, <2>2, <2>3, <1>00
<1>12. CASE Allow(p)
  <2>1. used' = used /\ uncapped' = uncapped
    BY <1>12 DEF Allow, AllowFrom, traffic
  <2>2. Recording' = Recording
    BY <1>12 DEF Allow, AllowFrom, Recording
  <2>3. \A q \in Procs : pc'[q] = "usage" => lim'[q] \in {0, FreeTokens}
    BY <1>12 DEF Allow, AllowFrom
  <2> QED
    BY <2>1, <2>2, <2>3, <1>00
<1>13. CASE PlanSoftCap(p)
  <2>1. used' = used /\ uncapped' = uncapped
    BY <1>13 DEF PlanSoftCap, traffic
  <2>2. Recording' = Recording
    BY <1>13 DEF PlanSoftCap, Recording
  <2>3. \A q \in Procs : pc'[q] = "usage" => lim'[q] \in {0, FreeTokens}
    BY <1>13, LimitsType DEF PlanSoftCap
  <2> QED
    BY <2>1, <2>2, <2>3, <1>00
<1>14. CASE OverSoftTokenCap(p)
  <2>1. used' = used /\ pc[p] = "usage" /\ p \in Upstreams /\ lim[p] \in {0, FreeTokens}
    BY <1>14 DEF OverSoftTokenCap, WithinCap, Typed, Roles
  <2>2. \A q \in Procs : pc'[q] = "usage" => lim'[q] \in {0, FreeTokens}
    BY <1>14 DEF OverSoftTokenCap, WithinCap
  <2>3. CASE pc' = [pc EXCEPT ![p] = Entry(p)]
    <3>1. Recording' = Recording
      BY <2>1, <2>3 DEF Recording
    <3>2. uncapped' = uncapped
      BY <1>14, <2>3 DEF OverSoftTokenCap, WithinCap
    <3> QED
      BY <2>1, <2>2, <3>1, <3>2, <1>00
  <2>4. CASE pc' = [pc EXCEPT ![p] = "record"]
    <3> DEFINE over == lim[p] > 0 /\ used >= lim[p]
    <3>1. pc'[p] # Entry(p)
      BY <2>4
    <3>2. \/ ~over /\ uncapped' = (uncapped \/ lim[p] = 0)
          \/ uncapped' = TRUE
      BY <1>14, <3>1 DEF OverSoftTokenCap, WithinCap
    <3>3. ~uncapped' => ~over /\ ~uncapped /\ lim[p] # 0
      BY <3>2, Zenon
    <3>4. ~uncapped' => lim[p] # 0 /\ used < FreeTokens
      BY <2>1, <3>3
    <3>5. Recording' \in SUBSET Upstreams
      BY DEF Recording
    <3>6. /\ MaxTokens * Cardinality(Recording') \in Nat
          /\ MaxTokens * Cardinality(Upstreams) \in Nat
          /\ MaxTokens * Cardinality(Recording') <= MaxTokens * Cardinality(Upstreams)
      BY <3>5, UpstreamsFinite, Product
    <3> QED
      BY <2>1, <2>2, <3>4, <3>6 DEF Credit
  <2> QED
    BY <1>14, <2>3, <2>4 DEF OverSoftTokenCap, WithinCap
<1>15. CASE InsertUsage(p)
  <2>1. pc[p] = "record" /\ p \in Upstreams /\ pc' = [pc EXCEPT ![p] = Entry(p)]
    BY <1>15 DEF InsertUsage, Typed, Roles
  <2>2. PICK n \in 0..MaxTokens : used' = used + n
    BY <1>15 DEF InsertUsage
  <2>3. uncapped' = uncapped /\ lim' = lim
    BY <1>15 DEF InsertUsage
  <2>4. p \in Recording /\ Recording' = Recording \ {p} /\ Recording \in SUBSET Upstreams
    BY <2>1 DEF Recording
  <2>5. Cardinality(Recording) \in Nat /\ Cardinality(Recording') \in Nat
        /\ Cardinality(Recording) = Cardinality(Recording') + 1
    BY <2>4, UpstreamsFinite, FS_RemoveElement
  <2>6. MaxTokens * Cardinality(Recording) = MaxTokens * Cardinality(Recording') + MaxTokens
    BY <2>5
  <2>7. MaxTokens * Cardinality(Recording') \in Nat /\ MaxTokens * Cardinality(Upstreams) \in Nat
    BY <2>5, UpstreamsFinite, Product
  <2>8. \A q \in Procs : pc'[q] = "usage" => lim'[q] \in {0, FreeTokens}
    BY <2>1, <2>3
  <2> QED
    BY <2>2, <2>3, <2>6, <2>7, <2>8 DEF Credit
<1> QED
  BY <1>1, <1>2, <1>3, <1>4, <1>5, <1>6, <1>7, <1>8, <1>9, <1>10, <1>11,
     <1>12, <1>13, <1>14, <1>15 DEF Step

LEMMA CreditNext == Typed /\ Credit /\ [Next]_vars => Credit'
<1> SUFFICES ASSUME Typed, Credit, [Next]_vars PROVE Credit'
  OBVIOUS
<1>0. Numbers /\ used \in Nat /\ \A p \in Procs : pc[p] = "usage" => lim[p] \in {0, FreeTokens}
  BY DEF Typed, Numbers, Credit
<1> USE <1>0, CreditFrame DEF Recording, traffic
<1>1. CASE ApplyPaidPeriod
  BY <1>1 DEF ApplyPaidPeriod
<1>2. CASE SetBillingPastDue
  BY <1>2 DEF SetBillingPastDue
<1>3. CASE SetBillingExpired
  BY <1>3 DEF SetBillingExpired
<1>4. CASE Tick
  BY <1>4 DEF Tick
<1>5. CASE NewMonth
  <2>1. used' = 0 /\ Recording' = Recording /\ UNCHANGED <<pc, lim>>
    BY <1>5 DEF NewMonth
  <2>2. Recording \in SUBSET Upstreams
    OBVIOUS
  <2>3. MaxTokens \in Nat /\ FreeTokens \in Nat \ {0}
    BY PlansAssumption
  <2>4. /\ MaxTokens * Cardinality(Recording) \in Nat
        /\ MaxTokens * Cardinality(Upstreams) \in Nat
        /\ MaxTokens * Cardinality(Recording) <= MaxTokens * Cardinality(Upstreams)
    BY <2>2, <2>3, UpstreamsFinite, Product
  <2>5. used' + MaxTokens * Cardinality(Recording')
          <= FreeTokens - 1 + MaxTokens * Cardinality(Upstreams)
    BY <2>1, <2>3, <2>4
  <2> QED
    BY <2>1, <2>5 DEF Credit
<1>6. CASE Delete
  BY <1>6 DEF Delete
<1>7. CASE MintKey
  BY <1>7 DEF MintKey
<1>8. CASE UNCHANGED vars
  BY <1>8 DEF vars
<1> QED
  BY <1>1, <1>2, <1>3, <1>4, <1>5, <1>6, <1>7, <1>8, CreditStep DEF Next

\* A month's tokens pass the cap by less than what the calls under way at
\* once may use, unless one of them was compared with no cap.
THEOREM CapOvershootBoundedAlways == Spec => []CapOvershootBounded
<1>0. MaxTokens \in Nat /\ FreeTokens \in Nat \ {0} /\ Recording \in SUBSET Upstreams
  BY PlansAssumption DEF Recording
<1>1. /\ MaxTokens * Cardinality(Recording) \in Nat
      /\ MaxTokens * Cardinality(Upstreams) \in Nat
      /\ MaxTokens * Cardinality(Recording) <= MaxTokens * Cardinality(Upstreams)
  BY <1>0, UpstreamsFinite, Product
<1>2. Init => Credit
  <2> SUFFICES ASSUME Init PROVE Credit
    OBVIOUS
  <2>1. used = 0 /\ \A p \in Procs : lim[p] = 0
    BY DEF Init
  <2> QED
    BY <1>0, <1>1, <2>1 DEF Credit
<1>3. Typed /\ Credit => CapOvershootBounded
  BY <1>0, <1>1 DEF Typed, Numbers, Credit, CapOvershootBounded
<1> QED
  BY <1>2, <1>3, CreditNext, TypedAlways, PTL DEF Spec

(***************************************************************************)
(* The limiter's windows.  A window is known by the time its first call    *)
(* opened it: windows do not overlap, each holds its opening call and at   *)
(* most the limit.  A span as long as a window meets two of them at most,  *)
(* and misses the opening call of the earlier one.                         *)
(***************************************************************************)
Opened(s) == {call \in granted : call.opened = s}

Windows ==
  /\ \A g \in granted :
       /\ g.no < Cardinality(granted) /\ g.at <= now
       /\ g.opened <= g.at /\ g.at < g.opened + Window
       /\ g.opened <= bucket.start
       /\ \E h \in granted : h.opened = g.opened /\ h.at = h.opened
  /\ \A g, h \in granted : g.opened < h.opened => g.opened + Window <= h.opened
  /\ \A s \in 0..MaxTime : Cardinality(Opened(s)) <= HighestRPM
  /\ bucket.count = Cardinality(Opened(bucket.start))
  /\ bucket.count = 0 => granted = {}
  /\ bucket.start <= now

LimitKnown == \A p \in Procs : pc[p] = "allow" => lim[p] <= HighestRPM

LEMMA HighestType ==
  HighestRPM \in Nat \ {0} /\ FreeRPM <= HighestRPM /\ DefaultRPM <= HighestRPM
  BY PlansAssumption DEF HighestRPM

LEMMA OpenedFinite ==
  ASSUME Numbers
  PROVE  /\ Cardinality(granted) \in Nat
         /\ \A S \in SUBSET granted :
              /\ IsFiniteSet(S) /\ Cardinality(S) \in Nat
              /\ \A T \in SUBSET S : Cardinality(T) <= Cardinality(S)
<1>1. IsFiniteSet(granted)
  BY DEF Numbers
<1>2. \A S \in SUBSET granted : IsFiniteSet(S)
  BY <1>1, FS_Subset
<1> QED
  BY <1>1, <1>2, FS_Subset, FS_CardinalityType

LEMMA WindowsFrame ==
  ASSUME Numbers, Windows, UNCHANGED <<bucket, granted>>, now' \in Nat, now <= now'
  PROVE  Windows'
<1>1. \A s : Opened(s)' = Opened(s)
  BY DEF Opened
<1> QED
  BY <1>1 DEF Windows, Numbers

\* Every other step leaves the limiter alone, and only PlanRPMLimit sets the
\* limit a call comes to it with.
LEMMA LimiterAlone ==
  ASSUME Typed, LimitKnown, [Next]_vars
  PROVE  /\ LimitKnown'
         /\ \/ UNCHANGED <<bucket, granted>> /\ now' \in Nat /\ now <= now'
            \/ \E p \in Procs : Allow(p)
<1> DEFINE Alone == UNCHANGED <<bucket, granted>> /\ now' \in Nat /\ now <= now'
<1>0. /\ pc \in [Procs -> Locations] /\ lim \in [Procs -> Nat] /\ now \in Nat
      /\ \A p \in Procs : pc[p] = "allow" => lim[p] <= HighestRPM
  BY DEF Typed, Places, Numbers, LimitKnown
<1>1. ASSUME NEW p \in Procs, Step(p), ~Allow(p) PROVE Alone /\ LimitKnown'
  <2>0. /\ Entry(p) # "allow" /\ Behind(p) # "allow" /\ ParallelPassed(p) # "allow"
        /\ on[p].ok # "allow" /\ on[p].err # "allow"
    BY EntryOf DEF Behind, ParallelPassed, Typed, Roles
  <2> USE <1>0, <2>0 DEF Goto, LimitKnown
  <2>1. CASE LookupFails(p)
    BY <2>1 DEF LookupFails, traffic
  <2>2. CASE EnsureConsoleEntitled(p)
    BY <2>2 DEF EnsureConsoleEntitled, traffic
  <2>3. CASE RequirePlanEntitled(p)
    BY <2>3 DEF RequirePlanEntitled, traffic
  <2>4. CASE EnsureFreeRead(p)
    BY <2>4 DEF EnsureFreeRead, traffic
  <2>5. CASE EnsureFreeWrite(p)
    BY <2>5 DEF EnsureFreeWrite, traffic
  <2>6. CASE RequirePlanCapacity(p)
    BY <2>6 DEF RequirePlanCapacity, traffic
  <2>7. CASE Count(p)
    BY <2>7 DEF Count, CountWithin, traffic
  <2>8. CASE RequireProParallel(p)
    BY <2>8 DEF RequireProParallel, traffic
  <2>9. CASE Create(p)
    BY <2>9 DEF Create, traffic
  <2>10. CASE CreateFails(p)
    BY <2>10 DEF CreateFails, traffic
  <2>11. CASE PlanRPMLimit(p)
    <3>1. UNCHANGED <<now, bucket, granted>> /\ pc' = [pc EXCEPT ![p] = "allow"]
      BY <2>11 DEF PlanRPMLimit, traffic
    <3>2. \E r \in {PlanNow, "none"} :
            lim' = [lim EXCEPT ![p] =
                      IF Limits(r).rpm > 0 THEN Limits(r).rpm ELSE DefaultRPM]
      BY <2>11 DEF PlanRPMLimit
    <3>3. \A r : Limits(r).rpm \in {0, FreeRPM}
      BY DEF Limits
    <3>4. lim'[p] <= HighestRPM /\ \A q \in Procs \ {p} : lim'[q] = lim[q]
      BY <3>2, <3>3, HighestType
    <3> QED
      BY <3>1, <3>4
  <2>12. CASE PlanSoftCap(p)
    BY <2>12 DEF PlanSoftCap, traffic
  <2>13. CASE OverSoftTokenCap(p)
    BY <2>13 DEF OverSoftTokenCap, WithinCap
  <2>14. CASE InsertUsage(p)
    BY <2>14 DEF InsertUsage
  <2> QED
    BY <1>1, <2>1, <2>2, <2>3, <2>4, <2>5, <2>6, <2>7, <2>8, <2>9, <2>10,
       <2>11, <2>12, <2>13, <2>14 DEF Step
<1>2. ASSUME NEW p \in Procs, Allow(p) PROVE LimitKnown'
  BY <1>0, <1>2, EntryOf DEF Allow, AllowFrom, Goto, LimitKnown
<1>3. CASE Tick
  BY <1>0, <1>3 DEF Tick, traffic, LimitKnown
<1>4. CASE ApplyPaidPeriod \/ SetBillingPastDue \/ SetBillingExpired
  BY <1>0, <1>4
  DEF ApplyPaidPeriod, SetBillingPastDue, SetBillingExpired, traffic, LimitKnown
<1>5. CASE NewMonth
  BY <1>0, <1>5 DEF NewMonth, LimitKnown
<1>6. CASE Delete
  BY <1>0, <1>6 DEF Delete, traffic, LimitKnown
<1>7. CASE MintKey
  BY <1>0, <1>7 DEF MintKey, traffic, LimitKnown
<1>8. CASE UNCHANGED vars
  BY <1>0, <1>8 DEF vars, LimitKnown
<1> QED
  BY <1>1, <1>2, <1>3, <1>4, <1>5, <1>6, <1>7, <1>8 DEF Next

LEMMA WindowsAllow ==
  ASSUME Typed, LimitKnown, Windows, NEW p \in Procs, Allow(p)
  PROVE  Windows'
<1> DEFINE new == [no |-> Cardinality(granted), at |-> now, opened |-> bucket'.start]
<1>0. /\ Numbers /\ now \in Nat /\ bucket.start \in Nat /\ bucket.count \in Nat
      /\ Window \in Nat \ {0} /\ now' = now /\ pc[p] = "allow"
      /\ lim[p] \in Nat /\ lim[p] <= HighestRPM
      /\ bucket.start <= now /\ MaxTime \in Nat /\ now <= MaxTime
      /\ bucket \in [start : 0..MaxTime, count : Nat]
  BY PlansAssumption
  DEF Typed, Numbers, Places, Windows, LimitKnown, Allow, AllowFrom, Goto
<1>1. /\ Cardinality(granted) \in Nat
      /\ \A S \in SUBSET granted : IsFiniteSet(S) /\ Cardinality(S) \in Nat
  BY <1>0, OpenedFinite
<1>2. granted \subseteq [no : Nat, at : 0..MaxTime, opened : 0..MaxTime]
  BY <1>0 DEF Numbers
<1>3. new \notin granted
  BY <1>1 DEF Windows
<1>4. CASE UNCHANGED <<bucket, granted>>
  BY <1>0, <1>4, WindowsFrame
<1>5. CASE /\ granted' = granted \cup {new}
           /\ \/ Elapsed /\ bucket' = [start |-> now, count |-> 1]
              \/ /\ ~Elapsed /\ bucket.count < lim[p]
                 /\ bucket' = [start |-> bucket.start, count |-> bucket.count + 1]
  <2>1. Cardinality(granted') = Cardinality(granted) + 1
    BY <1>1, <1>3, <1>5, FS_AddElement
  <2>2. /\ \A s : Opened(s)' = IF s = bucket'.start THEN Opened(s) \cup {new} ELSE Opened(s)
        /\ Opened(bucket.start)' = Opened(bucket'.start) \cup {new}
    BY <1>5 DEF Opened
  <2>3. \A s : /\ Opened(s) \in SUBSET granted /\ new \notin Opened(s)
               /\ Cardinality(Opened(s) \cup {new}) = Cardinality(Opened(s)) + 1
    <3>1. \A s : Opened(s) \in SUBSET granted /\ new \notin Opened(s)
      BY <1>3 DEF Opened
    <3> QED
      BY <1>1, <3>1, FS_AddElement
  <2>4. CASE Elapsed
    <3>1. bucket' = [start |-> now, count |-> 1]
      BY <1>5, <2>4
    <3>2. \A g \in granted : g.opened + Window <= now
      BY <1>0, <1>2, <2>4 DEF Elapsed, Windows
    <3>3. Opened(now) = {}
      BY <1>0, <1>2, <3>2 DEF Opened
    <3>4. Cardinality(Opened(now) \cup {new}) = 1
      BY <2>3, <3>3, FS_EmptySet
    <3>5. ASSUME NEW s \in 0..MaxTime PROVE Cardinality(Opened(s))' <= HighestRPM
      <4>1. CASE s = now
        BY <2>2, <3>1, <3>4, <4>1, HighestType
      <4>2. CASE s # now
        BY <2>2, <3>1, <4>2 DEF Windows
      <4> QED BY <4>1, <4>2
    <3>6. (bucket.count = Cardinality(Opened(bucket.start)))'
      BY <2>2, <3>1, <3>4
    <3>7. /\ new.at = now /\ new.opened = now /\ new.no = Cardinality(granted)
      BY <3>1
    <3>8. \A g \in granted' :
            /\ g.no < Cardinality(granted') /\ g.at <= now
            /\ g.opened <= g.at /\ g.at < g.opened + Window
            /\ g.opened <= now
            /\ \E h \in granted' : h.opened = g.opened /\ h.at = h.opened
      BY <1>0, <1>1, <1>2, <1>5, <2>1, <3>2, <3>7 DEF Windows
    <3>9. \A g, h \in granted' : g.opened < h.opened => g.opened + Window <= h.opened
      BY <1>0, <1>2, <1>5, <3>2, <3>7 DEF Windows
    <3> HIDE DEF new
    <3> QED
      BY <1>0, <3>1, <3>5, <3>6, <3>8, <3>9 DEF Windows
  <2>5. CASE ~Elapsed
    <3>1. /\ bucket' = [start |-> bucket.start, count |-> bucket.count + 1]
          /\ bucket.count < lim[p] /\ bucket.count # 0 /\ now < bucket.start + Window
      BY <1>0, <1>5, <2>5 DEF Elapsed
    <3>2. bucket.count = Cardinality(Opened(bucket.start))
      BY DEF Windows
    <3>3. \E h \in granted : h.opened = bucket.start /\ h.at = h.opened
      <4>1. Opened(bucket.start) # {}
        BY <3>1, <3>2, FS_EmptySet
      <4> QED
        BY <4>1 DEF Opened, Windows
    <3>4. ASSUME NEW s \in 0..MaxTime PROVE Cardinality(Opened(s))' <= HighestRPM
      <4>1. CASE s = bucket.start
        BY <1>0, <2>2, <2>3, <3>1, <3>2, <4>1, HighestType
      <4>2. CASE s # bucket.start
        BY <2>2, <3>1, <4>2 DEF Windows
      <4> QED BY <4>1, <4>2
    <3>5. (bucket.count = Cardinality(Opened(bucket.start)))'
      BY <2>2, <2>3, <3>1, <3>2
    <3>6. /\ new.at = now /\ new.opened = bucket.start /\ new.no = Cardinality(granted)
      BY <3>1
    <3>7. \A g \in granted' :
            /\ g.no < Cardinality(granted') /\ g.at <= now
            /\ g.opened <= g.at /\ g.at < g.opened + Window
            /\ g.opened <= bucket.start
            /\ \E h \in granted' : h.opened = g.opened /\ h.at = h.opened
      BY <1>0, <1>1, <1>2, <1>5, <2>1, <3>1, <3>3, <3>6 DEF Windows
    <3>8. \A g, h \in granted' : g.opened < h.opened => g.opened + Window <= h.opened
      BY <1>0, <1>2, <1>5, <3>3, <3>6 DEF Windows
    <3> HIDE DEF new
    <3> QED
      BY <1>0, <3>1, <3>4, <3>5, <3>7, <3>8 DEF Windows
  <2> QED
    BY <2>4, <2>5
<1> QED
  BY <1>4, <1>5 DEF Allow, AllowFrom

LEMMA WindowsNext == Typed /\ LimitKnown /\ Windows /\ [Next]_vars => LimitKnown' /\ Windows'
  BY LimiterAlone, WindowsAllow, WindowsFrame DEF Typed

\* Those of a span that came in a window opened before it, and within it.
Early(t) == {call \in GrantedFrom(t) : call.opened < t}
Late(t) == {call \in GrantedFrom(t) : call.opened >= t}

LEMMA EarlyBelowLimit ==
  ASSUME Numbers, Windows, NEW t \in 0..MaxTime
  PROVE  Cardinality(Early(t)) \in Nat /\ Cardinality(Early(t)) < HighestRPM
<1> USE HighestType
<1>1. CASE Early(t) = {}
  BY <1>1, FS_EmptySet
<1>2. CASE Early(t) # {}
  <2>1. PICK g \in Early(t) : TRUE
    BY <1>2
  <2>2. /\ g \in granted /\ g.at \in t..t + Window - 1 /\ g.opened < t
        /\ g.opened \in 0..MaxTime
    BY <2>1 DEF Early, GrantedFrom, Numbers
  <2>3. PICK h \in granted : h.opened = g.opened /\ h.at = h.opened
    BY <2>2 DEF Windows
  <2>4. \A c \in Early(t) : c.opened = g.opened
    <3>1. ASSUME NEW c \in Early(t) PROVE c.opened = g.opened
      <4>1. /\ c \in granted /\ c.at \in t..t + Window - 1 /\ c.opened < t
            /\ c.opened \in 0..MaxTime /\ Window \in Nat
        BY PlansAssumption DEF Early, GrantedFrom, Numbers
      <4>2. /\ c.at < c.opened + Window /\ g.at < g.opened + Window
            /\ c.opened < g.opened => c.opened + Window <= g.opened
            /\ g.opened < c.opened => g.opened + Window <= c.opened
        BY <2>2, <4>1 DEF Windows
      <4> QED
        BY <2>2, <4>1, <4>2
    <3> QED BY <3>1
  <2>5. Early(t) \subseteq Opened(g.opened) \ {h}
    <3>1. h \notin Early(t)
      BY <2>2, <2>3 DEF Early, GrantedFrom
    <3> QED
      BY <2>4, <3>1 DEF Opened, Early, GrantedFrom
  <2>6. /\ Opened(g.opened) \in SUBSET granted /\ h \in Opened(g.opened)
        /\ Cardinality(Opened(g.opened)) <= HighestRPM
    BY <2>2, <2>3 DEF Opened, Windows
  <2>7. IsFiniteSet(Opened(g.opened)) /\ Cardinality(Opened(g.opened)) \in Nat
    BY <2>6, OpenedFinite
  <2>8. Cardinality(Opened(g.opened) \ {h}) = Cardinality(Opened(g.opened)) - 1
    BY <2>6, <2>7, FS_RemoveElement
  <2>9. Opened(g.opened) \ {h} \in SUBSET granted /\ Early(t) \in SUBSET granted
    BY <2>6 DEF Early, GrantedFrom
  <2> QED
    BY <2>5, <2>6, <2>7, <2>8, <2>9, OpenedFinite
<1> QED
  BY <1>1, <1>2

LEMMA LateWithinLimit ==
  ASSUME Numbers, Windows, NEW t \in 0..MaxTime
  PROVE  Cardinality(Late(t)) \in Nat /\ Cardinality(Late(t)) <= HighestRPM
<1> USE HighestType
<1>1. CASE Late(t) = {}
  BY <1>1, FS_EmptySet
<1>2. CASE Late(t) # {}
  <2>1. PICK g \in Late(t) : TRUE
    BY <1>2
  <2>2. ASSUME NEW c \in Late(t)
        PROVE  /\ c \in granted /\ c.at <= t + Window - 1 /\ c.opened >= t
               /\ c.opened \in 0..MaxTime /\ c.opened <= c.at /\ c.at \in 0..MaxTime
               /\ Window \in Nat
    BY PlansAssumption DEF Late, GrantedFrom, Numbers, Windows
  <2>3. ASSUME NEW c \in Late(t) PROVE c.opened = g.opened
    <3>1. /\ c.opened < g.opened => c.opened + Window <= g.opened
          /\ g.opened < c.opened => g.opened + Window <= c.opened
      BY <2>1, <2>2 DEF Windows
    <3> QED
      BY <2>1, <2>2, <3>1
  <2>4. Late(t) \subseteq Opened(g.opened) /\ Opened(g.opened) \in SUBSET granted
    BY <2>3 DEF Opened, Late, GrantedFrom
  <2>5. Cardinality(Opened(g.opened)) <= HighestRPM
    BY <2>1, <2>2 DEF Windows
  <2> QED
    BY <2>4, <2>5, OpenedFinite
<1> QED
  BY <1>1, <1>2

\* In any span as long as a window a key gets less than twice its limit,
\* although the window begins anew with the first call after the last one.
THEOREM BurstBelowTwiceAlways == Spec => []BurstBelowTwice
<1>1. Init => LimitKnown /\ Windows
  <2> SUFFICES ASSUME Init PROVE LimitKnown /\ Windows
    OBVIOUS
  <2>1. /\ granted = {} /\ now = 0 /\ bucket = [start |-> 0, count |-> 0]
        /\ \A p \in Procs : lim[p] = 0
    BY DEF Init
  <2>2. \A s : Opened(s) = {} /\ Cardinality(Opened(s)) = 0
    BY <2>1, FS_EmptySet DEF Opened
  <2> QED
    BY <2>1, <2>2, HighestType DEF LimitKnown, Windows
<1>2. Typed /\ Windows => BurstBelowTwice
  <2> SUFFICES ASSUME Typed, Windows, NEW t \in 0..MaxTime
               PROVE  Cardinality(GrantedFrom(t)) < 2 * HighestRPM
    BY DEF BurstBelowTwice
  <2>0. Numbers
    BY DEF Typed
  <2>1. /\ Early(t) \in SUBSET granted /\ Late(t) \in SUBSET granted
        /\ Early(t) \cap Late(t) = {}
    BY <2>0 DEF Early, Late, GrantedFrom, Numbers
  <2>2. GrantedFrom(t) = Early(t) \cup Late(t)
    BY <2>0 DEF Early, Late, GrantedFrom, Numbers
  <2>3. IsFiniteSet(Early(t)) /\ IsFiniteSet(Late(t))
    BY <2>0, <2>1, OpenedFinite
  <2>4. Cardinality(GrantedFrom(t)) = Cardinality(Early(t)) + Cardinality(Late(t))
                                      - Cardinality(Early(t) \cap Late(t))
    BY <2>2, <2>3, FS_Union
  <2>5. Cardinality(Early(t) \cap Late(t)) = 0
    BY <2>1, FS_EmptySet
  <2>6. /\ Cardinality(Early(t)) \in Nat /\ Cardinality(Early(t)) < HighestRPM
        /\ Cardinality(Late(t)) \in Nat /\ Cardinality(Late(t)) <= HighestRPM
    BY <2>0, EarlyBelowLimit, LateWithinLimit
  <2> QED
    BY <2>4, <2>5, <2>6, HighestType
<1> QED
  BY <1>1, <1>2, WindowsNext, TypedAlways, PTL DEF Spec

=============================================================================

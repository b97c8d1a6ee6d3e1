--------------------------- MODULE ApiKeys_proofs ---------------------------
(***************************************************************************)
(* Theorems about the API keys, for any number of keys, requests, owners,  *)
(* logins and visits, and any TTL.                                         *)
(***************************************************************************)
EXTENDS ApiKeys, TLAPS

(***************************************************************************)
(* Type correctness needs to know that only requests fill the cache, and   *)
(* with a key they carry.                                                  *)
(***************************************************************************)
Typed == TypeOK /\ Roles

LEMMA TypedInit == Init => Typed
<1> SUFFICES ASSUME Init PROVE Typed
  OBVIOUS
<1>1. 0 \in 0..TTL
  BY KeysAssumption
<1>2. TypeOK
  BY <1>1 DEF Init, TypeOK, Locations, Names
<1>3. Roles
  BY DEF Init, Roles
<1> QED
  BY <1>2, <1>3 DEF Typed

LEMMA TypedStep ==
  ASSUME Typed, NEW p \in Procs, Step(p)
  PROVE  Typed'
<1> USE KeysAssumption
    DEF Typed, TypeOK, Roles, Procs, Locations, Names, Goto, table, local, past
<1>1. CASE Ask(p)
  BY <1>1 DEF Ask
<1>2. CASE ReadRow(p)
  BY <1>2 DEF ReadRow
<1>3. CASE Fill(p)
  BY <1>3 DEF Fill
<1>4. CASE Serve(p)
  BY <1>4 DEF Serve
<1>5. CASE CreateKey(p)
  <2>1. PICK k \in Fresh, name \in Names : row' = [row EXCEPT ![k] = name]
    BY <1>5 DEF CreateKey, Insert
  <2>2. held' \in SUBSET Keys /\ reply' \in [Logins -> {"none", "key", "kept"}]
    BY <1>5 DEF CreateKey, HandOut, Fresh
  <2> QED
    BY <1>5, <2>1, <2>2 DEF CreateKey, Fresh
<1>6. CASE RevokeKey(p)
  BY <1>6 DEF RevokeKey, Disable, Active
<1>7. CASE Evict(p)
  BY <1>7 DEF Evict
<1>8. CASE Evicted(p)
  BY <1>8 DEF Evicted
<1>9. CASE Register(p)
  <2>1. PICK k \in Fresh : row' = [row EXCEPT ![k] = "cli"]
    BY <1>9 DEF Register, Insert
  <2>2. held' \in SUBSET Keys /\ reply' \in [Logins -> {"none", "key", "kept"}]
    BY <1>9 DEF Register, HandOut, Fresh
  <2> QED
    BY <1>9, <2>1, <2>2 DEF Register, Fresh
<1>10. CASE SignIn(p)
  BY <1>10 DEF SignIn
<1>11. CASE Count(p)
  BY <1>11 DEF Count, Cli
<1>12. CASE Mint(p)
  <2>1. PICK k \in Fresh : row' = [row EXCEPT ![k] = "cli"]
    BY <1>12 DEF Mint, Insert
  <2>2. held' \in SUBSET Keys /\ reply' \in [Logins -> {"none", "key", "kept"}]
    BY <1>12 DEF Mint, HandOut, Fresh
  <2> QED
    BY <1>12, <2>1, <2>2 DEF Mint, Fresh
<1>13. CASE Rotate(p)
  <2>1. evict[p] = {} /\ Cli \in SUBSET Keys
    BY <1>13 DEF Rotate, Cli
  <2>2. row' \in [Keys -> Names \cup {"none", "revoked"}]
    BY <1>13 DEF Rotate, Disable
  <2> QED
    BY <1>13, <2>1, <2>2 DEF Rotate
<1>14. CASE CutShort(p)
  BY <1>14 DEF CutShort, Cli
<1>15. CASE Create(p)
  <2>1. PICK k \in Fresh : row' = [row EXCEPT ![k] = "cli"]
    BY <1>15 DEF Create, Insert
  <2>2. held' \in SUBSET Keys /\ reply' \in [Logins -> {"none", "key", "kept"}]
    BY <1>15 DEF Create, HandOut, Fresh
  <2> QED
    BY <1>15, <2>1, <2>2 DEF Create, Fresh
<1> QED
  BY <1>1, <1>2, <1>3, <1>4, <1>5, <1>6, <1>7, <1>8, <1>9, <1>10, <1>11,
     <1>12, <1>13, <1>14, <1>15 DEF Step

LEMMA TypedNext == Typed /\ [Next]_vars => Typed'
<1> SUFFICES ASSUME Typed, [Next]_vars PROVE Typed'
  OBVIOUS
<1>1. CASE Tick
  BY <1>1, KeysAssumption
     DEF Tick, Ageing, Minus1, Typed, TypeOK, Roles, Procs, table, local
<1>2. CASE UNCHANGED vars
  BY <1>2 DEF vars, Typed, TypeOK, Roles
<1> QED
  BY <1>1, <1>2, TypedStep DEF Next

\* Every variable keeps its type, and no cache entry outlives the TTL.
THEOREM TypeCorrect == Spec => []TypeOK
<1>1. Typed => TypeOK
  BY DEF Typed
<1> QED
  BY TypedInit, TypedNext, <1>1, PTL DEF Spec

THEOREM TypedAlways == Spec => []Typed
  BY TypedInit, TypedNext, PTL DEF Spec

\* What a step does to the rows: nothing, one key inserted, active ones revoked.
LEMMA RowSteps ==
  ASSUME Typed, NEW p \in Procs, Step(p)
  PROVE  /\ age' = age
         /\ \/ row' = row
            \/ /\ \E k \in Fresh, name \in Names : row' = [row EXCEPT ![k] = name]
               /\ cache' = cache
            \/ /\ \E S \in SUBSET Active :
                    row' = [k \in Keys |-> IF k \in S THEN "revoked" ELSE row[k]]
               /\ cache' = cache
<1> USE DEF table, local, past
<1>1. CASE Ask(p) \/ ReadRow(p) \/ Fill(p) \/ Serve(p) \/ Evict(p) \/ Evicted(p)
            \/ SignIn(p) \/ Count(p) \/ CutShort(p)
  BY <1>1 DEF Ask, ReadRow, Fill, Serve, Evict, Evicted, SignIn, Count, CutShort
<1>2. CASE CreateKey(p)
  BY <1>2 DEF CreateKey, Insert
<1>3. CASE Register(p) \/ Mint(p) \/ Create(p)
  BY <1>3 DEF Register, Mint, Create, Insert, Names
<1>4. CASE RevokeKey(p)
  <2>1. PICK k \in Active : Disable({k})
    BY <1>4 DEF RevokeKey
  <2> QED
    BY <1>4, <2>1 DEF RevokeKey, Disable
<1>5. CASE Rotate(p)
  BY <1>5 DEF Rotate, Disable, Cli, Active, Names
<1> QED
  BY <1>1, <1>2, <1>3, <1>4, <1>5 DEF Step

-----------------------------------------------------------------------------
(***************************************************************************)
(* A revoked key lives one TTL at most once the lookups that had read its  *)
(* row have returned.  The entry is bounded by what is left of the TTL     *)
(* (Aging); a late fill happens before its age counts (ReadIsRecent).      *)
(***************************************************************************)
Bounded == ReadIsRecent /\ Aging

LEMMA AgingStep ==
  ASSUME Typed, Bounded, NEW p \in Procs, Step(p)
  PROVE  Aging'
<1> USE DEF Bounded, Aging, Typed, TypeOK, Active, Fresh, Names
<1> SUFFICES ASSUME NEW k \in Keys
             PROVE  IF row'[k] = "revoked" THEN cache'[k] + age'[k] <= TTL
                                          ELSE age'[k] = 0
  OBVIOUS
<1>1. age' = age /\ age[k] \in 0..TTL /\ cache[k] \in 0..TTL /\ TTL \in Nat
  BY RowSteps, KeysAssumption
<1>2. CASE row' = row /\ cache'[k] = cache[k]
  BY <1>1, <1>2
<1>3. CASE row' # row
  BY <1>1, <1>3, RowSteps
<1>4. CASE row' = row /\ cache'[k] # cache[k]
  <2>1. Fill(p) \/ Evict(p)
    BY <1>4 DEF Step, Ask, ReadRow, Serve, CreateKey, RevokeKey, Evicted,
                Register, SignIn, Count, Mint, Rotate, CutShort, Create
  <2>2. CASE Fill(p)
    <3>1. p \in Requests /\ key[p] = k /\ cache'[k] = TTL
      BY <1>4, <2>2 DEF Fill, Goto, Roles
    <3>2. row[k] # "revoked" \/ age[k] = 0
      BY <2>2, <3>1 DEF Fill, Goto, ReadIsRecent
    <3> QED
      BY <1>1, <1>4, <3>1, <3>2
  <2>3. CASE Evict(p)
    <3>1. cache'[k] = 0
      BY <1>4, <2>3 DEF Evict
    <3> QED
      BY <1>1, <1>4, <3>1
  <2> QED
    BY <2>1, <2>2, <2>3
<1> QED
  BY <1>2, <1>3, <1>4

LEMMA ReadStep ==
  ASSUME Typed, Bounded, NEW p \in Procs, Step(p)
  PROVE  ReadIsRecent'
<1> USE DEF Bounded, ReadIsRecent, Aging, Typed, TypeOK, Roles, Active, Fresh,
            Names, Procs
<1> SUFFICES ASSUME NEW q \in Requests, pc'[q] = "fill"
             PROVE  \/ row'[key'[q]] \in Names /\ key'[q] \in Keys
                    \/ row'[key'[q]] = "revoked" /\ age'[key'[q]] = 0
  OBVIOUS
<1>1. CASE pc[q] = "fill"
  <2>1. key'[q] = key[q] /\ key[q] \in Keys
    BY <1>1 DEF Step, Ask, ReadRow, Fill, Serve, CreateKey, RevokeKey, Evict,
                Evicted, Register, SignIn, Count, Mint, Rotate, CutShort,
                Create, Goto, local
  <2> QED
    BY <1>1, <2>1, RowSteps
<1>2. CASE pc[q] # "fill"
  <2>1. ReadRow(p) /\ p = q
    BY <1>2 DEF Step, Ask, ReadRow, Fill, Serve, CreateKey, RevokeKey, Evict,
                Evicted, Register, SignIn, Count, Mint, Rotate, CutShort,
                Create, Goto
  <2>2. key[q] \in Active
    BY <1>2, <2>1 DEF ReadRow, Goto
  <2> QED
    BY <2>1, <2>2 DEF ReadRow, table, local
<1> QED
  BY <1>1, <1>2

LEMMA BoundedNext == Typed /\ Bounded /\ [Next]_vars => Bounded'
<1> SUFFICES ASSUME Typed, Bounded, [Next]_vars PROVE Bounded'
  OBVIOUS
<1>1. ASSUME NEW p \in Procs, Step(p) PROVE Bounded'
  BY <1>1, AgingStep, ReadStep DEF Bounded
<1>2. CASE Tick
  <2> USE <1>2, KeysAssumption
      DEF Tick, Ageing, Minus1, Bounded, Typed, TypeOK, table, local
  <2>1. ReadIsRecent'
    <3> SUFFICES ASSUME NEW q \in Requests, pc[q] = "fill"
                 PROVE  \/ key[q] \in Active
                        \/ row[key[q]] = "revoked" /\ age'[key[q]] = 0
      BY DEF ReadIsRecent, Active
    <3>1. CASE row[key[q]] = "revoked" /\ age[key[q]] = 0
      <4>1. key[q] \in Keys
        BY DEF Roles, Procs
      <4>2. ~Ageing(key[q])
        BY DEF Filling
      <4> QED BY <3>1, <4>1, <4>2
    <3> QED BY <3>1 DEF ReadIsRecent
  <2>2. Aging'
    <3> SUFFICES ASSUME NEW k \in Keys
                 PROVE  IF row[k] = "revoked" THEN cache'[k] + age'[k] <= TTL
                                             ELSE age'[k] = 0
      BY DEF Aging
    <3>1. age[k] \in 0..TTL /\ cache[k] \in 0..TTL /\ TTL \in Nat
      OBVIOUS
    <3>2. CASE row[k] = "revoked"
      <4>1. cache[k] + age[k] <= TTL
        BY <3>2 DEF Aging
      <4>2. cache'[k] = (IF cache[k] > 0 THEN cache[k] - 1 ELSE 0)
        OBVIOUS
      <4>3. age'[k] = age[k] \/ (age[k] < TTL /\ age'[k] = age[k] + 1)
        OBVIOUS
      <4> QED BY <3>1, <3>2, <4>1, <4>2, <4>3
    <3>3. CASE row[k] # "revoked"
      BY <3>3 DEF Aging
    <3> QED BY <3>2, <3>3
  <2> QED
    BY <2>1, <2>2
<1>3. CASE UNCHANGED vars
  BY <1>3 DEF vars, Bounded, ReadIsRecent, Aging, Active
<1> QED
  BY <1>1, <1>2, <1>3 DEF Next

\* A revoked key authenticates for one TTL at most after its revocation, or
\* after the last lookup that had read its row before it was revoked, however
\* evictions fail.
THEOREM StaleIsShort == Spec => []StaleAtMostTTL
<1>1. Init => Bounded
  BY KeysAssumption DEF Init, Bounded, ReadIsRecent, Aging, Procs
<1>2. Typed /\ Bounded => StaleAtMostTTL
  BY KeysAssumption DEF Typed, TypeOK, Bounded, Aging, StaleAtMostTTL
<1> QED
  BY <1>1, <1>2, BoundedNext, TypedAlways, PTL DEF Spec

-----------------------------------------------------------------------------
(***************************************************************************)
(* Why a revoked key may still be cached: inductive with the types.        *)
(***************************************************************************)
LEMMA RacedStep ==
  ASSUME Typed, StaleIsRaced, NEW p \in Procs, Step(p)
  PROVE  StaleIsRaced'
<1> USE DEF Typed, TypeOK, Roles, StaleIsRaced, Evicting, Goto, table, local, past
<1>1. CASE Ask(p) \/ ReadRow(p) \/ Serve(p) \/ Evicted(p) \/ SignIn(p) \/ Count(p)
  BY <1>1 DEF Ask, ReadRow, Serve, Evicted, SignIn, Count
<1>2. CASE Fill(p)
  BY <1>2 DEF Fill
<1>3. CASE CreateKey(p) \/ Register(p) \/ Mint(p) \/ Create(p)
  <2>1. PICK k \in Fresh, name \in Names : row' = [row EXCEPT ![k] = name]
    BY <1>3 DEF CreateKey, Register, Mint, Create, Insert, Names
  <2>2. UNCHANGED <<cache, evict, stale>>
    BY <1>3 DEF CreateKey, Register, Mint, Create
  <2> QED
    BY <2>1, <2>2 DEF Fresh, Names
<1>4. CASE RevokeKey(p)
  <2>1. PICK k \in Active : Disable({k}) /\ evict' = [evict EXCEPT ![p] = {k}]
    BY <1>4 DEF RevokeKey
  <2>2. UNCHANGED <<cache, stale>> /\ evict[p] = {}
    BY <1>4 DEF RevokeKey
  <2> QED
    BY <2>1, <2>2 DEF Disable
<1>5. CASE Rotate(p)
  <2>1. UNCHANGED <<cache, stale>> /\ evict[p] = {}
    BY <1>5 DEF Rotate
  <2> QED
    BY <1>5, <2>1 DEF Rotate, Disable
<1>6. CASE Evict(p)
  <2>1. PICK k \in evict[p] : /\ cache' = [cache EXCEPT ![k] = 0]
                              /\ evict' = [evict EXCEPT ![p] = @ \ {k}]
                              /\ stale' = stale \ {k}
    BY <1>6 DEF Evict
  <2> QED
    BY <1>6, <2>1 DEF Evict
<1>7. CASE CutShort(p)
  BY <1>7 DEF CutShort
<1> QED
  BY <1>1, <1>2, <1>3, <1>4, <1>5, <1>6, <1>7 DEF Step

\* A revoked key is in the cache only while it is being evicted, or because a
\* late lookup stored it or an error cut the eviction short.
THEOREM RaceOrError == Spec => []StaleIsRaced
<1>1. Init => StaleIsRaced
  BY DEF Init, StaleIsRaced
<1>2. Typed /\ StaleIsRaced /\ [Next]_vars => StaleIsRaced'
  <2> SUFFICES ASSUME Typed, StaleIsRaced, [Next]_vars PROVE StaleIsRaced'
    OBVIOUS
  <2>1. CASE Tick
    BY <2>1, KeysAssumption
       DEF Tick, Minus1, Typed, TypeOK, StaleIsRaced, Evicting, table, local
  <2>2. CASE UNCHANGED vars
    BY <2>2 DEF vars, StaleIsRaced, Evicting
  <2> QED
    BY <2>1, <2>2, RacedStep DEF Next
<1> QED
  BY <1>1, <1>2, TypedAlways, PTL DEF Spec

-----------------------------------------------------------------------------
(***************************************************************************)
(* Sign-ins leave a "cli" key: without one, a rotation is under way, and   *)
(* it ends by creating one or by an error (KeyComing).                     *)
(***************************************************************************)
LEMMA ComingStep ==
  ASSUME Typed, KeyComing, NEW p \in Procs, Step(p)
  PROVE  KeyComing'
<1> USE DEF Typed, TypeOK, Roles, KeyComing, Cli, Goto, table, local, past
<1>1. CASE Ask(p) \/ ReadRow(p) \/ Fill(p) \/ Serve(p) \/ SignIn(p) \/ Count(p)
  <2>1. UNCHANGED <<row, registered, excuse>>
    BY <1>1 DEF Ask, ReadRow, Fill, Serve, SignIn, Count
  <2>2. \A q \in Logins : pc[q] \in {"evict", "create"} => pc'[q] = pc[q]
    BY <1>1 DEF Ask, ReadRow, Fill, Serve, SignIn, Count, Procs
  <2> QED
    BY <2>1, <2>2
<1>2. CASE CreateKey(p)
  <2>1. PICK k \in Fresh, name \in Names : row' = [row EXCEPT ![k] = name]
    BY <1>2 DEF CreateKey, Insert
  <2>2. Cli \subseteq Cli' /\ UNCHANGED <<registered, excuse, pc>>
    BY <1>2, <2>1 DEF CreateKey, Fresh
  <2> QED
    BY <2>2
<1>3. CASE Register(p) \/ Mint(p) \/ Create(p)
  <2>1. PICK k \in Fresh : row' = [row EXCEPT ![k] = "cli"]
    BY <1>3 DEF Register, Mint, Create, Insert
  <2>2. k \in Cli'
    BY <2>1 DEF Fresh
  <2> QED
    BY <2>2
<1>4. CASE RevokeKey(p)
  BY <1>4 DEF RevokeKey
<1>5. CASE Rotate(p)
  <2>1. p \in Logins /\ pc'[p] = "evict"
    BY <1>5 DEF Rotate
  <2> QED
    BY <2>1
<1>6. CASE Evict(p) \/ Evicted(p)
  <2>1. UNCHANGED <<row, registered, excuse>>
    BY <1>6 DEF Evict, Evicted
  <2>2. \A q \in Logins : pc[q] \in {"evict", "create"}
                          => pc'[q] \in {"evict", "create"}
    BY <1>6 DEF Evict, Evicted, Procs
  <2> QED
    BY <2>1, <2>2
<1>7. CASE CutShort(p)
  BY <1>7 DEF CutShort
<1> QED
  BY <1>1, <1>2, <1>3, <1>4, <1>5, <1>6, <1>7 DEF Step

\* Sign-ins and rotations leave the project with an active "cli" key, unless
\* keys were revoked by hand or an error cut a sign-in short.
THEOREM KeyLeft == Spec => []SignInsLeaveKey
<1>1. Init => KeyComing
  BY DEF Init, KeyComing
<1>2. Typed /\ KeyComing /\ [Next]_vars => KeyComing'
  <2> SUFFICES ASSUME Typed, KeyComing, [Next]_vars PROVE KeyComing'
    OBVIOUS
  <2>1. CASE Tick
    BY <2>1 DEF Tick, KeyComing, Cli, table, local
  <2>2. CASE UNCHANGED vars
    BY <2>2 DEF vars, KeyComing, Cli
  <2> QED
    BY <2>1, <2>2, ComingStep DEF Next
<1>3. KeyComing => SignInsLeaveKey
  BY DEF KeyComing, SignInsLeaveKey
<1> QED
  BY <1>1, <1>2, <1>3, TypedAlways, PTL DEF Spec

=============================================================================

--------------------------- MODULE Routes_proofs ----------------------------
(***************************************************************************)
(* Theorems about the route cache and the handlers that read it first and  *)
(* write by what they read, for any number of callers and accounts.        *)
(***************************************************************************)
EXTENDS Routes, FiniteSetTheorems, TLAPS

(***************************************************************************)
(* Type correctness.  The weight an attachment gives depends on its        *)
(* position, which is a count: the pool a caller builds has to be known to *)
(* name every account once.                                                *)
(***************************************************************************)
Rows ==
  /\ row \in RouteRows /\ cached \in RouteRows /\ created \in 0..MaxRoutes
  /\ copy \in [Callers -> RouteRows]

Places == pc \in [Callers -> Locations] /\ op \in [Callers -> Ops]

Chained == links \in [Accounts -> Links]

Pooled == pool \in [Callers -> SUBSET (Accounts \X Nat)]

Past ==
  /\ asked \in Wishes
  /\ moved \subseteq Callers /\ raced \in BOOLEAN /\ unweighed \in BOOLEAN

LEMMA Parts == TypeOK <=> Rows /\ Places /\ Chained /\ Pooled /\ Past
  BY DEF TypeOK, Rows, Places, Chained, Pooled, Past

\* The accounts a pool names.
Named(S) == {a \in Accounts : \E n \in Nat : <<a, n>> \in S}

PoolShape ==
  \A p \in Callers :
    /\ pc[p] \in {"set", "replace"} => op[p] \in {"create", "update", "preset"}
    /\ pc[p] \notin {"replace", "relist"} => pool[p] = {}
    /\ pc[p] = "replace" =>
         IsFiniteSet(pool[p]) /\ Cardinality(pool[p]) = Cardinality(Named(pool[p]))

Typed == Rows /\ Places /\ Chained /\ Pooled /\ Past /\ PoolShape

LEMMA AccountsFinite ==
  /\ IsFiniteSet(Accounts) /\ Cardinality(Accounts) \in Nat
  /\ \A S \in SUBSET Accounts :
       /\ IsFiniteSet(S) /\ Cardinality(S) \in Nat
       /\ Cardinality(S) <= Cardinality(Accounts)
       /\ S # Accounts => Cardinality(S) < Cardinality(Accounts)
<1>1. IsFiniteSet(Accounts)
  BY RoutesAssumption
<1>2. Cardinality(Accounts) \in Nat
  BY <1>1, FS_CardinalityType
<1>3. ASSUME NEW S \in SUBSET Accounts
      PROVE  /\ IsFiniteSet(S) /\ Cardinality(S) \in Nat
             /\ Cardinality(S) <= Cardinality(Accounts)
             /\ S # Accounts => Cardinality(S) < Cardinality(Accounts)
  <2>1. /\ IsFiniteSet(S) /\ Cardinality(S) <= Cardinality(Accounts)
        /\ Cardinality(Accounts) = Cardinality(S) => Accounts = S
    BY <1>1, FS_Subset
  <2>2. Cardinality(S) \in Nat
    BY <2>1, FS_CardinalityType
  <2> QED BY <1>2, <2>1, <2>2
<1> QED BY <1>1, <1>2, <1>3

LEMMA WeighedType ==
  ASSUME NEW p \in Callers, NEW pos \in Positions
  PROVE  /\ Weighed(p, pos) \in Links /\ Weighed(p, pos) # Unlinked
         /\ Weighed(p, pos).pos = pos
         /\ Weighed(p, pos).weight = AttachWeight(copy[p].config, pos)
  BY DEF Weighed, AttachWeight, Links, Weights, Unlinked

LEMMA UnlinkedType == Unlinked \in Links
  BY DEF Links

\* A listed account has its place among those linked.
LEMMA RankType ==
  ASSUME Chained, NEW a \in Linked
  PROVE  Rank(a) \in Positions /\ Rank(a) \in Nat
<1> DEFINE S == {b \in Linked : \/ links[b].pos < links[a].pos
                                \/ links[b].pos = links[a].pos /\ b < a}
<1>1. Linked \subseteq Accounts /\ a \in Accounts /\ a \in Nat
  BY RoutesAssumption DEF Linked
<1>2. links[a].pos \in Nat
  <2>1. links[a] \in Links
    BY <1>1 DEF Chained
  <2> QED BY <2>1 DEF Links, Unlinked, Positions
<1>3. S \in SUBSET Accounts /\ a \notin S
  <2>1. S \subseteq Accounts
    BY <1>1
  <2>2. ~(links[a].pos < links[a].pos) /\ ~(a < a)
    BY <1>1, <1>2
  <2>3. a \notin S
    BY <2>2
  <2> QED BY <2>1, <2>3
<1>4. Cardinality(S) \in Nat /\ Cardinality(S) < Cardinality(Accounts)
  BY <1>1, <1>3, AccountsFinite
<1> QED BY <1>4, AccountsFinite DEF Rank, Positions

LEMMA TypedInit == Init => Typed
<1> SUFFICES ASSUME Init PROVE Typed
  OBVIOUS
<1>1. NoRoute \in RouteRows /\ Unlinked \in Links
  BY RoutesAssumption, UnlinkedType DEF NoRoute, RouteRows, Strategies, Configs
<1>2. Rows /\ Places /\ Chained /\ Pooled
  BY <1>1, RoutesAssumption DEF Init, Rows, Places, Chained, Pooled, Locations, Ops, Handlers
<1>3. Past
  BY DEF Init, Past, Nothing, Wishes, Strategies, Configs
<1>4. PoolShape
  BY DEF Init, PoolShape
<1> QED BY <1>2, <1>3, <1>4 DEF Typed

\* The pool a creation builds: one account more, one place more.
LEMMA NamedGrows ==
  ASSUME NEW S \in SUBSET (Accounts \X Nat), NEW a \in Accounts, NEW n \in Nat,
         IsFiniteSet(S), Cardinality(S) = Cardinality(Named(S)),
         \A link \in S : link[1] # a
  PROVE  /\ Cardinality(S) \in Positions
         /\ IsFiniteSet(S \cup {<<a, n>>})
         /\ Cardinality(S \cup {<<a, n>>}) = Cardinality(Named(S \cup {<<a, n>>}))
<1>1. a \notin Named(S) /\ <<a, n>> \notin S /\ Named(S) \in SUBSET Accounts
  BY DEF Named
<1>2. Named(S \cup {<<a, n>>}) = Named(S) \cup {a}
  BY DEF Named
<1>3. IsFiniteSet(Named(S)) /\ Cardinality(Named(S)) \in Nat
      /\ Cardinality(Named(S)) < Cardinality(Accounts)
  BY <1>1, AccountsFinite
<1>4. Cardinality(Named(S) \cup {a}) = Cardinality(Named(S)) + 1
  BY <1>1, <1>3, FS_AddElement
<1>5. /\ IsFiniteSet(S \cup {<<a, n>>})
      /\ Cardinality(S \cup {<<a, n>>}) = Cardinality(S) + 1
  BY <1>1, FS_AddElement
<1>6. Cardinality(S) \in Positions
  BY <1>3, AccountsFinite DEF Positions
<1>7. Cardinality(Named(S \cup {<<a, n>>})) = Cardinality(S) + 1
  BY <1>2, <1>4
<1> QED BY <1>5, <1>6, <1>7

\* What an update writes, and what it was asked for.
Writes(p, o, strategy, config, model) ==
  /\ row' = [row EXCEPT !.strategy = Or(strategy, copy[p].strategy),
                        !.config = Or(config, copy[p].config),
                        !.model = Or(model, copy[p].model)]
  /\ asked' = [asked EXCEPT !.strategy = Or(strategy, @), !.config = Or(config, @),
                            !.model = Or(model, @)]
  /\ op' = [op EXCEPT ![p] = o]

LEMMA UpdateWrites ==
  ASSUME NEW p \in Callers, UpdateRoute(p)
  PROVE  \E o \in {"update", "preset"}, strategy \in Strategies \cup {Unnamed},
           config \in Configs \cup {Unnamed}, model \in Models \cup {NoModel, Unnamed} :
             Writes(p, o, strategy, config, model)
<1>1. PICK o \in {"update", "preset"}, strategy \in Strategies \cup {Unnamed},
           config \in Configs \cup {Unnamed}, model \in Models \cup {NoModel, Unnamed} :
        /\ o = "preset" => \E name \in {"failover", "prefer-primary"} :
                             <<strategy, config>> = ApplyPreset(name)
        /\ row' = [row EXCEPT !.strategy = Or(strategy, copy[p].strategy),
                              !.config = Or(config, copy[p].config),
                              !.model = Or(model, copy[p].model)]
        /\ asked' = [asked EXCEPT !.strategy = Or(strategy, @), !.config = Or(config, @),
                                  !.model = Or(model, @)]
        /\ op' = [op EXCEPT ![p] = o]
  BY DEF UpdateRoute
<1>2. Writes(p, o, strategy, config, model)
  BY <1>1 DEF Writes
<1> QED
  BY <1>2

\* A step keeps the types of the rows and the places, and every caller but p
\* keeps its place and its pool.
LEMMA RowsStep ==
  ASSUME Typed, NEW p \in Callers, Step(p)
  PROVE  Rows' /\ Places' /\ Past'
<1>0. /\ NoRoute \in RouteRows /\ Nothing \in Wishes
      /\ copy[p] \in RouteRows /\ row \in RouteRows
      /\ copy[p].strategy \in Strategies /\ copy[p].config \in Configs
      /\ copy[p].model \in Models \cup {NoModel}
      /\ Rows /\ Places /\ Past
  BY RoutesAssumption DEF Typed, Rows, NoRoute, Nothing, Wishes, RouteRows, Strategies, Configs
<1> USE <1>0 DEF Rows, Places, Past, Goto, Return, Changes, Stores, Leaves, local,
                 Locations, Ops, Handlers
<1>1. CASE Begin(p)
  BY <1>1 DEF Begin, Busy
<1>2. CASE CacheGet(p)
  BY <1>2 DEF CacheGet, Settling
<1>3. CASE Select(p)
  BY <1>3 DEF Select
<1>4. CASE Fill(p)
  BY <1>4 DEF Fill
<1>5. CASE Read(p)
  BY <1>5 DEF Read
<1>6. CASE Refuse(p)
  BY <1>6 DEF Refuse
<1>7. CASE CreateRoute(p)
  <2>1. PICK strategy \in Strategies, config \in Configs, model \in Models \cup {NoModel} :
          /\ row' = [id |-> created + 1, strategy |-> strategy, config |-> config,
                     model |-> model]
          /\ asked' = [strategy |-> strategy, config |-> config, model |-> model,
                       linked |-> {}]
    BY <1>7 DEF CreateRoute
  <2>2. row' \in RouteRows /\ created + 1 \in 0..MaxRoutes /\ asked' \in Wishes
    BY <1>7, <2>1, RoutesAssumption DEF CreateRoute, RouteRows, Wishes
  <2> QED BY <1>7, <2>1, <2>2 DEF CreateRoute, Busy
<1>8. CASE UpdateRoute(p)
  <2>1. PICK o \in {"update", "preset"}, strategy \in Strategies \cup {Unnamed},
            config \in Configs \cup {Unnamed}, model \in Models \cup {NoModel, Unnamed} :
          Writes(p, o, strategy, config, model)
    BY <1>8, UpdateWrites
  <2>2. /\ Or(strategy, copy[p].strategy) \in Strategies
        /\ Or(config, copy[p].config) \in Configs
        /\ Or(model, copy[p].model) \in Models \cup {NoModel}
        /\ Or(strategy, asked.strategy) \in Strategies
        /\ Or(config, asked.config) \in Configs
        /\ Or(model, asked.model) \in Models \cup {NoModel}
    BY DEF Or, Wishes
  <2>3. row' \in RouteRows
    BY <2>1, <2>2 DEF Writes, RouteRows
  <2>4. asked' \in Wishes
    BY <2>1, <2>2 DEF Writes, Wishes
  <2> QED BY <1>8, <2>1, <2>3, <2>4 DEF UpdateRoute, Writes, Busy
<1>9. CASE Set(p)
  BY <1>9 DEF Set, AfterSet
<1>10. CASE Answer(p)
  BY <1>10 DEF Answer
<1>11. CASE ReplaceRouteAccounts(p)
  BY <1>11 DEF ReplaceRouteAccounts, Busy, Wishes
<1>12. CASE AttachNext(p)
  <2>1. /\ UNCHANGED <<row, cached, created, copy, pc, op, unweighed>>
        /\ \E a \in Accounts : \/ asked' = [asked EXCEPT !.linked = @ \cup {a}]
                              \/ UNCHANGED asked
        /\ \/ moved' = moved \cup (Busy \ {p}) /\ raced' = (raced \/ p \in moved)
           \/ UNCHANGED <<moved, raced>>
    BY <1>12 DEF AttachNext
  <2>2. Rows' /\ Places'
    BY <2>1
  <2>3. asked' \in Wishes
    BY <2>1 DEF Wishes
  <2> QED BY <2>1, <2>2, <2>3 DEF Busy
<1>13. CASE ListRoutePool(p)
  BY <1>13 DEF ListRoutePool
<1>14. CASE Reweigh(p)
  BY <1>14 DEF Reweigh, Busy
<1>15. CASE AttachAccount(p)
  BY <1>15 DEF AttachAccount, LinkOne, Busy, Wishes
<1>16. CASE DetachRouteAccount(p)
  BY <1>16 DEF DetachRouteAccount, Busy, Linked, Wishes
<1>17. CASE DeleteRoute(p)
  BY <1>17 DEF DeleteRoute, Busy
<1>18. CASE Evict(p)
  BY <1>18 DEF Evict
<1> QED
  BY <1>1, <1>2, <1>3, <1>4, <1>5, <1>6, <1>7, <1>8, <1>9, <1>10, <1>11,
     <1>12, <1>13, <1>14, <1>15, <1>16, <1>17, <1>18 DEF Step

LEMMA ChainedStep ==
  ASSUME Typed, NEW p \in Callers, Step(p)
  PROVE  Chained'
<1>0. /\ Chained /\ Pooled /\ Unlinked \in Links /\ pool[p] \in SUBSET (Accounts \X Nat)
      /\ \A pos \in Positions : Weighed(p, pos) \in Links
  BY WeighedType, UnlinkedType DEF Typed, Pooled
<1> USE <1>0 DEF Chained
<1>1. CASE Begin(p)
  BY <1>1 DEF Begin
<1>2. CASE CacheGet(p)
  BY <1>2 DEF CacheGet
<1>3. CASE Select(p)
  BY <1>3 DEF Select
<1>4. CASE Fill(p)
  BY <1>4 DEF Fill
<1>5. CASE Read(p)
  BY <1>5 DEF Read
<1>6. CASE Refuse(p)
  BY <1>6 DEF Refuse
<1>7. CASE CreateRoute(p)
  BY <1>7 DEF CreateRoute
<1>8. CASE UpdateRoute(p)
  BY <1>8 DEF UpdateRoute
<1>9. CASE Set(p)
  BY <1>9 DEF Set, AfterSet
<1>10. CASE Answer(p)
  BY <1>10 DEF Answer
<1>11. CASE ReplaceRouteAccounts(p)
  <2>1. PICK ids \in SUBSET Accounts : \E order \in [ids -> 0..Cardinality(ids) - 1] :
          links' = [a \in Accounts |->
                      IF a \in ids THEN Weighed(p, order[a]) ELSE Unlinked]
    BY <1>11 DEF ReplaceRouteAccounts
  <2>2. 0..Cardinality(ids) - 1 \subseteq Positions
    BY AccountsFinite DEF Positions
  <2> QED BY <2>1, <2>2
<1>12. CASE AttachNext(p)
  <2>1. Cardinality(pool[p]) \in Positions \/ links' = links
    <3>1. CASE links' # links
      <4>1. PICK a \in Accounts : \A link \in pool[p] : link[1] # a
        BY <1>12 DEF AttachNext
      <4>2. IsFiniteSet(pool[p]) /\ Cardinality(pool[p]) = Cardinality(Named(pool[p]))
        BY <1>12 DEF AttachNext, Typed, PoolShape
      <4> QED BY <1>0, <4>1, <4>2, NamedGrows
    <3> QED BY <3>1
  <2> QED BY <1>12, <2>1 DEF AttachNext
<1>13. CASE ListRoutePool(p)
  BY <1>13 DEF ListRoutePool
<1>14. CASE Reweigh(p)
  BY <1>14 DEF Reweigh
<1>15. CASE AttachAccount(p)
  <2>1. PICK a \in Accounts, pos \in Positions, weight \in Weights :
          links' = [links EXCEPT ![a] = [pos |-> pos, weight |-> weight]]
    BY <1>15 DEF AttachAccount, LinkOne, AttachWeight, Weights
  <2>2. [pos |-> pos, weight |-> weight] \in Links
    BY DEF Links
  <2> QED BY <2>1, <2>2
<1>16. CASE DetachRouteAccount(p)
  BY <1>16 DEF DetachRouteAccount, Linked
<1>17. CASE DeleteRoute(p)
  BY <1>17 DEF DeleteRoute
<1>18. CASE Evict(p)
  BY <1>18 DEF Evict
<1> QED
  BY <1>1, <1>2, <1>3, <1>4, <1>5, <1>6, <1>7, <1>8, <1>9, <1>10, <1>11,
     <1>12, <1>13, <1>14, <1>15, <1>16, <1>17, <1>18 DEF Step

LEMMA PooledStep ==
  ASSUME Typed, NEW p \in Callers, Step(p)
  PROVE  Pooled' /\ PoolShape'
<1>0. /\ Places /\ Pooled /\ PoolShape /\ {} \in SUBSET (Accounts \X Nat)
      /\ IsFiniteSet({}) /\ Cardinality({}) = Cardinality(Named({}))
  <2>1. Named({}) = {}
    BY DEF Named
  <2> QED BY <2>1, FS_EmptySet DEF Typed
<1> USE <1>0 DEF Places, Pooled, PoolShape, Goto, Return, local
<1>1. CASE Begin(p)
  BY <1>1 DEF Begin
<1>2. CASE CacheGet(p)
  BY <1>2 DEF CacheGet
<1>3. CASE Select(p)
  BY <1>3 DEF Select
<1>4. CASE Fill(p)
  BY <1>4 DEF Fill
<1>5. CASE Read(p)
  BY <1>5 DEF Read
<1>6. CASE Refuse(p)
  BY <1>6 DEF Refuse
<1>7. CASE CreateRoute(p)
  BY <1>7 DEF CreateRoute
<1>8. CASE UpdateRoute(p)
  BY <1>8 DEF UpdateRoute
<1>9. CASE Set(p)
  BY <1>9 DEF Set, AfterSet
<1>10. CASE Answer(p)
  BY <1>10 DEF Answer
<1>11. CASE ReplaceRouteAccounts(p)
  BY <1>11 DEF ReplaceRouteAccounts
<1>12. CASE AttachNext(p)
  <2>1. PICK a \in Accounts :
          /\ \A link \in pool[p] : link[1] # a
          /\ pool' = [pool EXCEPT ![p] = @ \cup {<<a, Cardinality(@)>>}]
    BY <1>12 DEF AttachNext
  <2>2. /\ pc[p] = "replace" /\ UNCHANGED <<pc, op>>
        /\ pool[p] \in SUBSET (Accounts \X Nat) /\ IsFiniteSet(pool[p])
        /\ Cardinality(pool[p]) = Cardinality(Named(pool[p]))
    BY <1>12 DEF AttachNext
  <2> DEFINE n == Cardinality(pool[p])
             S == pool[p] \cup {<<a, n>>}
  <2>3. n \in Nat
    BY <2>2, FS_CardinalityType
  <2>4. IsFiniteSet(S) /\ Cardinality(S) = Cardinality(Named(S))
    BY <2>1, <2>2, <2>3, NamedGrows
  <2>5. S \in SUBSET (Accounts \X Nat) /\ pool' = [pool EXCEPT ![p] = S]
    BY <2>1, <2>2, <2>3
  <2> HIDE DEF S
  <2> QED BY <2>2, <2>4, <2>5
<1>13. CASE ListRoutePool(p)
  <2>1. \A a \in Linked : a \in Accounts /\ Rank(a) \in Nat
    BY RankType DEF Typed, Linked
  <2>2. {<<a, Rank(a)>> : a \in Linked} \in SUBSET (Accounts \X Nat)
    BY <2>1
  <2> QED BY <1>13, <2>2 DEF ListRoutePool
<1>14. CASE Reweigh(p)
  BY <1>14 DEF Reweigh
<1>15. CASE AttachAccount(p)
  BY <1>15 DEF AttachAccount, LinkOne
<1>16. CASE DetachRouteAccount(p)
  BY <1>16 DEF DetachRouteAccount
<1>17. CASE DeleteRoute(p)
  BY <1>17 DEF DeleteRoute
<1>18. CASE Evict(p)
  BY <1>18 DEF Evict
<1> QED
  BY <1>1, <1>2, <1>3, <1>4, <1>5, <1>6, <1>7, <1>8, <1>9, <1>10, <1>11,
     <1>12, <1>13, <1>14, <1>15, <1>16, <1>17, <1>18 DEF Step

LEMMA TypedNext == Typed /\ [Next]_vars => Typed'
<1> SUFFICES ASSUME Typed, [Next]_vars PROVE Typed'
  OBVIOUS
<1>1. ASSUME NEW p \in Callers, Step(p) PROVE Typed'
  BY <1>1, RowsStep, ChainedStep, PooledStep DEF Typed
<1>2. ASSUME NEW a \in Accounts, Cascade(a) PROVE Typed'
  BY <1>2, UnlinkedType
  DEF Cascade, Typed, Rows, Places, Chained, Pooled, Past, Wishes, PoolShape, Busy, local
<1>3. CASE Expire
  BY <1>3, RoutesAssumption
  DEF Expire, Typed, Rows, Places, Chained, Pooled, Past, PoolShape, local, NoRoute,
      RouteRows, Strategies, Configs
<1>4. CASE UNCHANGED vars
  BY <1>4 DEF vars, local, Typed, Rows, Places, Chained, Pooled, Past, PoolShape
<1> QED BY <1>1, <1>2, <1>3, <1>4 DEF Next

LEMMA TypedAlways == Spec => []Typed
  BY TypedInit, TypedNext, PTL DEF Spec

\* Every variable always holds a value of its type.
THEOREM TypeCorrect == Spec => []TypeOK
<1>1. Typed => TypeOK
  BY Parts DEF Typed
<1> QED BY <1>1, TypedAlways, PTL

(***************************************************************************)
(* What makes the handlers safe as long as none has raced.  A caller that  *)
(* nobody has overtaken holds the row as it is (Held), although it may     *)
(* have it from the cache, because the cache is out of date only while a   *)
(* writer is about to store or to evict (Fresh); the links it has listed   *)
(* are those of the row (Listed); and a route starts without links (Bare). *)
(***************************************************************************)
Holding(q) ==
  /\ pc[q] \in {"fill", "act", "set", "replace", "list", "relist"}
  /\ pc[q] = "act" => op[q] # "create"

Numbered ==
  /\ row # NoRoute => row.id # 0
  /\ cached # NoRoute => cached.id # 0
  /\ \A q \in Callers : Holding(q) => copy[q].id # 0

Held == ~raced => \A q \in Callers \ moved : Holding(q) => copy[q] = row

Fresh == ~raced => cached \in {NoRoute, row} \/ Settling # {}

Bare == row = NoRoute => Linked = {}

Lists(q) ==
  \A a \in Accounts : a \in Linked <=> \E pos \in Positions : <<a, pos>> \in pool[q]

Listed == ~raced => \A q \in Callers \ moved : pc[q] = "relist" => Lists(q)

Kept ==
  /\ Typed /\ Numbered /\ Held /\ Fresh /\ Bare /\ Listed
  /\ AskedIsKept /\ WeightsFitPreset

LEMMA KeptInit == Init => Kept
<1> SUFFICES ASSUME Init PROVE Kept
  OBVIOUS
<1>1. Typed
  BY TypedInit
<1>2. Linked = {}
  BY DEF Init, Linked
<1>3. Numbered /\ Held /\ Fresh /\ Bare /\ Listed
  BY <1>2 DEF Init, Numbered, Held, Fresh, Bare, Listed, Holding
<1>4. AskedIsKept /\ WeightsFitPreset
  BY DEF Init, AskedIsKept, WeightsFitPreset, NoRoute
<1> QED BY <1>1, <1>3, <1>4 DEF Kept

\* A step is its caller's alone: the others keep what they hold, and one that
\* is under way is overtaken by whatever changes the row or its links.
LEMMA OthersStay ==
  ASSUME Typed, NEW p \in Callers, Step(p), NEW q \in Callers, q # p
  PROVE  /\ pc'[q] = pc[q] /\ op'[q] = op[q]
         /\ copy'[q] = copy[q] /\ pool'[q] = pool[q]
         /\ q \in moved => q \in moved'
         /\ q \notin moved' /\ pc[q] # "idle" => UNCHANGED <<row, links>>
<1> USE DEF Goto, Return, Changes, Stores, Leaves, local, Busy, Typed, Places, Rows,
            Pooled
<1>1. CASE Begin(p)
  BY <1>1 DEF Begin
<1>2. CASE CacheGet(p)
  BY <1>2 DEF CacheGet
<1>3. CASE Select(p)
  BY <1>3 DEF Select
<1>4. CASE Fill(p)
  BY <1>4 DEF Fill
<1>5. CASE Read(p)
  BY <1>5 DEF Read
<1>6. CASE Refuse(p)
  BY <1>6 DEF Refuse
<1>7. CASE CreateRoute(p)
  BY <1>7 DEF CreateRoute
<1>8. CASE UpdateRoute(p)
  BY <1>8 DEF UpdateRoute
<1>9. CASE Set(p)
  BY <1>9 DEF Set, AfterSet
<1>10. CASE Answer(p)
  BY <1>10 DEF Answer
<1>11. CASE ReplaceRouteAccounts(p)
  BY <1>11 DEF ReplaceRouteAccounts
<1>12. CASE AttachNext(p)
  BY <1>12 DEF AttachNext
<1>13. CASE ListRoutePool(p)
  BY <1>13 DEF ListRoutePool
<1>14. CASE Reweigh(p)
  BY <1>14 DEF Reweigh
<1>15. CASE AttachAccount(p)
  BY <1>15 DEF AttachAccount, LinkOne
<1>16. CASE DetachRouteAccount(p)
  BY <1>16 DEF DetachRouteAccount
<1>17. CASE DeleteRoute(p)
  BY <1>17 DEF DeleteRoute
<1>18. CASE Evict(p)
  BY <1>18 DEF Evict
<1> QED
  BY <1>1, <1>2, <1>3, <1>4, <1>5, <1>6, <1>7, <1>8, <1>9, <1>10, <1>11,
     <1>12, <1>13, <1>14, <1>15, <1>16, <1>17, <1>18 DEF Step

\* Every route there is has a number, and so does every copy a caller may
\* write by.
LEMMA NumberedStep ==
  ASSUME Kept, NEW p \in Callers, Step(p)
  PROVE  Numbered'
<1>0. /\ NoRoute.id = 0 /\ created \in Nat
      /\ copy[p] \in RouteRows /\ row \in RouteRows
      /\ Places /\ Numbered /\ copy \in [Callers -> RouteRows]
  BY RoutesAssumption DEF Kept, Typed, Rows, NoRoute
<1>o. ASSUME NEW q \in Callers, q # p, Holding(q)' PROVE copy'[q].id # 0
  <2>1. pc'[q] = pc[q] /\ op'[q] = op[q] /\ copy'[q] = copy[q]
    BY <1>o, OthersStay DEF Kept
  <2> QED BY <1>o, <2>1, <1>0 DEF Numbered, Holding
<1>s. SUFFICES /\ row' # NoRoute => row'.id # 0
               /\ cached' # NoRoute => cached'.id # 0
               /\ Holding(p)' => copy'[p].id # 0
  BY <1>o DEF Numbered
<1> USE <1>0 DEF Places, Numbered, Holding, Goto, Return, local
<1>1. CASE Begin(p)
  BY <1>1 DEF Begin
<1>2. CASE CacheGet(p)
  BY <1>2 DEF CacheGet
<1>3. CASE Select(p)
  BY <1>3 DEF Select
<1>4. CASE Fill(p)
  BY <1>4 DEF Fill
<1>5. CASE Read(p)
  BY <1>5 DEF Read
<1>6. CASE Refuse(p)
  BY <1>6 DEF Refuse
<1>7. CASE CreateRoute(p)
  <2>1. row'.id = created + 1
    BY <1>7 DEF CreateRoute
  <2>2. row'.id # 0 /\ copy'[p] = row' /\ UNCHANGED cached
    BY <1>7, <2>1 DEF CreateRoute
  <2> QED BY <2>2
<1>8. CASE UpdateRoute(p)
  <2>1. row'.id = row.id /\ row # NoRoute
    BY <1>8 DEF UpdateRoute, RouteRows
  <2>2. row'.id # 0 /\ copy'[p] = row' /\ UNCHANGED cached
    BY <1>8, <2>1 DEF UpdateRoute
  <2> QED BY <2>2
<1>9. CASE Set(p)
  BY <1>9 DEF Set, AfterSet
<1>10. CASE Answer(p)
  BY <1>10 DEF Answer
<1>11. CASE ReplaceRouteAccounts(p)
  BY <1>11 DEF ReplaceRouteAccounts
<1>12. CASE AttachNext(p)
  BY <1>12 DEF AttachNext
<1>13. CASE ListRoutePool(p)
  BY <1>13 DEF ListRoutePool
<1>14. CASE Reweigh(p)
  BY <1>14 DEF Reweigh
<1>15. CASE AttachAccount(p)
  BY <1>15 DEF AttachAccount, LinkOne
<1>16. CASE DetachRouteAccount(p)
  BY <1>16 DEF DetachRouteAccount
<1>17. CASE DeleteRoute(p)
  BY <1>17 DEF DeleteRoute
<1>18. CASE Evict(p)
  BY <1>18 DEF Evict
<1> QED
  BY <1>1, <1>2, <1>3, <1>4, <1>5, <1>6, <1>7, <1>8, <1>9, <1>10, <1>11,
     <1>12, <1>13, <1>14, <1>15, <1>16, <1>17, <1>18 DEF Step

\* The copy of a caller that nobody has overtaken is the row.
LEMMA HeldStep ==
  ASSUME Kept, ~raced, NEW p \in Callers, Step(p)
  PROVE  Held'
<1>0. Places /\ copy \in [Callers -> RouteRows] /\ Held /\ Fresh /\ ~raced
  BY DEF Kept, Typed, Rows
<1>s. SUFFICES ASSUME ~raced', NEW q \in Callers, q \notin moved', Holding(q)'
      PROVE  copy'[q] = row'
  BY DEF Held
<1>o. CASE q # p
  <2>1. /\ pc'[q] = pc[q] /\ op'[q] = op[q] /\ copy'[q] = copy[q] /\ q \notin moved
        /\ pc[q] # "idle" => row' = row
    BY <1>s, <1>o, OthersStay DEF Kept
  <2> QED BY <2>1, <1>0, <1>s DEF Held, Holding
<1>p. SUFFICES ASSUME q = p PROVE copy'[p] = row'
  BY <1>o
<1> USE <1>0, <1>s, <1>p DEF Places, Held, Holding, Goto, Return, Changes, Stores, Leaves,
                             local
<1>1. CASE Begin(p)
  BY <1>1 DEF Begin
<1>2. CASE CacheGet(p)
  BY <1>2 DEF CacheGet, Fresh
<1>3. CASE Select(p)
  BY <1>3 DEF Select
<1>4. CASE Fill(p)
  BY <1>4 DEF Fill
<1>5. CASE Read(p)
  BY <1>5 DEF Read
<1>6. CASE Refuse(p)
  BY <1>6 DEF Refuse
<1>7. CASE CreateRoute(p)
  BY <1>7 DEF CreateRoute
<1>8. CASE UpdateRoute(p)
  BY <1>8 DEF UpdateRoute
<1>9. CASE Set(p)
  BY <1>9 DEF Set, AfterSet
<1>10. CASE Answer(p)
  BY <1>10 DEF Answer
<1>11. CASE ReplaceRouteAccounts(p)
  BY <1>11 DEF ReplaceRouteAccounts
<1>12. CASE AttachNext(p)
  BY <1>12 DEF AttachNext
<1>13. CASE ListRoutePool(p)
  BY <1>13 DEF ListRoutePool
<1>14. CASE Reweigh(p)
  BY <1>14 DEF Reweigh
<1>15. CASE AttachAccount(p)
  BY <1>15 DEF AttachAccount, LinkOne
<1>16. CASE DetachRouteAccount(p)
  BY <1>16 DEF DetachRouteAccount
<1>17. CASE DeleteRoute(p)
  BY <1>17 DEF DeleteRoute
<1>18. CASE Evict(p)
  BY <1>18 DEF Evict
<1> QED
  BY <1>1, <1>2, <1>3, <1>4, <1>5, <1>6, <1>7, <1>8, <1>9, <1>10, <1>11,
     <1>12, <1>13, <1>14, <1>15, <1>16, <1>17, <1>18 DEF Step

\* The cache is the row, or empty, or a writer is about to settle it.
LEMMA FreshStep ==
  ASSUME Kept, ~raced, NEW p \in Callers, Step(p)
  PROVE  Fresh'
<1>0. Places /\ copy \in [Callers -> RouteRows] /\ Held /\ Fresh /\ ~raced
  BY DEF Kept, Typed, Rows
<1>s. SUFFICES ASSUME ~raced' PROVE cached' \in {NoRoute, row'} \/ Settling' # {}
  BY DEF Fresh
<1>o. ASSUME pc[p] \notin {"set", "evict"} PROVE Settling \subseteq Settling'
  <2> SUFFICES ASSUME NEW q \in Settling PROVE q \in Settling'
    OBVIOUS
  <2>1. q \in Callers /\ q # p /\ pc[q] \in {"set", "evict"}
    BY <1>o DEF Settling
  <2>2. pc'[q] = pc[q]
    BY <2>1, OthersStay DEF Kept
  <2> QED BY <2>1, <2>2 DEF Settling
<1>w. pc'[p] \in {"set", "evict"} => Settling' # {}
  BY DEF Settling
<1>q. ASSUME pc[p] \notin {"set", "evict"}, UNCHANGED row, cached' \in {cached, NoRoute}
      PROVE  cached' \in {NoRoute, row'} \/ Settling' # {}
  BY <1>0, <1>o, <1>q DEF Fresh
<1> USE <1>0, <1>s, <1>w, <1>q DEF Places, Goto, Return, Stores
<1>1. CASE Begin(p)
  BY <1>1 DEF Begin
<1>2. CASE CacheGet(p)
  BY <1>2 DEF CacheGet
<1>3. CASE Select(p)
  BY <1>3 DEF Select
<1>4. CASE Fill(p)
  BY <1>4 DEF Fill, Held, Holding
<1>5. CASE Read(p)
  BY <1>5 DEF Read
<1>6. CASE Refuse(p)
  BY <1>6 DEF Refuse
<1>7. CASE CreateRoute(p)
  BY <1>7 DEF CreateRoute
<1>8. CASE UpdateRoute(p)
  BY <1>8 DEF UpdateRoute
<1>9. CASE Set(p)
  BY <1>9 DEF Set, AfterSet, Held, Holding
<1>10. CASE Answer(p)
  BY <1>10 DEF Answer
<1>11. CASE ReplaceRouteAccounts(p)
  BY <1>11 DEF ReplaceRouteAccounts
<1>12. CASE AttachNext(p)
  BY <1>12 DEF AttachNext
<1>13. CASE ListRoutePool(p)
  BY <1>13 DEF ListRoutePool
<1>14. CASE Reweigh(p)
  BY <1>14 DEF Reweigh
<1>15. CASE AttachAccount(p)
  BY <1>15 DEF AttachAccount, LinkOne
<1>16. CASE DetachRouteAccount(p)
  BY <1>16 DEF DetachRouteAccount
<1>17. CASE DeleteRoute(p)
  BY <1>17 DEF DeleteRoute
<1>18. CASE Evict(p)
  BY <1>18 DEF Evict
<1> QED
  BY <1>1, <1>2, <1>3, <1>4, <1>5, <1>6, <1>7, <1>8, <1>9, <1>10, <1>11,
     <1>12, <1>13, <1>14, <1>15, <1>16, <1>17, <1>18 DEF Step

\* A caller that may write the links writes those of the row there is.
LEMMA SameRoute ==
  ASSUME Numbered, NEW p \in Callers, Holding(p), Same(p)
  PROVE  row # NoRoute
  BY DEF Numbered, Same, NoRoute

LEMMA AllUnlinked ==
  ASSUME links' = [a \in Accounts |-> Unlinked]
  PROVE  Linked' = {}
  BY DEF Linked

LEMMA LinksStay ==
  ASSUME UNCHANGED links
  PROVE  Linked' = Linked
  BY DEF Linked

\* A statement that links the accounts of a set, each at a place of its own.
LEMMA LinksReplaced ==
  ASSUME NEW p \in Callers, NEW ids \in SUBSET Accounts,
         NEW place \in [ids -> Positions],
         links' = [a \in Accounts |-> IF a \in ids THEN Weighed(p, place[a]) ELSE Unlinked]
  PROVE  /\ Linked' = ids
         /\ \A a \in ids : /\ links'[a].pos = place[a]
                           /\ links'[a].weight = AttachWeight(copy[p].config, place[a])
<1>1. \A a \in ids : /\ Weighed(p, place[a]) # Unlinked
                     /\ Weighed(p, place[a]).pos = place[a]
                     /\ Weighed(p, place[a]).weight = AttachWeight(copy[p].config, place[a])
  BY WeighedType
<1> QED BY <1>1 DEF Linked

\* A statement that links one account more, or links it anew.
LEMMA LinkAdded ==
  ASSUME Chained, NEW a \in Accounts, NEW link, link # Unlinked,
         links' = [links EXCEPT ![a] = link]
  PROVE  Linked' = Linked \cup {a} /\ links'[a] = link
  BY DEF Chained, Linked

LEMMA LinkRemoved ==
  ASSUME Chained, NEW a \in Accounts, links' = [links EXCEPT ![a] = Unlinked]
  PROVE  Linked' = Linked \ {a}
  BY DEF Chained, Linked

LEMMA BareStep ==
  ASSUME Kept, NEW p \in Callers, Step(p)
  PROVE  Bare'
<1>0. /\ Bare /\ NoRoute.id = 0 /\ row \in RouteRows /\ created \in Nat
      /\ row # NoRoute => row.id # 0
  BY RoutesAssumption DEF Kept, Typed, Rows, NoRoute, Numbered
<1>u. ASSUME UNCHANGED <<row, links>> PROVE Bare'
  BY <1>0, <1>u, LinksStay DEF Bare
<1>w. ASSUME UNCHANGED row, Same(p), Holding(p) PROVE Bare'
  BY <1>w, SameRoute DEF Kept, Bare
<1> USE <1>u, <1>w DEF Return, Goto, local, Holding
<1>1. CASE Begin(p)
  BY <1>1 DEF Begin
<1>2. CASE CacheGet(p)
  BY <1>2 DEF CacheGet
<1>3. CASE Select(p)
  BY <1>3 DEF Select
<1>4. CASE Fill(p)
  BY <1>4 DEF Fill
<1>5. CASE Read(p)
  BY <1>5 DEF Read
<1>6. CASE Refuse(p)
  BY <1>6 DEF Refuse
<1>7. CASE CreateRoute(p)
  <2>1. row'.id = created + 1
    BY <1>7 DEF CreateRoute
  <2> QED BY <1>0, <2>1 DEF Bare
<1>8. CASE UpdateRoute(p)
  <2>1. row'.id # 0
    BY <1>0, <1>8 DEF UpdateRoute, RouteRows
  <2> QED BY <1>0, <2>1 DEF Bare
<1>9. CASE Set(p)
  BY <1>9 DEF Set, AfterSet
<1>10. CASE Answer(p)
  BY <1>10 DEF Answer
<1>11. CASE ReplaceRouteAccounts(p)
  BY <1>11 DEF ReplaceRouteAccounts
<1>12. CASE AttachNext(p)
  BY <1>12 DEF AttachNext
<1>13. CASE ListRoutePool(p)
  BY <1>13 DEF ListRoutePool
<1>14. CASE Reweigh(p)
  BY <1>14, LinksStay, <1>0 DEF Reweigh
<1>15. CASE AttachAccount(p)
  BY <1>15 DEF AttachAccount, LinkOne
<1>16. CASE DetachRouteAccount(p)
  BY <1>16 DEF DetachRouteAccount
<1>17. CASE DeleteRoute(p)
  BY <1>17, AllUnlinked DEF DeleteRoute, Bare
<1>18. CASE Evict(p)
  BY <1>18 DEF Evict
<1> QED
  BY <1>1, <1>2, <1>3, <1>4, <1>5, <1>6, <1>7, <1>8, <1>9, <1>10, <1>11,
     <1>12, <1>13, <1>14, <1>15, <1>16, <1>17, <1>18 DEF Step

\* What a caller has listed, and nobody has overtaken, are the row's links.
LEMMA ListedStep ==
  ASSUME Kept, ~raced, NEW p \in Callers, Step(p)
  PROVE  Listed'
<1>0. Typed /\ Places /\ Pooled /\ Chained /\ Held /\ Listed
  BY DEF Kept, Typed
<1>s. SUFFICES ASSUME ~raced', NEW q \in Callers, q \notin moved', pc'[q] = "relist"
      PROVE  Lists(q)'
  BY DEF Listed
<1>o. CASE q # p
  <2>1. pc[q] = "relist" /\ q \notin moved /\ pool'[q] = pool[q] /\ UNCHANGED links
    BY <1>s, <1>o, OthersStay, <1>0
  <2>2. Lists(q)
    BY <1>0, <1>s, <2>1 DEF Listed, Kept
  <2> QED BY <2>1, <2>2, LinksStay DEF Lists
<1>p. SUFFICES ASSUME q = p PROVE Lists(p)'
  BY <1>o
<1> USE <1>0, <1>s, <1>p DEF Places, Goto, Return, local
<1>1. CASE Begin(p)
  BY <1>1 DEF Begin
<1>2. CASE CacheGet(p)
  BY <1>2 DEF CacheGet
<1>3. CASE Select(p)
  BY <1>3 DEF Select
<1>4. CASE Fill(p)
  BY <1>4 DEF Fill
<1>5. CASE Read(p)
  BY <1>5 DEF Read
<1>6. CASE Refuse(p)
  BY <1>6 DEF Refuse
<1>7. CASE CreateRoute(p)
  BY <1>7 DEF CreateRoute
<1>8. CASE UpdateRoute(p)
  BY <1>8 DEF UpdateRoute
<1>9. CASE Set(p)
  BY <1>9 DEF Set, AfterSet, AfterSet
<1>10. CASE Answer(p)
  BY <1>10 DEF Answer
<1>11. CASE ReplaceRouteAccounts(p)
  BY <1>11 DEF ReplaceRouteAccounts
<1>12. CASE AttachNext(p)
  BY <1>12 DEF AttachNext
<1>13. CASE ListRoutePool(p)
  <2>1. /\ pc[p] = "list" /\ p \notin moved /\ UNCHANGED links
        /\ pool' = [pool EXCEPT ![p] = IF Same(p) THEN {<<a, Rank(a)>> : a \in Linked} ELSE {}]
    BY <1>13 DEF ListRoutePool, Leaves
  <2>2. Same(p)
    BY <2>1 DEF Held, Holding, Same, Kept
  <2>3. pool'[p] = {<<a, Rank(a)>> : a \in Linked}
    BY <2>1, <2>2 DEF Pooled
  <2>4. \A a \in Linked : a \in Accounts /\ Rank(a) \in Positions
    BY RankType DEF Linked
  <2>5. \A a \in Accounts :
          a \in Linked <=> \E pos \in Positions : <<a, pos>> \in pool'[p]
    BY <2>3, <2>4
  <2> QED BY <2>1, <2>5, LinksStay DEF Lists
<1>14. CASE Reweigh(p)
  BY <1>14 DEF Reweigh
<1>15. CASE AttachAccount(p)
  BY <1>15 DEF AttachAccount, LinkOne
<1>16. CASE DetachRouteAccount(p)
  BY <1>16 DEF DetachRouteAccount
<1>17. CASE DeleteRoute(p)
  BY <1>17 DEF DeleteRoute
<1>18. CASE Evict(p)
  BY <1>18 DEF Evict
<1> QED
  BY <1>1, <1>2, <1>3, <1>4, <1>5, <1>6, <1>7, <1>8, <1>9, <1>10, <1>11,
     <1>12, <1>13, <1>14, <1>15, <1>16, <1>17, <1>18 DEF Step

\* A call changes what it asked for and writes back the rest.
LEMMA AskedStep ==
  ASSUME Kept, ~raced, NEW p \in Callers, Step(p)
  PROVE  AskedIsKept'
<1>0. /\ Typed /\ Rows /\ Places /\ Pooled /\ Chained /\ Past /\ Held /\ Listed /\ Bare
      /\ AskedIsKept /\ Numbered
  BY DEF Kept, Typed
<1>s. SUFFICES ASSUME row' # NoRoute, ~raced'
      PROVE  /\ row'.strategy = asked'.strategy /\ row'.config = asked'.config
             /\ row'.model = asked'.model
             /\ Linked' = asked'.linked
  BY DEF AskedIsKept
<1>1a. ASSUME row # NoRoute
       PROVE  /\ row.strategy = asked.strategy /\ row.config = asked.config
              /\ row.model = asked.model
              /\ Linked = asked.linked
  BY <1>1a, <1>0 DEF AskedIsKept, Kept
<1>h. ASSUME Changes(p) PROVE p \notin moved
  BY <1>s, <1>h DEF Changes
<1>r. ASSUME p \notin moved, Holding(p) PROVE copy[p] = row
  BY <1>0, <1>r DEF Held, Kept
<1>l. asked.linked \in SUBSET Accounts
  BY <1>0 DEF Past, Wishes
<1>u. ASSUME UNCHANGED <<row, links, asked>>
      PROVE  /\ row'.strategy = asked'.strategy /\ row'.config = asked'.config
             /\ row'.model = asked'.model
             /\ Linked' = asked'.linked
  BY <1>s, <1>u, <1>1a, LinksStay
<1>w. ASSUME UNCHANGED row, NEW ids, asked' = [asked EXCEPT !.linked = ids],
             Linked' = ids, row # NoRoute
      PROVE  /\ row'.strategy = asked'.strategy /\ row'.config = asked'.config
             /\ row'.model = asked'.model
             /\ Linked' = asked'.linked
  BY <1>w, <1>1a, <1>0 DEF Past, Wishes
<1> USE <1>u DEF Goto, Return, local
<1>1. CASE Begin(p)
  BY <1>1 DEF Begin
<1>2. CASE CacheGet(p)
  BY <1>2 DEF CacheGet
<1>3. CASE Select(p)
  BY <1>3 DEF Select
<1>4. CASE Fill(p)
  BY <1>4 DEF Fill
<1>5. CASE Read(p)
  BY <1>5 DEF Read
<1>6. CASE Refuse(p)
  BY <1>6 DEF Refuse
<1>7. CASE CreateRoute(p)
  <2>1. /\ Linked = {} /\ UNCHANGED links
        /\ row'.strategy = asked'.strategy /\ row'.config = asked'.config
        /\ row'.model = asked'.model /\ asked'.linked = {}
    BY <1>7, <1>0 DEF CreateRoute, Bare
  <2> QED BY <2>1, LinksStay
<1>8. CASE UpdateRoute(p)
  <2>1. PICK o \in {"update", "preset"}, strategy \in Strategies \cup {Unnamed},
            config \in Configs \cup {Unnamed}, model \in Models \cup {NoModel, Unnamed} :
          Writes(p, o, strategy, config, model)
    BY <1>8, UpdateWrites
  <2>2. row # NoRoute /\ UNCHANGED links /\ copy[p] = row
    BY <1>8, <1>h, <1>r DEF UpdateRoute, Holding
  <2>3. /\ row'.strategy = Or(strategy, row.strategy)
        /\ row'.config = Or(config, row.config)
        /\ row'.model = Or(model, row.model)
    BY <2>1, <2>2, <1>0 DEF Writes, Rows, RouteRows
  <2>4. /\ asked'.strategy = Or(strategy, asked.strategy)
        /\ asked'.config = Or(config, asked.config)
        /\ asked'.model = Or(model, asked.model)
        /\ asked'.linked = asked.linked
    BY <2>1, <1>0 DEF Writes, Past, Wishes
  <2> QED BY <2>2, <2>3, <2>4, <1>1a, LinksStay
<1>9. CASE Set(p)
  BY <1>9 DEF Set, AfterSet, AfterSet
<1>10. CASE Answer(p)
  BY <1>10 DEF Answer
<1>11. CASE ReplaceRouteAccounts(p)
  <2>1. PICK ids \in SUBSET Accounts : \E order \in [ids -> 0..Cardinality(ids) - 1] :
          /\ links' = [a \in Accounts |->
                         IF a \in ids THEN Weighed(p, order[a]) ELSE Unlinked]
          /\ asked' = [asked EXCEPT !.linked = ids]
    BY <1>11 DEF ReplaceRouteAccounts
  <2>2. 0..Cardinality(ids) - 1 \subseteq Positions
    BY AccountsFinite DEF Positions
  <2>3. Linked' = ids
    BY <2>1, <2>2, LinksReplaced
  <2>4. row # NoRoute /\ UNCHANGED row
    BY <1>11, SameRoute, <1>0 DEF ReplaceRouteAccounts, Holding
  <2> QED BY <2>1, <2>3, <2>4, <1>w
<1>12. CASE AttachNext(p)
  <2>1. CASE UNCHANGED <<links, asked>>
    BY <1>12, <2>1 DEF AttachNext
  <2>2. CASE ~UNCHANGED <<links, asked>>
    <3>1. PICK a \in Accounts :
            /\ \A link \in pool[p] : link[1] # a
            /\ Same(p)
            /\ links' = [links EXCEPT ![a] = Weighed(p, Cardinality(pool[p]))]
            /\ asked' = [asked EXCEPT !.linked = @ \cup {a}]
      BY <1>12, <2>2 DEF AttachNext
    <3>2. /\ IsFiniteSet(pool[p]) /\ Cardinality(pool[p]) = Cardinality(Named(pool[p]))
          /\ pool[p] \in SUBSET (Accounts \X Nat)
      BY <1>12, <1>0 DEF AttachNext, Typed, PoolShape, Pooled
    <3>3. Weighed(p, Cardinality(pool[p])) # Unlinked
      BY <3>1, <3>2, NamedGrows, WeighedType
    <3>4. Linked' = Linked \cup {a}
      BY <1>0, <3>1, <3>3, LinkAdded
    <3>5. row # NoRoute /\ UNCHANGED row
      BY <1>12, <3>1, SameRoute, <1>0 DEF AttachNext, Holding
    <3>6. asked' = [asked EXCEPT !.linked = Linked \cup {a}]
      BY <3>1, <3>5, <1>1a
    <3> QED BY <3>4, <3>5, <3>6, <1>w
  <2> QED BY <2>1, <2>2
<1>13. CASE ListRoutePool(p)
  BY <1>13 DEF ListRoutePool
<1>14. CASE Reweigh(p)
  <2>1. CASE UNCHANGED links
    BY <1>14, <2>1 DEF Reweigh
  <2>2. CASE ~UNCHANGED links
    <3>1. /\ pc[p] = "relist" /\ p \notin moved
          /\ UNCHANGED <<row, asked>>
          /\ links' = [a \in Accounts |->
               IF \E pos \in Positions : <<a, pos>> \in pool[p]
               THEN Weighed(p, CHOOSE pos \in Positions : <<a, pos>> \in pool[p])
               ELSE Unlinked]
      BY <1>14, <2>2, <1>h DEF Reweigh
    <3>2. Lists(p)
      BY <3>1, <1>0 DEF Listed, Kept
    <3> DEFINE place == [a \in Linked |-> CHOOSE pos \in Positions : <<a, pos>> \in pool[p]]
    <3>3. Linked \in SUBSET Accounts /\ place \in [Linked -> Positions]
      BY <3>2 DEF Linked, Lists
    <3>4. links' = [a \in Accounts |-> IF a \in Linked THEN Weighed(p, place[a]) ELSE Unlinked]
      BY <3>1, <3>2 DEF Lists
    <3>5. Linked' = Linked
      <4> HIDE DEF place
      <4> QED BY <3>3, <3>4, LinksReplaced
    <3> QED BY <3>1, <3>5, <1>s, <1>1a
  <2> QED BY <2>1, <2>2
<1>15. CASE AttachAccount(p)
  <2>0. \A pos \in Positions : AttachWeight(copy[p].config, pos) \in Weights
    BY DEF AttachWeight, Weights
  <2>1. PICK a \in Accounts, pos \in Positions, weight \in Weights :
          /\ links' = [links EXCEPT ![a] = [pos |-> pos, weight |-> weight]]
          /\ asked' = [asked EXCEPT !.linked = @ \cup {a}]
    <3>1. PICK a \in Accounts, pos \in Positions :
            \E weight \in {AttachWeight(copy[p].config, pos)}
                \cup (IF PresetFromRoute(copy[p].strategy, copy[p].config) = "prefer-primary"
                          THEN {} ELSE {"given"}) :
              LinkOne(p, a, pos, weight)
      BY <1>15 DEF AttachAccount
    <3>2. PICK weight \in Weights : LinkOne(p, a, pos, weight)
      BY <2>0, <3>1 DEF Weights
    <3> QED BY <3>2 DEF LinkOne
  <2>2. [pos |-> pos, weight |-> weight] # Unlinked
    BY DEF Unlinked, Weights
  <2>3. Linked' = Linked \cup {a}
    BY <1>0, <2>1, <2>2, LinkAdded
  <2>4. row # NoRoute /\ UNCHANGED row
    BY <1>15, SameRoute, <1>0 DEF AttachAccount, LinkOne, Holding
  <2>5. asked' = [asked EXCEPT !.linked = Linked \cup {a}]
    BY <2>1, <2>4, <1>1a
  <2> QED BY <2>3, <2>4, <2>5, <1>w
<1>16. CASE DetachRouteAccount(p)
  <2>1. PICK a \in Linked :
          /\ links' = [links EXCEPT ![a] = Unlinked]
          /\ asked' = [asked EXCEPT !.linked = @ \ {a}]
    BY <1>16 DEF DetachRouteAccount
  <2>2. Linked' = Linked \ {a}
    BY <1>0, <2>1, LinkRemoved DEF Linked
  <2>3. row # NoRoute /\ UNCHANGED row
    BY <1>16, SameRoute, <1>0 DEF DetachRouteAccount, Holding
  <2>4. asked' = [asked EXCEPT !.linked = Linked \ {a}]
    BY <2>1, <2>3, <1>1a
  <2> QED BY <2>2, <2>3, <2>4, <1>w
<1>17. CASE DeleteRoute(p)
  BY <1>17, <1>s DEF DeleteRoute
<1>18. CASE Evict(p)
  BY <1>18 DEF Evict
<1> QED
  BY <1>1, <1>2, <1>3, <1>4, <1>5, <1>6, <1>7, <1>8, <1>9, <1>10, <1>11,
     <1>12, <1>13, <1>14, <1>15, <1>16, <1>17, <1>18 DEF Step

\* The links a call writes have the weights of the preset it has read.
LEMMA WeightsStep ==
  ASSUME Kept, ~raced, NEW p \in Callers, Step(p)
  PROVE  WeightsFitPreset'
<1>0. /\ Typed /\ Rows /\ Places /\ Pooled /\ Chained /\ Held /\ Bare
      /\ WeightsFitPreset
  BY DEF Kept, Typed
<1>s. SUFFICES ASSUME row'.config = "prefer-primary", ~raced', ~unweighed',
                      NEW a \in Linked'
      PROVE  links'[a].weight = AttachWeight(row'.config, links'[a].pos)
  BY DEF WeightsFitPreset
<1>h. ASSUME Changes(p) PROVE p \notin moved
  BY <1>s, <1>h DEF Changes
<1>r. ASSUME p \notin moved, Holding(p) PROVE copy[p] = row
  BY <1>0, <1>r DEF Held, Kept
<1>k. ASSUME UNCHANGED row, UNCHANGED unweighed, a \in Linked, links'[a] = links[a]
      PROVE  links'[a].weight = AttachWeight(row'.config, links'[a].pos)
  BY <1>s, <1>k, <1>0 DEF WeightsFitPreset, Kept
<1>u. ASSUME UNCHANGED row, UNCHANGED unweighed, UNCHANGED links
      PROVE  links'[a].weight = AttachWeight(row'.config, links'[a].pos)
  BY <1>s, <1>u, <1>k, LinksStay
<1>w. ASSUME UNCHANGED row, copy[p] = row, NEW pos,
             links'[a].pos = pos, links'[a].weight = AttachWeight(copy[p].config, pos)
      PROVE  links'[a].weight = AttachWeight(row'.config, links'[a].pos)
  BY <1>w
<1> USE <1>u DEF Goto, Return, local
<1>1. CASE Begin(p)
  BY <1>1 DEF Begin
<1>2. CASE CacheGet(p)
  BY <1>2 DEF CacheGet
<1>3. CASE Select(p)
  BY <1>3 DEF Select
<1>4. CASE Fill(p)
  BY <1>4 DEF Fill
<1>5. CASE Read(p)
  BY <1>5 DEF Read
<1>6. CASE Refuse(p)
  BY <1>6 DEF Refuse
<1>7. CASE CreateRoute(p)
  <2>1. Linked' = {}
    BY <1>7, <1>0, LinksStay DEF CreateRoute, Bare
  <2> QED BY <2>1, <1>s
<1>8. CASE UpdateRoute(p)
  <2>1. ~unweighed /\ row'.config = row.config /\ UNCHANGED links
    BY <1>8, <1>s DEF UpdateRoute
  <2>3. a \in Linked
    BY <2>1, <1>s, LinksStay
  <2> QED BY <2>1, <2>3, <1>0, <1>s DEF WeightsFitPreset, Kept
<1>9. CASE Set(p)
  BY <1>9 DEF Set, AfterSet, AfterSet
<1>10. CASE Answer(p)
  BY <1>10 DEF Answer
<1>11. CASE ReplaceRouteAccounts(p)
  <2>1. PICK ids \in SUBSET Accounts : \E order \in [ids -> 0..Cardinality(ids) - 1] :
          links' = [b \in Accounts |->
                      IF b \in ids THEN Weighed(p, order[b]) ELSE Unlinked]
    BY <1>11 DEF ReplaceRouteAccounts
  <2>2. PICK order \in [ids -> 0..Cardinality(ids) - 1] :
          links' = [b \in Accounts |->
                      IF b \in ids THEN Weighed(p, order[b]) ELSE Unlinked]
    BY <2>1
  <2>3. order \in [ids -> Positions]
    BY AccountsFinite DEF Positions
  <2>4. /\ a \in ids /\ links'[a].pos = order[a]
        /\ links'[a].weight = AttachWeight(copy[p].config, order[a])
    BY <2>2, <2>3, <1>s, LinksReplaced
  <2>5. copy[p] = row /\ UNCHANGED row
    BY <1>11, <1>h, <1>r DEF ReplaceRouteAccounts, Holding
  <2> QED BY <2>4, <2>5, <1>w
<1>12. CASE AttachNext(p)
  <2>1. CASE UNCHANGED links
    BY <1>12, <2>1 DEF AttachNext
  <2>2. CASE ~UNCHANGED links
    <3> DEFINE pos == Cardinality(pool[p])
    <3>1. PICK b \in Accounts :
            /\ \A link \in pool[p] : link[1] # b
            /\ links' = [links EXCEPT ![b] = Weighed(p, pos)]
      BY <1>12, <2>2 DEF AttachNext
    <3>2. /\ IsFiniteSet(pool[p]) /\ Cardinality(pool[p]) = Cardinality(Named(pool[p]))
          /\ pool[p] \in SUBSET (Accounts \X Nat)
      BY <1>12, <1>0 DEF AttachNext, Typed, PoolShape, Pooled
    <3>3. pos \in Positions
      BY <3>1, <3>2, NamedGrows
    <3> HIDE DEF pos
    <3>4. /\ Linked' = Linked \cup {b} /\ links'[b] = Weighed(p, pos)
      BY <1>0, <3>1, <3>3, LinkAdded, WeighedType
    <3>5. copy[p] = row /\ UNCHANGED row
      BY <1>12, <2>2, <1>h, <1>r DEF AttachNext, Holding
    <3>6. CASE a = b
      BY <3>3, <3>4, <3>5, <3>6, <1>w, WeighedType
    <3>7. CASE a # b
      <4>1. a \in Linked /\ links'[a] = links[a]
        BY <3>1, <3>4, <3>7, <1>0, <1>s DEF Chained, Linked
      <4> QED BY <1>12, <3>5, <4>1, <1>k DEF AttachNext
    <3> QED BY <3>6, <3>7
  <2> QED BY <2>1, <2>2
<1>13. CASE ListRoutePool(p)
  BY <1>13 DEF ListRoutePool
<1>14. CASE Reweigh(p)
  <2>1. CASE UNCHANGED <<links, unweighed>>
    BY <1>14, <2>1 DEF Reweigh
  <2>2. CASE ~UNCHANGED <<links, unweighed>>
    <3> DEFINE pos == CHOOSE pos \in Positions : <<a, pos>> \in pool[p]
    <3>1. links' = [b \in Accounts |->
             IF \E n \in Positions : <<b, n>> \in pool[p]
             THEN Weighed(p, CHOOSE n \in Positions : <<b, n>> \in pool[p])
             ELSE Unlinked]
      BY <1>14, <2>2 DEF Reweigh
    <3>2. a \in Accounts /\ links'[a] # Unlinked
      BY <1>s DEF Linked
    <3>3. /\ links'[a] = Weighed(p, pos) /\ pos \in Positions
      BY <3>1, <3>2
    <3>4. copy[p] = row /\ UNCHANGED row
      BY <1>14, <2>2, <1>h, <1>r DEF Reweigh, Holding
    <3> HIDE DEF pos
    <3> QED BY <3>3, <3>4, <1>w, WeighedType
  <2> QED BY <2>1, <2>2
<1>15. CASE AttachAccount(p)
  <2>1. PICK b \in Accounts, pos \in Positions :
          \E weight \in {AttachWeight(copy[p].config, pos)}
              \cup (IF PresetFromRoute(copy[p].strategy, copy[p].config) = "prefer-primary"
                        THEN {} ELSE {"given"}) :
            LinkOne(p, b, pos, weight)
    BY <1>15 DEF AttachAccount
  <2>2. PICK weight \in {AttachWeight(copy[p].config, pos)}
              \cup (IF PresetFromRoute(copy[p].strategy, copy[p].config) = "prefer-primary"
                        THEN {} ELSE {"given"}) :
          LinkOne(p, b, pos, weight)
    BY <2>1
  <2>3. copy[p] = row /\ UNCHANGED row /\ UNCHANGED unweighed
    BY <2>2, <1>h, <1>r DEF LinkOne, Holding
  <2>4. weight = AttachWeight(copy[p].config, pos)
    BY <2>2, <2>3, <1>s DEF PresetFromRoute
  <2> DEFINE link == [pos |-> pos, weight |-> weight]
  <2>5. link # Unlinked /\ links' = [links EXCEPT ![b] = link]
    BY <2>2, <2>4 DEF Unlinked, AttachWeight, LinkOne
  <2>6. link.pos = pos /\ link.weight = weight
    OBVIOUS
  <2> HIDE DEF link
  <2>7. Linked' = Linked \cup {b} /\ links'[b] = link
    BY <1>0, <2>5, LinkAdded
  <2>8. CASE a = b
    BY <2>3, <2>4, <2>6, <2>7, <2>8, <1>w
  <2>9. CASE a # b
    <3>1. a \in Linked /\ links'[a] = links[a]
      BY <2>5, <2>7, <2>9, <1>0, <1>s DEF Chained, Linked
    <3> QED BY <2>3, <3>1, <1>k
  <2> QED BY <2>8, <2>9
<1>16. CASE DetachRouteAccount(p)
  <2>1. PICK b \in Linked : links' = [links EXCEPT ![b] = Unlinked]
    BY <1>16 DEF DetachRouteAccount
  <2>2. Linked' = Linked \ {b}
    BY <1>0, <2>1, LinkRemoved DEF Linked
  <2>3. a \in Linked /\ links'[a] = links[a]
    BY <2>1, <2>2, <1>0, <1>s DEF Chained, Linked
  <2> QED BY <1>16, <2>3, <1>k DEF DetachRouteAccount
<1>17. CASE DeleteRoute(p)
  <2>1. Linked' = {}
    BY <1>17, AllUnlinked DEF DeleteRoute
  <2> QED BY <2>1, <1>s
<1>18. CASE Evict(p)
  BY <1>18 DEF Evict
<1> QED
  BY <1>1, <1>2, <1>3, <1>4, <1>5, <1>6, <1>7, <1>8, <1>9, <1>10, <1>11,
     <1>12, <1>13, <1>14, <1>15, <1>16, <1>17, <1>18 DEF Step

\* An account deleted takes its link along, and overtakes whoever is under way.
LEMMA CascadeStep ==
  ASSUME Kept, NEW a \in Accounts, Cascade(a)
  PROVE  Kept'
<1>0. /\ UNCHANGED <<row, cached, pc, op, copy, pool, raced, unweighed>>
      /\ links' = [links EXCEPT ![a] = Unlinked]
      /\ asked' = [asked EXCEPT !.linked = @ \ {a}] /\ moved' = moved \cup Busy
  BY DEF Cascade, local
<1>1. Typed' /\ Chained /\ Past
  BY TypedNext DEF Kept, Next, Typed
<1>2. Linked' = Linked \ {a}
  BY <1>0, <1>1, LinkRemoved
<1>3. \A b \in Linked' : b \in Linked /\ links'[b] = links[b]
  BY <1>0, <1>1, <1>2 DEF Chained, Linked
<1>4. Numbered' /\ Fresh'
  BY <1>0 DEF Kept, Numbered, Fresh, Holding, Settling
<1>5. Held' /\ Listed'
  BY <1>0 DEF Kept, Held, Listed, Holding, Busy
<1>6. Bare'
  BY <1>0, <1>2 DEF Kept, Bare
<1>7. AskedIsKept'
  BY <1>0, <1>1, <1>2 DEF Kept, AskedIsKept, Past, Wishes
<1>8. WeightsFitPreset'
  BY <1>0, <1>3 DEF Kept, WeightsFitPreset
<1> QED BY <1>1, <1>4, <1>5, <1>6, <1>7, <1>8 DEF Kept

LEMMA ExpireStep ==
  ASSUME Kept, Expire
  PROVE  Kept'
<1>0. /\ UNCHANGED <<row, links, created, pc, op, copy, pool, asked, moved, raced, unweighed>>
      /\ cached' = NoRoute
  BY DEF Expire, local
<1>1. Typed' /\ Linked' = Linked
  BY <1>0, TypedNext, LinksStay DEF Kept, Next
<1>2. Numbered' /\ Held' /\ Fresh' /\ Bare'
  BY <1>0, <1>1 DEF Kept, Numbered, Held, Fresh, Bare, Holding, Settling
<1>3. Listed' /\ AskedIsKept' /\ WeightsFitPreset'
  BY <1>0, <1>1 DEF Kept, Listed, Lists, AskedIsKept, WeightsFitPreset
<1> QED BY <1>1, <1>2, <1>3 DEF Kept

LEMMA KeptNext == Kept /\ [Next]_vars => Kept'
<1> SUFFICES ASSUME Kept, [Next]_vars PROVE Kept'
  OBVIOUS
<1>1. ASSUME ~raced, NEW p \in Callers, Step(p) PROVE Kept'
  <2>1. Typed'
    BY <1>1, TypedNext DEF Kept, Next
  <2>2. Numbered' /\ Held' /\ Fresh' /\ Bare' /\ Listed'
    BY <1>1, NumberedStep, HeldStep, FreshStep, BareStep, ListedStep
  <2>3. AskedIsKept' /\ WeightsFitPreset'
    BY <1>1, AskedStep, WeightsStep
  <2> QED BY <2>1, <2>2, <2>3 DEF Kept
<1>2. ASSUME NEW a \in Accounts, Cascade(a) PROVE Kept'
  BY <1>2, CascadeStep
<1>3. CASE Expire
  BY <1>3, ExpireStep
<1>4. CASE UNCHANGED vars
  <2>1. Typed' /\ Linked' = Linked
    BY <1>4, TypedNext, LinksStay DEF Kept, vars
  <2> QED BY <1>4, <2>1
      DEF vars, Kept, Numbered, Held, Fresh, Bare, Listed, Lists, AskedIsKept,
          WeightsFitPreset, Holding, Settling
<1> QED BY <1>1, <1>2, <1>3, <1>4 DEF Next

LEMMA KeptAlways == Spec => []Kept
  BY KeptInit, KeptNext, PTL DEF Spec

\* What the calls on a slug asked for is what its row and links say, although
\* each handler writes back a route it may have from the cache, unless two
\* calls overlapped.
THEOREM AskedAlwaysKept == Spec => []AskedIsKept
<1>1. Kept => AskedIsKept
  BY DEF Kept
<1> QED BY <1>1, KeptAlways, PTL

\* The links of a route whose config is the prefer-primary preset have its
\* weights, in whatever order accounts and preset were set, unless calls
\* overlapped, or the last change of config was not followed by a reweighing:
\* a bare config, accounts refused, an error that handleUpdateRoute drops.
THEOREM WeightsAlwaysFit == Spec => []WeightsFitPreset
<1>1. Kept => WeightsFitPreset
  BY DEF Kept
<1> QED BY <1>1, KeptAlways, PTL

\* While no writer is about to store or to evict, and no calls have raced,
\* the cache holds the row or nothing.
CacheIsRow == ~raced /\ Settling = {} => cached \in {NoRoute, row}

THEOREM CacheSettles == Spec => []CacheIsRow
<1>1. Kept => CacheIsRow
  BY DEF Kept, Fresh, CacheIsRow
<1> QED BY <1>1, KeptAlways, PTL
=============================================================================

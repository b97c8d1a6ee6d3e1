------------------------------- MODULE Routes -------------------------------
(***************************************************************************)
(* One slug of a project: the route's row, the copy of it every handler    *)
(* takes from a cache or fills into it (store.GetRouteBySlug), and the     *)
(* accounts linked to the row with the weights its config gives them.      *)
(* Every handler reads the route first and writes by what it read.         *)
(***************************************************************************)
EXTENDS Naturals, FiniteSets

CONSTANTS
  Callers,
  Accounts,    \* in the order of their creation
  Models,
  NoModel,
  MaxRoutes    \* bound on the routes created under the slug

\* A config that names a preset, or that names none of those that weigh.
Strategies == {"sequential", "weighted"}
Configs == {"none", "prefer-primary"}
Unnamed == "unnamed"
Positions == 0..Cardinality(Accounts) - 1
Weights == {"one", "primary", "secondary", "given"}
Handlers == {"create", "read", "update", "attach", "detach", "delete"}
Ops == Handlers \cup {"preset"} \* an update whose body names a preset
NoRoute == [id |-> 0, strategy |-> "sequential", config |-> "none", model |-> NoModel]
RouteRows == [id : 0..MaxRoutes, strategy : Strategies, config : Configs,
              model : Models \cup {NoModel}]
Wishes == [strategy : Strategies, config : Configs, model : Models \cup {NoModel},
           linked : SUBSET Accounts]
Nothing == [strategy |-> "sequential", config |-> "none", model |-> NoModel, linked |-> {}]
Unlinked == [pos |-> 0, weight |-> "none"]
Links == [pos : Positions, weight : Weights] \cup {Unlinked}
Locations == {"idle", "get", "select", "fill", "act", "set", "replace", "list",
              "relist", "evict"}

ASSUME RoutesAssumption ==
  /\ Accounts \subseteq Nat /\ IsFiniteSet(Accounts)
  /\ NoModel \notin Models
  /\ MaxRoutes \in Nat

VARIABLES
  row,      \* the row of the slug, NoRoute when there is none
  cached,   \* the copy in the route cache, NoRoute when there is none
  links,    \* route_accounts of the row
  created,
  pc, op,
  copy,     \* the route a caller holds
  pool      \* the links a reweighting has listed

(***************************************************************************)
(* History, read by the properties only.                                   *)
(***************************************************************************)
VARIABLES
  asked,    \* what the calls asked for: strategy, config, model, accounts
  moved,    \* callers under way when another call changed something
  raced,    \* such a caller has stored or written since
  unweighed \* a config was stored and the weights are still as they were

local == <<op, copy, pool>>
vars == <<row, cached, links, created, pc, op, copy, pool, asked, moved, raced,
          unweighed>>

Init ==
  /\ row = NoRoute /\ cached = NoRoute
  /\ links = [a \in Accounts |-> Unlinked]
  /\ created = 0
  /\ pc = [p \in Callers |-> "idle"]
  /\ op = [p \in Callers |-> "read"]
  /\ copy = [p \in Callers |-> NoRoute]
  /\ pool = [p \in Callers |-> {}]
  /\ asked = Nothing
  /\ moved = {} /\ raced = FALSE /\ unweighed = FALSE

Goto(p, from, to) == pc[p] = from /\ pc' = [pc EXCEPT ![p] = to]

Linked == {a \in Accounts : links[a] # Unlinked}
Busy == {q \in Callers : pc[q] # "idle"}
Settling == {q \in Callers : pc[q] \in {"set", "evict"}}

\* A caller whose last step this is forgets what it held.
Return(p, from) ==
  /\ Goto(p, from, "idle")
  /\ op' = [op EXCEPT ![p] = "read"]
  /\ copy' = [copy EXCEPT ![p] = NoRoute]
  /\ pool' = [pool EXCEPT ![p] = {}]

\* A step of p changes the row or its links: the others under way have read
\* what is no more; p itself may be one of them.
Changes(p) ==
  /\ moved' = moved \cup (Busy \ {p})
  /\ raced' = (raced \/ p \in moved)

Stores(p) == UNCHANGED moved /\ raced' = (raced \/ p \in moved)
Leaves == UNCHANGED <<moved, raced>>

-----------------------------------------------------------------------------
(***************************************************************************)
(* store.GetRouteBySlug, the first step of every handler but the creation. *)
(***************************************************************************)

Begin(p) ==
  /\ \E o \in Handlers : op' = [op EXCEPT ![p] = o]
                    /\ Goto(p, "idle", IF o = "create" THEN "act" ELSE "get")
  /\ moved' = moved \ {p}
  /\ UNCHANGED <<row, cached, links, created, copy, pool, asked, raced, unweighed>>

\* A hit is what the cache holds, also while a writer is about to store.
CacheGet(p) ==
  /\ IF cached = NoRoute
     THEN Goto(p, "get", "select") /\ UNCHANGED <<copy, moved>>
     ELSE /\ Goto(p, "get", "act")
          /\ copy' = [copy EXCEPT ![p] = cached]
          /\ moved' = IF Settling = {} THEN moved ELSE moved \cup {p}
  /\ UNCHANGED <<row, cached, links, created, op, pool, asked, raced, unweighed>>

Select(p) ==
  /\ \/ /\ row # NoRoute /\ Goto(p, "select", "fill")
        /\ copy' = [copy EXCEPT ![p] = row]
        /\ UNCHANGED <<op, pool>>
     \/ Return(p, "select") \* no such route, or the query fails
  /\ Leaves
  /\ UNCHANGED <<row, cached, links, created, asked, unweighed>>

Fill(p) ==
  /\ Goto(p, "fill", "act")
  /\ cached' = copy[p]
  /\ Stores(p)
  /\ UNCHANGED <<row, links, created, local, asked, unweighed>>

\* Cache.Get drops an entry whose TTL has passed; a restart drops all.
Expire ==
  /\ cached # NoRoute
  /\ cached' = NoRoute
  /\ UNCHANGED <<row, links, created, pc, local, asked, moved, raced, unweighed>>

Read(p) ==
  /\ op[p] = "read" /\ Return(p, "act")
  /\ Leaves
  /\ UNCHANGED <<row, cached, links, created, asked, unweighed>>

\* The body is refused, or the handler's first statement fails.
Refuse(p) ==
  /\ op[p] # "read" /\ Return(p, "act")
  /\ Leaves
  /\ UNCHANGED <<row, cached, links, created, asked, unweighed>>

-----------------------------------------------------------------------------
(***************************************************************************)
(* handleCreateRoute, handleUpdateRoute and their console twins.           *)
(***************************************************************************)

ApplyPreset(preset) ==
  IF preset = "prefer-primary" THEN <<"weighted", "prefer-primary">> ELSE <<"sequential", "none">>

\* A strategy alone makes a route report the preset, but gives no weights.
PresetFromRoute(strategy, config) ==
  IF config # "none" THEN config
  ELSE IF strategy = "weighted" THEN "prefer-primary" ELSE "failover"

AttachWeight(config, pos) ==
  IF config # "prefer-primary" THEN "one"
  ELSE IF pos = 0 THEN "primary" ELSE "secondary"

\* CreateRoute; the slug is unique in the project.  A preset gives the strategy
\* and, unless the body has a config of its own, the config; without a preset
\* both are the body's.
CreateRoute(p) ==
  /\ op[p] = "create" /\ Goto(p, "act", "set")
  /\ row = NoRoute /\ created < MaxRoutes
  /\ \E strategy \in Strategies, config \in Configs, model \in Models \cup {NoModel} :
       /\ row' = [id |-> created + 1, strategy |-> strategy, config |-> config,
                  model |-> model]
       /\ asked' = [strategy |-> strategy, config |-> config, model |-> model,
                    linked |-> {}]
  /\ copy' = [copy EXCEPT ![p] = row']
  /\ created' = created + 1
  /\ Changes(p)
  /\ UNCHANGED <<cached, links, op, pool, unweighed>>

Or(named, kept) == IF named = Unnamed THEN kept ELSE named

\* What a body names replaces what the handler read, the rest is written back.
\* A preset names strategy and config; without one either may come bare.
UpdateRoute(p) ==
  /\ op[p] = "update" /\ Goto(p, "act", "set")
  /\ row # NoRoute
  /\ \E o \in {"update", "preset"}, strategy \in Strategies \cup {Unnamed},
        config \in Configs \cup {Unnamed}, model \in Models \cup {NoModel, Unnamed} :
       /\ o = "preset" => \E name \in {"failover", "prefer-primary"} :
                            <<strategy, config>> = ApplyPreset(name)
       /\ row' = [row EXCEPT !.strategy = Or(strategy, copy[p].strategy),
                             !.config = Or(config, copy[p].config),
                             !.model = Or(model, copy[p].model)]
       /\ asked' = [asked EXCEPT !.strategy = Or(strategy, @), !.config = Or(config, @),
                                 !.model = Or(model, @)]
       /\ op' = [op EXCEPT ![p] = o]
  /\ copy' = [copy EXCEPT ![p] = row']
  /\ unweighed' = (unweighed \/ row'.config # row.config)
  /\ Changes(p)
  /\ UNCHANGED <<cached, links, created, pool>>

AfterSet(p) ==
  \/ op[p] # "delete" /\ Goto(p, "set", "replace")
  \/ op[p] = "preset" /\ Goto(p, "set", "list")

SetSkipped(p) ==
  /\ AfterSet(p) /\ Stores(p)
  /\ UNCHANGED <<row, cached, links, created, local, asked, unweighed>>

\* The row the statement returned goes to the cache.  A body with accounts
\* goes on to link them, one with a preset to reweigh those there are.
Set(p) ==
  /\ AfterSet(p) /\ Stores(p)
  /\ cached' = copy[p]
  /\ UNCHANGED <<row, links, created, local, asked, unweighed>>

\* Nothing more was asked, an account named is not the project's, or the links
\* cannot be listed: the error is dropped.
Answer(p) ==
  /\ pc[p] \in {"replace", "list"} /\ Return(p, pc[p])
  /\ Leaves
  /\ UNCHANGED <<row, cached, links, created, asked, unweighed>>

Same(p) == row.id = copy[p].id
Weighed(p, pos) == [pos |-> pos, weight |-> AttachWeight(copy[p].config, pos)]

\* ReplaceRouteAccounts, in one transaction; the foreign key refuses links of
\* a route that is gone.
ReplaceRouteAccounts(p) ==
  /\ op[p] \in {"update", "preset"} /\ Return(p, "replace")
  /\ Same(p)
  /\ \E ids \in SUBSET Accounts : \E order \in [ids -> 0..Cardinality(ids) - 1] :
       /\ \A a, b \in ids : order[a] = order[b] => a = b
       /\ links' = [a \in Accounts |-> IF a \in ids THEN Weighed(p, order[a]) ELSE Unlinked]
       /\ asked' = [asked EXCEPT !.linked = ids]
  /\ unweighed' = FALSE
  /\ Changes(p)
  /\ UNCHANGED <<row, cached, created>>

\* The console's creation attaches the accounts one by one and ignores the
\* ones it cannot.
AttachNext(p) ==
  /\ op[p] = "create" /\ pc[p] = "replace" /\ UNCHANGED pc
  /\ \E a \in Accounts :
       /\ \A link \in pool[p] : link[1] # a
       /\ pool' = [pool EXCEPT ![p] = @ \cup {<<a, Cardinality(@)>>}]
       /\ \/ /\ Same(p)
             /\ links' = [links EXCEPT ![a] = Weighed(p, Cardinality(pool[p]))]
             /\ asked' = [asked EXCEPT !.linked = @ \cup {a}]
             /\ Changes(p)
          \/ UNCHANGED <<links, asked>> /\ Leaves
  /\ UNCHANGED <<row, cached, created, op, copy, unweighed>>

\* reweightRouteAccounts: ListRoutePool orders by position, then creation.
Rank(a) == Cardinality({b \in Linked : \/ links[b].pos < links[a].pos
                                       \/ links[b].pos = links[a].pos /\ b < a})

ListRoutePool(p) ==
  /\ Goto(p, "list", "relist")
  /\ pool' = [pool EXCEPT ![p] = IF Same(p) THEN {<<a, Rank(a)>> : a \in Linked} ELSE {}]
  /\ Leaves
  /\ UNCHANGED <<row, cached, links, created, op, copy, asked, unweighed>>

\* The accounts listed, under their new weights; an error is not reported.
Reweigh(p) ==
  /\ Return(p, "relist")
  /\ \/ /\ Same(p)
        /\ links' = [a \in Accounts |->
             IF \E pos \in Positions : <<a, pos>> \in pool[p]
             THEN Weighed(p, CHOOSE pos \in Positions : <<a, pos>> \in pool[p])
             ELSE Unlinked]
        /\ unweighed' = FALSE
        /\ Changes(p)
     \/ UNCHANGED <<links, unweighed>> /\ Leaves
  /\ UNCHANGED <<row, cached, created, asked>>

-----------------------------------------------------------------------------
(***************************************************************************)
(* Linking, unlinking, deleting: by the id of the route that was read.     *)
(***************************************************************************)

LinkOne(p, a, pos, weight) ==
  /\ op[p] = "attach" /\ Return(p, "act")
  /\ Same(p)
  /\ links' = [links EXCEPT ![a] = [pos |-> pos, weight |-> weight]]
  /\ asked' = [asked EXCEPT !.linked = @ \cup {a}]
  /\ Changes(p)
  /\ UNCHANGED <<row, cached, created, unweighed>>

AttachGiven(p) ==
  \E a \in Accounts, pos \in Positions :
    \E weight \in {"given", AttachWeight(copy[p].config, pos)} : LinkOne(p, a, pos, weight)

\* A weight the body gives counts unless the route reports prefer-primary.
AttachAccount(p) ==
  \E a \in Accounts, pos \in Positions :
    \E weight \in {AttachWeight(copy[p].config, pos)}
        \cup (IF PresetFromRoute(copy[p].strategy, copy[p].config) = "prefer-primary"
             THEN {} ELSE {"given"}) :
      LinkOne(p, a, pos, weight)

DetachRouteAccount(p) ==
  /\ op[p] = "detach" /\ Return(p, "act")
  /\ Same(p)
  /\ \E a \in Linked :
       /\ links' = [links EXCEPT ![a] = Unlinked]
       /\ asked' = [asked EXCEPT !.linked = @ \ {a}]
  /\ Changes(p)
  /\ UNCHANGED <<row, cached, created, unweighed>>

\* DeleteAccount: the foreign key takes the links along.
Cascade(a) ==
  /\ a \in Linked
  /\ links' = [links EXCEPT ![a] = Unlinked]
  /\ asked' = [asked EXCEPT !.linked = @ \ {a}]
  /\ moved' = moved \cup Busy
  /\ UNCHANGED <<row, cached, created, pc, local, raced, unweighed>>

\* A copy of an older route deletes nothing, and stays in the cache (Refuse).
DeleteRoute(p) ==
  /\ op[p] = "delete" /\ Goto(p, "act", "evict")
  /\ row # NoRoute /\ Same(p)
  /\ row' = NoRoute
  /\ links' = [a \in Accounts |-> Unlinked]
  /\ asked' = Nothing /\ unweighed' = FALSE
  /\ Changes(p)
  /\ UNCHANGED <<cached, created, local>>

Evict(p) ==
  /\ Return(p, "evict")
  /\ cached' = NoRoute
  /\ Leaves
  /\ UNCHANGED <<row, links, created, asked, unweighed>>

-----------------------------------------------------------------------------
Step(p) ==
  \/ Begin(p) \/ CacheGet(p) \/ Select(p) \/ Fill(p) \/ Read(p) \/ Refuse(p)
  \/ CreateRoute(p) \/ UpdateRoute(p) \/ Set(p) \/ Answer(p)
  \/ ReplaceRouteAccounts(p) \/ AttachNext(p) \/ ListRoutePool(p) \/ Reweigh(p)
  \/ AttachAccount(p) \/ DetachRouteAccount(p) \/ DeleteRoute(p) \/ Evict(p)

\* A bound: the handlers go no further once two of them have raced, of which
\* no property speaks.
Next ==
  \/ ~raced /\ \E p \in Callers : Step(p)
  \/ \E a \in Accounts : Cascade(a)
  \/ Expire

Spec == Init /\ [][Next]_vars

-----------------------------------------------------------------------------
TypeOK ==
  /\ row \in RouteRows /\ cached \in RouteRows
  /\ links \in [Accounts -> Links]
  /\ created \in 0..MaxRoutes
  /\ pc \in [Callers -> Locations] /\ op \in [Callers -> Ops]
  /\ copy \in [Callers -> RouteRows]
  /\ pool \in [Callers -> SUBSET (Accounts \X Nat)]
  /\ asked \in Wishes
  /\ moved \subseteq Callers /\ raced \in BOOLEAN /\ unweighed \in BOOLEAN

\* Every handler writes back what it read (GetRouteBySlug, then UpdateRoute or
\* ReplaceRouteAccounts by the copy): what earlier calls asked for, strategy,
\* config, model and accounts, is kept unless two calls overlapped, and that
\* although the copy may come from the cache.
AskedIsKept ==
  row # NoRoute /\ ~raced =>
    /\ row.strategy = asked.strategy /\ row.config = asked.config
    /\ row.model = asked.model /\ Linked = asked.linked

\* The weights of a route whose config is the prefer-primary preset are the
\* preset's, whichever of the attachments, replacements and changes of preset
\* came last, unless calls overlapped or the last change of config has not
\* reweighed the links: it came bare, its accounts were refused, or reweighing
\* failed, which handleUpdateRoute does not report.
WeightsFitPreset ==
  row.config = "prefer-primary" /\ ~raced /\ ~unweighed =>
    \A a \in Linked : links[a].weight = AttachWeight(row.config, links[a].pos)
=============================================================================

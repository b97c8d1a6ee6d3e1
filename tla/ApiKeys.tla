------------------------------- MODULE ApiKeys -------------------------------
(***************************************************************************)
(* The API keys of one project (internal/store/store.go and the handlers   *)
(* of internal/httpserver): requests authenticate through a TTL cache over *)
(* the api_keys table, owners revoke and mint keys, and every sign-in of   *)
(* the project's GitHub user may mint or rotate its "cli" key.             *)
(***************************************************************************)
EXTENDS Naturals, FiniteSets

CONSTANTS
  Keys,      \* the keys that may ever be minted
  Requests,  \* authenticated API calls
  Owners,    \* calls of the key handlers
  Logins,    \* POST /control/v1/auth/github, what llms login sends
  Rotating,  \* those with rotate_cli_key
  Visits,    \* web sign-ins and session pages: UpsertGitHubUser, key discarded
  NoKey,
  TTL        \* of authCache, in ticks

Procs == Requests \cup Owners \cup Logins \cup Visits
Locations == {"idle", "read", "fill", "accepted", "count", "mint", "rotate",
              "evict", "create"}

ASSUME KeysAssumption ==
  /\ TTL \in Nat \ {0}
  /\ NoKey \notin Keys
  /\ Rotating \subseteq Logins
  /\ Requests \cap (Owners \cup Logins \cup Visits) = {}
  /\ Owners \cap (Logins \cup Visits) = {} /\ Logins \cap Visits = {}

VARIABLES
  row,         \* the api_keys row: its name, revoked, or no row yet
  cache,       \* ticks left of the key's entry in Store.authCache
  registered,  \* the users row exists
  held,        \* keys whose plaintext reached the owner
  pc,
  key,         \* the key a request presents
  evict,       \* keys revoked by a call and still to be evicted
  reply        \* what a login answered: a key, or api_key_unchanged

(***************************************************************************)
(* History, read by the properties only.                                   *)
(***************************************************************************)
VARIABLES
  age,     \* ticks since the key was revoked and the lookups that had read its
           \* row before have returned, up to TTL
  stale,   \* revoked keys cached by a late fill, or whose eviction was cut
  excuse   \* keys were revoked by hand, or an error left none, since one was minted

table == <<row, registered, held>>
local == <<key, evict, reply>>
past == <<age, stale, excuse>>
vars == <<row, cache, registered, held, pc, key, evict, reply, age, stale,
          excuse>>

Init ==
  /\ row = [k \in Keys |-> "none"]
  /\ cache = [k \in Keys |-> 0]
  /\ registered = FALSE
  /\ held = {}
  /\ pc = [p \in Procs |-> "idle"]
  /\ key = [p \in Requests |-> NoKey]
  /\ evict = [p \in Procs |-> {}]
  /\ reply = [p \in Logins |-> "none"]
  /\ age = [k \in Keys |-> 0]
  /\ stale = {}
  /\ excuse = TRUE

Names == {"cli", "default"}  \* "default" stands for every other name

Active == {k \in Keys : row[k] \in Names}
Cli == {k \in Keys : row[k] = "cli"}
Fresh == {k \in Keys : row[k] = "none"}

Goto(p, from, to) == pc[p] = from /\ pc' = [pc EXCEPT ![p] = to]

Insert(k, name) == row' = [row EXCEPT ![k] = name]
Disable(S) == row' = [k \in Keys |-> IF k \in S THEN "revoked" ELSE row[k]]

\* The plaintext of a minted key is answered to a login, discarded by a visit.
HandOut(p, k) ==
  /\ held' = IF p \in Visits THEN held ELSE held \cup {k}
  /\ reply' = IF p \in Logins THEN [reply EXCEPT ![p] = "key"] ELSE reply

-----------------------------------------------------------------------------
(***************************************************************************)
(* LookupByPlaintext: the cache, else the table, then the cache is filled. *)
(***************************************************************************)

\* Mutant of Ask: a hit renews the entry.
AskRenews(p) ==
  /\ p \in Requests
  /\ \E k \in held :
       /\ Goto(p, "idle", IF cache[k] > 0 THEN "accepted" ELSE "read")
       /\ key' = [key EXCEPT ![p] = k]
       /\ cache' = IF cache[k] > 0 THEN [cache EXCEPT ![k] = TTL] ELSE cache
  /\ UNCHANGED <<table, evict, reply, past>>

Ask(p) ==
  /\ p \in Requests
  /\ \E k \in held :
       /\ Goto(p, "idle", IF cache[k] > 0 THEN "accepted" ELSE "read")
       /\ key' = [key EXCEPT ![p] = k]
  /\ UNCHANGED <<table, cache, evict, reply, past>>

ReadRow(p) ==
  /\ Goto(p, "read", IF key[p] \in Active THEN "fill" ELSE "idle")
  /\ UNCHANGED <<table, cache, local, past>>

\* authCache.Set, whatever happened to the row since it was read.
Fill(p) ==
  /\ Goto(p, "fill", "accepted")
  /\ cache' = [cache EXCEPT ![key[p]] = TTL]
  /\ stale' = IF row[key[p]] = "revoked" THEN stale \cup {key[p]} ELSE stale
  /\ UNCHANGED <<table, local, age, excuse>>

Serve(p) ==
  /\ Goto(p, "accepted", "idle")
  /\ UNCHANGED <<table, cache, local, past>>

-----------------------------------------------------------------------------
(***************************************************************************)
(* handleCreateKey, handleRevokeKey.                                       *)
(***************************************************************************)

CreateKey(p) ==
  /\ p \in Owners /\ registered /\ pc[p] = "idle"
  /\ \E k \in Fresh, name \in Names : Insert(k, name) /\ HandOut(p, k)
  /\ UNCHANGED <<cache, registered, pc, key, evict, past>>

RevokeKey(p) ==
  /\ p \in Owners /\ Goto(p, "idle", "evict")
  /\ \E k \in Active : Disable({k}) /\ evict' = [evict EXCEPT ![p] = {k}]
  /\ excuse' = TRUE
  /\ UNCHANGED <<cache, registered, held, key, reply, age, stale>>

\* Mutant of Evicted: a rotation ends without its new key.
EvictedNoKey(p) ==
  /\ evict[p] = {}
  /\ Goto(p, "evict", "idle")
  /\ UNCHANGED <<table, cache, local, past>>

\* invalidateAuthCache, once per revoked key.
Evict(p) ==
  /\ pc[p] = "evict"
  /\ \E k \in evict[p] :
       /\ cache' = [cache EXCEPT ![k] = 0]
       /\ evict' = [evict EXCEPT ![p] = @ \ {k}]
       /\ stale' = stale \ {k}
  /\ UNCHANGED <<table, pc, key, reply, age, excuse>>

Evicted(p) ==
  /\ evict[p] = {}
  /\ Goto(p, "evict", IF p \in Logins THEN "create" ELSE "idle")
  /\ UNCHANGED <<table, cache, local, past>>

-----------------------------------------------------------------------------
(***************************************************************************)
(* UpsertGitHubUser, and the rotation of handleGitHubAuth.                 *)
(***************************************************************************)

\* The first sign-in: user, project and "cli" key in one transaction.
Register(p) ==
  /\ p \in Logins \cup Visits /\ pc[p] = "idle" /\ ~registered
  /\ registered' = TRUE
  /\ \E k \in Fresh : Insert(k, "cli") /\ HandOut(p, k)
  /\ excuse' = FALSE
  /\ UNCHANGED <<cache, pc, key, evict, age, stale>>

\* An existing user: the transaction commits before the keys are counted.
SignIn(p) ==
  /\ p \in Logins \cup Visits /\ registered
  /\ Goto(p, "idle", "count")
  /\ reply' = IF p \in Logins THEN [reply EXCEPT ![p] = "none"] ELSE reply
  /\ UNCHANGED <<table, cache, key, evict, past>>

\* CountActiveKeysByName.  A login that keeps the key is answered
\* api_key_unchanged and the hint that local credentials still work.
Count(p) ==
  /\ \/ Cli = {} /\ Goto(p, "count", "mint") /\ UNCHANGED reply
     \/ /\ Cli # {} /\ p \in Rotating
        /\ Goto(p, "count", "rotate") /\ UNCHANGED reply
     \/ /\ Cli # {} /\ p \notin Rotating
        /\ Goto(p, "count", "idle")
        /\ reply' = IF p \in Logins THEN [reply EXCEPT ![p] = "kept"] ELSE reply
  /\ UNCHANGED <<table, cache, key, evict, past>>

\* CreateKey(..., "cli"), on the count read before.
Mint(p) ==
  /\ Goto(p, "mint", IF p \in Rotating THEN "rotate" ELSE "idle")
  /\ \E k \in Fresh :
       /\ Insert(k, "cli")
       /\ IF p \in Rotating THEN UNCHANGED <<held, reply>> ELSE HandOut(p, k)
  /\ excuse' = FALSE
  /\ UNCHANGED <<cache, registered, key, evict, age, stale>>

\* RevokeKeysByName: one UPDATE, then an eviction per returned row.
Rotate(p) ==
  /\ Goto(p, "rotate", "evict")
  /\ Disable(Cli)
  /\ evict' = [evict EXCEPT ![p] = Cli]
  /\ UNCHANGED <<cache, registered, held, key, reply, past>>

\* A sign-in ends with an error: counting, revoking, reading the rows or
\* inserting the new key fails.
CutShort(p) ==
  /\ p \in Logins \cup Visits
  /\ \E from \in {"count", "mint", "rotate", "evict", "create"} : Goto(p, from, "idle")
  /\ stale' = stale \cup {k \in evict[p] : cache[k] > 0}
  /\ evict' = [evict EXCEPT ![p] = {}]
  /\ excuse' = (excuse \/ Cli = {})
  /\ UNCHANGED <<table, cache, key, reply, age>>

Create(p) ==
  /\ Goto(p, "create", "idle")
  /\ \E k \in Fresh : Insert(k, "cli") /\ HandOut(p, k)
  /\ excuse' = FALSE
  /\ UNCHANGED <<cache, registered, key, evict, age, stale>>

-----------------------------------------------------------------------------
Minus1(n) == IF n > 0 THEN n - 1 ELSE 0

\* Lookups that have read the key's row and not stored it yet: nothing bounds
\* the time between the query and the Set.
Filling(k) == \E p \in Requests : pc[p] = "fill" /\ key[p] = k

Ageing(k) == row[k] = "revoked" /\ age[k] < TTL /\ ~Filling(k)

\* Time.
Tick ==
  /\ \E k \in Keys : cache[k] > 0 \/ Ageing(k)
  /\ cache' = [k \in Keys |-> Minus1(cache[k])]
  /\ age' = [k \in Keys |-> IF Ageing(k) THEN age[k] + 1 ELSE age[k]]
  /\ stale' = {k \in stale : cache[k] > 1}
  /\ UNCHANGED <<table, pc, local, excuse>>

Step(p) ==
  \/ Ask(p) \/ ReadRow(p) \/ Fill(p) \/ Serve(p)
  \/ CreateKey(p) \/ RevokeKey(p) \/ Evict(p) \/ Evicted(p)
  \/ Register(p) \/ SignIn(p) \/ Count(p) \/ Mint(p)
  \/ Rotate(p) \/ CutShort(p) \/ Create(p)

Next == (\E p \in Procs : Step(p)) \/ Tick

Spec == Init /\ [][Next]_vars

-----------------------------------------------------------------------------
(***************************************************************************)
(* Properties.                                                             *)
(***************************************************************************)

\* Every variable holds a value of its type; no entry outlives the TTL.
TypeOK ==
  /\ row \in [Keys -> Names \cup {"none", "revoked"}]
  /\ cache \in [Keys -> 0..TTL]
  /\ registered \in BOOLEAN
  /\ held \in SUBSET Keys
  /\ pc \in [Procs -> Locations]
  /\ key \in [Requests -> Keys \cup {NoKey}]
  /\ evict \in [Procs -> SUBSET Keys]
  /\ reply \in [Logins -> {"none", "key", "kept"}]
  /\ age \in [Keys -> 0..TTL]
  /\ stale \in SUBSET Keys
  /\ excuse \in BOOLEAN

Evicting(k) == \E p \in Procs : k \in evict[p]

\* A revoked key authenticates for one TTL at most after its revocation, or
\* after the last lookup that had read its row before it was revoked, however
\* often it is presented and whatever evictions fail.
StaleAtMostTTL ==
  \A k \in Keys : row[k] = "revoked" /\ age[k] = TTL => cache[k] = 0

\* "evicts it from the auth cache so it can no longer authenticate": a revoked
\* key is in the cache only while its eviction is under way.  A lookup that has
\* read the row before and stores it after the eviction breaks it.
RevokedIsOut ==
  \A k \in Keys : row[k] = "revoked" /\ cache[k] > 0 => Evicting(k)

\* A revoked key is cached only while its eviction is under way, or because a
\* lookup that had read the row stored it late, or the eviction was cut short.
StaleIsRaced ==
  \A k \in Keys : row[k] = "revoked" /\ cache[k] > 0 => Evicting(k) \/ k \in stale

\* Sign-ins and rotations, in any order, leave the project with a "cli" key,
\* unless keys were revoked by hand or an error cut a sign-in short.
SignInsLeaveKey ==
  (registered /\ ~excuse /\ \A p \in Logins \cup Visits : pc[p] = "idle")
     => Cli # {}

-----------------------------------------------------------------------------
(***************************************************************************)
(* What the properties rest on.                                            *)
(***************************************************************************)

\* Who stands where, and what it holds there.
Roles ==
  \A p \in Procs :
    /\ pc[p] \in {"read", "fill", "accepted"} => p \in Requests
    /\ pc[p] \in {"read", "fill"} => key[p] \in Keys
    /\ pc[p] \in {"rotate", "create"} => p \in Logins
    /\ evict[p] # {} => pc[p] = "evict"

\* A lookup that is about to fill the cache has read an active row; if it was
\* revoked since, the count of its age has not begun.
ReadIsRecent ==
  \A p \in Requests : pc[p] = "fill" =>
    \/ key[p] \in Active
    \/ row[key[p]] = "revoked" /\ age[key[p]] = 0

\* The longer a key is revoked, the less its entry has to live.
Aging ==
  \A k \in Keys : IF row[k] = "revoked" THEN cache[k] + age[k] <= TTL
                                       ELSE age[k] = 0

\* Without an active "cli" key, a rotation is about to create one.
KeyComing ==
  registered /\ ~excuse =>
    Cli # {} \/ \E p \in Logins : pc[p] \in {"evict", "create"}

=============================================================================

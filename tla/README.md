# Formal model of the openllms gateway

TLA+ modules, TLC configurations and TLAPS proofs for the concurrent core of the
`llms-gateway` program (`src/cmd/llms-gateway`, `src/internal`). Every module is
translated from the Go source; `PROJECT.json` maps each definition to its lines.

    tlc -workers 2 -config DispatchShared.cfg MCDispatch.tla
    tlapm Dispatch_proofs.tla

## 1. The system

`main.go` opens the database (SQLite with one connection, or PostgreSQL), opens
the secret vault, builds `httpserver.Server` with one `proxy.Engine`, and starts
two loops: the quota refresh every 5 minutes (`runQuotaRefresh`, which also
refreshes OAuth credentials near their expiry) and the health prober every 2
minutes. Every HTTP request runs in a goroutine of its own. A shutdown waits 15
seconds for them; nothing else orders goroutines.

| component | state it keeps | operations | hard because | correct when |
|---|---|---|---|---|
| Dispatch (`proxy.go`) | per request: list of seats, tried set, attempts, failovers, result | list, pick, call, cool or commit, fall back | seats change under a request that listed them once; a client hangs up; fallback pools share seats | each listed seat is tried once at most, none skipped before giving up, every call is told, the request ends |
| Selector (`router.go`) | soft-failure map, round-robin counters, random source | NoteSoftFail, ClearSoftFail, PreferFresh, six strategies | read without its lock; shared by all requests | only seats that failed are put last |
| Cooldowns (`store.go`, column `cooldown_until`) | one time per account | SetCooldown, MarkAccountHealthy, MarkAccountUnhealthy, list filter | last writer wins: requests, prober | a seat told to rest is not called by the request that told it |
| Affinity (`affinity.go`) | session to account, with expiry | Get, Set | read before the calls, written after | a session is bound to seats that answered; the last writer wins |
| OAuth refresh (`oauth_refresh.go`) | gates (mutex per account), pending credentials, the secret | 401 retry, proactive loop | the vendor rotates refresh tokens; puts fail; the gateway restarts; the gates are made lazily | one refresh at a time, no token lost, no rotated token presented, no step back |
| Model discovery (`catalog.go`) | cache of model lists, the secret | list, refresh on 401 | refreshes the same secret without the mutex | as above, and it must not replace a newer secret |
| API keys (`store.go`, `ttlcache.go`) | api_keys rows, auth cache | lookup, create, revoke, revoke by name | the cache is filled from a row read earlier | a revoked key stops authenticating |
| Sign-in (`store.go`, `server.go`, `github_oauth.go`, `billing.go`) | users, projects, "cli" key | register, re-login, rotate, web visit | count then create; a rotation in three steps | a project keeps a usable key and the answer is true |
| Parallel racing (`dispatchParallel`) | result channel, cancel functions | race, win, cancel | results in any order, cancellation, TTFT, streams nobody reads | the first decisive report answers, every goroutine ends, the winner's stream lives |
| Routes and cache (`store.go`, `server.go`, `console.go`) | routes, route_accounts, route cache | create, update, delete, attach, detach, replace pool, reweigh, get | handlers write back what they read, perhaps from the cache; fills out of order; weights in a second statement | what was asked for is kept, weights fit the preset |
| Accounts and secrets (`server.go`, `console.go`, `account_ops.go`, `vendor_pending.go`) | accounts rows, secrets, pending sign-ins | create (API, console, Claude, Codex), delete, refresh | two stores without a transaction; the path is made of the name, so successors share it | an account has its own secret and a deleted one leaves none |
| Plans and billing (`billing.go`, `store/billing.go`, `billing/`) | billing row, counts | capacity and parallel gates, free plan, paid period, past due, expiry | every gate reads the row by itself, then acts | a limit is passed by the concurrent callers at most, a payment is kept |
| Rate limit, token cap (`limiter.go`, `OverSoftTokenCap`) | window per key, usage rows | allow, compare, record | read before the call, recorded after; windows restart at a call | less than twice the limit in a window, the cap passed by the calls under way at most |
| Quota and strategies (`quota/`, `router.go`) | quota columns (two windows and a mirror), round-robin counter | refresh, derive from usage, set by hand, six picks | three writers; a request picks by what it listed | a seat with something left is taken before a spent one, turns are even |
| Protocol bridges (`codex_bridge*.go`, `anthropic_bridge*.go`, `*_tools.go`) | per call: parse state, pipe | convert messages and tools, rewrite the event stream | items arrive in pieces and twice; streams are cut; the reader peeks, then relays | the conversation is kept, the stream is the aggregate, nothing is left blocked |
| Vendor connect, config, console pages, CLI | none shared | exchanges, pages | sequential | |

Components meet in these places: the `accounts` row (dispatch, prober, quota
writers), the secret of an account (refresh, discovery, account handlers), the
engine's in-memory maps (all requests), the auth cache (requests, key handlers,
sign-ins), the route row and its cache (every handler that names a route), and
the billing row (every gate). `PROJECT.json` lists every component, and the hazards by line.

## 2. How the project is laid out

One module per component, in the order in which they matter to a request, with
an `MC` module and `.cfg` files for TLC and a `_proofs` module for TLAPS
(`Racing` and `Seats`, which share the accounts of a route, share `Pool_proofs`):

| module | component | abstract specification, composition |
|---|---|---|
| `Dispatch` | sequential dispatch, fallback routes, cooldowns, affinity, prober | implements `Failover` (`Promise`, proved) |
| `Seats` | the strategies and the quota columns they read | refines what `Dispatch` leaves open: which candidate |
| `Racing` | parallel dispatch, the streams of the losers | |
| `ChatRequest`, `ChatBridge` | protocol bridges | `ChatBridge` EXTENDS `ChatRequest`: one call from the client's messages to its last chunk |
| `OAuthRefresh` | credential refresh and model discovery | |
| `Accounts` | rows and secrets of accounts | composes the handlers with a refresh in flight |
| `ApiKeys` | keys, authentication cache, sign-ins | |
| `Routes` | routes, their cache and their accounts | |
| `Plans` | billing row, its gates, rate limiter, soft cap | composes them in the order of `handleUpstream` and the creation handlers |
| `Pool`, `Lists` | the constants of `Racing` and `Seats`; the filtering loop (`Only`) of `Seats` and `ChatRequest` | |

Worth doing next: image generations; cooldown arithmetic; that each strategy of
`Seats` chooses one of the candidates `Dispatch` leaves open, as a refinement.

## 3. Modules

**Dispatch** - one action per step of `dispatch` and `dispatchWithFallbacks`
between two accesses to shared state. `pc` is where the goroutine stands:
`list` (ListRouteAccounts and the filters), `empty` (emptyAccountsResult),
`session` (affinity Get), `pick` (Exclude, PreferAccount, PreferFresh, the
strategy), `call`, `note` and `cool` (the soft failure), `clear`, `heal`,
`stick` (the success), `hard`, `fallback`. Times are counted in ticks left:
`cool[s]` is `cooldown_until`, `soft[s]` the soft-failure window. Seats, routes,
fallback chains, sessions, capabilities and the cooldown of each outcome are
constants. A call is one nondeterministic outcome: `ok`, `hard` (a client
error), `limited` (401, 403, 429), `down` (5xx, no connection, unreadable
credential), `ttft` (a stream that fails before its first token, found by
awaitCommit), `error` (`http.NewRequest` refuses the URL: dispatch returns a Go
error). Time, affinity expiry and the prober (`ProbeHealthy`, `ProbeUnhealthy`)
interleave with everything. Strategies other than sequential may take any
candidate (their choices are the subject of `Seats`). `log`, `base`, `rest` are history variables.
Every query and write of the database may fail; after the client has left all do, and
calls fail or are refused by a bridge before they are sent.

**Failover** - what a dispatch promises, without cooldowns, order or results: a
pool is opened, each seat of it misses or settles the request, a pool with an
untried seat is never closed. `Dispatch!Promise` is this specification under
the mapping `phases`, `lefts`, `bys`.

**OAuthRefresh** - one account. Credentials are pairs of counters (access
token, refresh token) in the order the vendor issued them; the vendor accepts
only the newest refresh token and may rotate it or keep it. The actions are the
steps of `refreshOAuthCredential` with the mutex of a *gates object*: gates
objects are identified by the goroutine that made them, because `oauthLock`
makes one whenever it sees nil. `put` stands for all the attempts of
`putCredentialWithRetry`. A gateway starts, and restarts, without gates and keeps only
the secret. Discoveries (`Listers`) skip the mutex as the code does. The history
variable `torn` says that two refreshes have stood apart since the start: under
mutexes of two gates objects, or one of them a discovery's. `lost` says that a
credential was lost in a reply or a restart. `Serial`, `Known`, `Ordered` and
`Vault` are the parts of the inductive invariant.

**ApiKeys** - one project. A lookup is three steps (cache, row, late `Set`); a
revocation commits its rows, then evicts key by key; a sign-in commits, counts,
mints, and a rotating login then revokes and creates. A key is named "cli" or
otherwise ("default"). Time may pass between the row a lookup read and its
`Set`, which the code bounds by nothing: the age of a revocation counts from the last
lookup that had read the row before it (`Filling`, `Ageing`).

**Racing** - one request over one parallel route, with one goroutine per seat.
`pc[s]` is where a racer stands (`call`, `commit` in awaitCommit, `send`, `done`),
`sent` every report written to the channel in order and `heard` how many were
received, so that `last` is `chosen` and `remaining` the pool less `heard`.
`feed[s]` is the feeder of a stream: the HTTP transport, or for a `Bridged` seat
the goroutine of `startCodexChatPipe` / `startAnthropicChatPipe`. The two differ
when nobody reads: a cancelled transport drops what it holds, a converter stays
blocked in `Write`. Both `stream` requests and others, any non-empty list of
seats and both values of `parallel_allow_oauth` are initial choices. A pool left
empty is handed to the sequential dispatch (`Dispatch`).

**Accounts** - one name of a project. `row` is who created the account, `secret`
whose credential the path of the name holds: both are named by the creator, so
that a successor under the same name can be told from its predecessor. A
creation is gate, vendor sign-in (`pending`, exchange), `PutSecret`, `InsertRow`
in that order (Codex asks the gate after the exchange); a deletion is `FindRow`,
`DeleteRow`, `Unlink`; a refresh is `SelectRow`, `GetSecret`, `StoreSecret`,
whatever became of the account meanwhile. Every second step may fail. `raced`,
`overwritten` and `leftover` are history: they say which excuse a property admits.

**Plans** - one project. `row` is the billing row; each gate (`requirePlanEntitled`,
`requirePlanCapacity`, `requireProParallel`, `planRPMLimit`, `planSoftCap`) reads
it in a step of its own and keeps only the limit (`lim`). `on` says where a call
goes on once an entitlement gate lets it, and when the gate fails. `EnsureFreePlan`
is its read and its write. One kind of object is counted. Accounts and routes are made behind the
gate only; if `keys` holds the objects are API keys, of which `MintKey` makes more
without asking: a first or rotating login (`server.go:276-286`, `store.go:802`), and
bootstrap (`server.go:241`).
The limiter is one bucket, the month's tokens one sum. Payments, past-due marks
and expiries come from the hosted billing service at any time.

**Routes** - one slug. Every handler but the creation starts with
`GetRouteBySlug` (`CacheGet`, `Select`, `Fill`) and then writes by the copy it
holds: `UpdateRoute` writes back the fields its body leaves out, `Set` puts the
updated row into the cache, `ReplaceRouteAccounts`, `AttachAccount` and
`reweightRouteAccounts` compute weights from the copy's config. Strategy and config
are apart, as in the bodies: a preset names both (`ApplyPreset`), but a body may also
bring either bare. `PresetFromRoute` reads both, `AttachWeight` the config alone. `asked` is what
the answered calls asked for. `moved` are callers another call has overtaken,
`raced` that one of them has written since: the properties claim nothing then.

**Seats** - one route. The quota columns of a seat are two windows and a mirror;
percentages are a few levels with 0 below `min_remaining_pct`, resets are hours
from now. A request lists the seats once (`seen`), picks with the strategy of
the route, and on a failure leaves the seat out and picks again from the same
list. The strategies are operators (`RoundRobin`, `QuotaAware`, `ResetSoon`,
`Steward` over `BestOf`, the loop they share, which takes "beats" as a set of
pairs); `Score` is the steward's in thousandths with the preset's weights.
`order` and `turns` are history: the list of the last turn, and how often each
seat was given since that list is the same.

**ChatRequest, ChatBridge** - one call to a seat that speaks another protocol. A
message is its role, the kinds of its parts in the client's order, the ids of its
calls (two at most) and of the call it answers; `Ordered` is what
`parseChatContentParts` makes of the parts: texts, then images. `turns` is what goes upstream. Then the vendor says pieces of text,
function calls and hosted tools, in any order its protocol allows, and completes,
fails, ends without a word or breaks; the bridge (`codexParseState`,
`anthropicParseState`) rewrites each event into chunks, which block it in the
pipe until the reader takes them. `view` is what the reader has taken. Codex may list
a final text that differs from its deltas; `said` is what the deltas said.

`MC` modules give the constants their values. Operators commented as mutants are
variants of a definition with a plausible fault; no specification uses them.

## 4. Runs

| run | instance | shows |
|---|---|---|
| dispatch | 2 requests, one with a session and a client that may hang up, one of images; 2 seats, one malformed; a shared primary route, a fallback sharing a seat, an empty one; fair; 384 thousand states | no seat skipped before giving up, exact trail, no call of a seat told to rest; every request is answered; the dispatch implements `Failover` |
| oauth | a call, the loop and a discovery on a fresh gateway, 3 credentials, reads, exchanges and puts may fail, restarts; 1.3 million states | while no two refreshes stand apart no token is dropped or replayed, retries are newer, the secret only moves forward; no mutex is left behind |
| oauth_fresh | a call and the loop on a fresh gateway | finding 2 |
| keys | a request, an owner, two logins (one rotating), a web sign-in, 3 keys, TTL of 2 ticks; symmetric in the keys; 2.8 million states | a revoked key lives one TTL at most after its revocation and the lookups it overtook; sign-ins leave a cli key |
| keys_revoked | a request, an owner, a web sign-in | finding 3 |
| racing_pool | any pool of a direct seat, a bridged OAuth seat and a seat with a bad URL; a client that may hang up; fair; 29 thousand states | the first decisive report answers; every racer ends; only a bridged loser's pipe stays open |
| accounts | a creator of each of the four kinds, 2 deletions, a refresher, a restart; symmetric in the deletions; 3.8 million states | an account has its own credential, and no credential is without an account, except after the races and failures the properties name |
| bridge | up to 3 messages of any parts, with one or two calls, one id and the blank one, then 2 function calls, a hosted tool and 2 pieces of text; both vendors; fair; 111 thousand states | the conversation and the tool choice are kept, the stream is the aggregate, a break or an error is told (what the bridge ignores apart), a client that leaves frees everything |
| plans | 4 casts: two creators; an activation and an updater; a console updater; two callers upstream. One payment, 3 times; objects that are keys or not; 1.5 million states | how far the limits of objects, tokens and requests can be passed; a payment is lost only to the race of `EnsureFreePlan` |
| routes | 2 callers, 2 accounts, 2 strategies and 2 configs named apart or by a preset, the slug created twice; symmetric in the callers; 7.6 million states | what calls that did not overlap asked for is kept, though they read cached copies; weights fit the config once they were rewritten for it |
| seats | 3 seats, two of them OAuth; round-robin and weighted with 2 sessions and 5 picks, the quota strategies with a session, 2 writes of quotas and 2 picks; 4.0 million states | turns are even; what has quota left is preferred, the earliest reset first; a steward's seat is never dominated |
| racing_rest | 2 direct seats | finding 1 |

The bounds. Two seats and a shared fallback are the least with which a seat can
be skipped, tried twice or met again; two requests the least that race; a third
request adds no new pair of steps on the shared state. `MaxAt` (3) bounds the
credentials issued: one refresh follows another, or two overlap. `TTL` (2) and
the cooldowns (1, 2) separate "just now", "still" and "over". Three keys let a
rotation revoke two at once. In `Plans` the free plan allows one object and the
starter two, so that a limit widens and narrows; three time points hold a window
of two and its successor; actors that share no state of the gates are not run
together, which is what the casts are for. In `Routes` callers stop once two of
them have raced, of which no property speaks; two routes under one slug let a
copy outlive its route; the default model is left out of the run
(`Models = {}`), as it is written back in the same way as strategy and config, and
stays in the proof. In `Seats` three seats give a strategy a best, a tie and
a worst, and two writes change what was listed; two sessions with five picks go
once around a list of three and on. In `ChatBridge` two calls give an index other
than 0 and a merge in place; the order of two named calls of one message is left to
the proof, as the run has one id beside the blank one. `MaxAt`, `MaxTime`, `MaxUsed`, `MaxObjects`,
`MaxPayments`, `MaxRoutes`, `MaxMessages`, `MaxText`, the writes and picks of a
cast, `Restarts` and the pool of `Keys` bound guards; the others are sizes of
constants. Deadlock is not checked where these bounds, or an end of the one call
modelled, stop the system (`Accounts`, `ChatBridge`, `Plans`, `Routes`, `Seats`).

### Findings

1. racing_rest: the winner of a race cancels its own context with the others: what
   its vendor sends after the first token is cut while the client is reading
   (`proxy.go:283`, against `ttft.go:14`).
2. oauth_fresh: the gates of the refresh mutex are made lazily without a lock
   (`oauth_refresh.go:52`), so the first refreshes after a start may each make their
   own and are not serialised, although the comment at line 118 says so.
3. keys_revoked: a lookup in flight re-caches the key whose revocation has just
   evicted it (`store.go:172`); it authenticates for up to one more TTL, although the
   comment at line 218 says it can no longer.

### What else the models show of the code

These hold of the code as it is, and are why a property names an exception or an
instance excludes a case; no run is spent on them.

* A client that disconnects has every seat of the pool marked as soft-failed, so
  other requests avoid them for 30 s (`proxy.go:395-397`).
* Model discovery refreshes the credential outside the mutex (`catalog.go:236`).
  Either this or gates of one's own (finding 2) alone is enough to break each of
  `NoReplay`, `NothingDropped`, `RetryIsNewer` and `DurableForward`: the properties
  claim nothing once `torn`.
* A rotation whose eviction fails ends without its new key (`store.go:262`,
  `CutShort`): the exception of `SignInsLeaveKey`. An eviction may also never come.
* API keys are minted without the plan's gate by sign-ins and bootstrap, so a rotating
  login passes the limit of keys by itself: `OvershootBounded` adds these (`minted`).
* After a web sign-in the first `llms login` is told that its credentials still
  work; nobody ever received that key (`server.go:297`).
* Creating an account under a taken name replaces the living account's
  credential before the database refuses the row (`account_ops.go:65`), and
  deleting an account while its successor is created leaves the successor
  without one: the exceptions of `SecretIsItsOwn` and `AccountHasSecret`.
* `EnsureFreePlan` may overwrite a payment that came after its read
  (`store/billing.go:111`); `requireProParallel` gives a lapsed project the
  parallel preset together with its free plan (`billing.go:235`); streams record
  0 tokens, and the soft cap lets calls through when its sum fails.
* The weights of a route are rewritten in a second statement whose error is dropped
  (`server.go:769`), and not at all when the config comes bare: the exception of
  `WeightsFitPreset`. A route whose bare strategy is "weighted" reports the preset
  prefer-primary (`router.go:69`) while its links weigh 1 (`router.go:98`).
* An image a client puts before a text goes upstream behind it
  (`chat_content.go:16-54`): the exception of `HistoryKept`.
* Where Codex lists a final text that differs from its deltas the aggregate has the
  final text and the stream the deltas (`codex_tools.go:280`; the repository's test
  `codex_bridge_test.go:218` has the case): `StreamIsAggregate` says which has which.
* Codex's `response.failed`, and a Claude error without a message
  (`anthropic_bridge_parse.go:250`), are ignored, so a failed answer ends as a whole one
  (`codex_bridge_parse.go:65`), like a connection that ends quietly; calls that only `response.completed` lists reach
  the aggregate and never the stream; forcing a web search that was disabled sends
  a tool choice without its tool (`codex_tools.go:113`).
* Round-robin ("balance") is even only while the list and its order stay: a
  sticky session, a recent failure or a cooling seat reorder what the shared
  counter indexes. Reset-soon looks at its own window only, so it may pick a seat
  whose other window is spent, and ignores a quota set by hand once the windows
  are known.
* `Result.Attempts` forgets the calls made before a fallback pool that is
  exhausted too (`proxy.go:171`), and on exhaustion the failover trail holds the
  final result's own attempt, which the handler logs twice; a race among seats
  with malformed URLs only returns neither a result nor an error
  (`NothingIsMalformed` says it happens in no other case); the sequential dispatch
  of a parallel route without API keys drops the account filter of an image
  request (`proxy.go:207`).

## 5. Fairness

`Dispatch!FairSpec` is weak fairness of the steps of a started request: database
calls return, and an upstream call is cut by the 120 s timeout of the HTTP
client (`new_default.go:33`). Nothing is assumed of clients, time or the prober.
`Racing!FairSpec` is the same for racers and the receiving goroutine; a stream
ends at last (strong fairness, as it alternates between full and waiting) because
the 120 s cover the reading of the body.

`ChatBridge!Fairness` is weak fairness of the two goroutines, and of the break of
the vendor's stream once the client is gone: `net/http` cancels the request's
context then and the pending read fails. Nothing is assumed of a vendor or of a
client that stays. `OAuthRefresh`, `ApiKeys`, `Accounts`, `Plans`, `Routes` and `Seats`
have safety properties only and state no fairness.

## 6. Proofs

`Dispatch_proofs` (for all requests, seats, routes, chains, cooldowns under
`DispatchAssumption`):

* `TypeCorrect`: `TypeOK` is inductive, with one step per action.
* `RestRespected`: `NoRetryWhileCooling`. It is not inductive alone: the
  strengthening is `TypeOK /\ CallIsTried /\ RestIsRespected` - a cooled seat is
  still cooling, and the running dispatch has either not listed it (the query
  filters cooling seats) or already tried it.
* `Implements`: `Spec => Promise`, step by step under the refinement mapping.
* `TrailExact` and `ExhaustedBeforeFallback`: `TrailIsExact` and
  `GivesUpExhausted`. The counter, the tried set and the failover records are
  three copies of one history, written by different statements; the inductive
  `TrailInv` ties each of them to the calls really made, at every location
  between two of the writes, and keeps the seats tried within those listed.

`OAuthRefresh_proofs` (for all sets of callers, any `MaxAt`, on a gateway that starts
and restarts without gates, with or without discoveries): `TypeCorrect`;
`NoMutexLeft` and `OverlapNeedsTwoGates` from `Serial`, by which a call in a refresh
holds the mutex of the gates object it took, and nobody refreshes beside it until the
account is torn. With `Serial`, the order of the issued credentials (`Ordered`) and the
relation of the copies at each point of a refresh (`Vault`) are inductive together with
what `lost` and `torn` exclude, and `TokensKept`, `NeverReplays`, `RetriesNewer` and
`SecretForward` follow.

`ApiKeys_proofs` (for all keys, requests, owners, logins and any TTL, under
`KeysAssumption`): `TypeCorrect`, with `Roles` saying who may stand where;
`StaleIsShort`, because what is left of an entry shrinks as the revocation ages
(`Aging`) and the age of a key does not begin while a lookup that has read its row is
still to fill the cache (`ReadIsRecent`); `RaceOrError` (a revoked key is cached only
while its eviction is under way, by a late fill or after an error), inductive with the
types: it is what is left of finding 3's claim; `KeyLeft`, because without a "cli" key a
rotation is on its way to create one (`KeyComing`).

`Pool_proofs`, of a race (for any finite set of seats, any pool): `TypeCorrect`, by which
the channel never holds more than one report per racer; `FirstAnswers`;
`NothingOnBadUrls`. The invariant adds `Reported` - the channel holds one report
of each finished racer, so that a race whose loop has counted down has heard
the whole pool (a cardinality argument) - and `Undecided`: while the race is on,
everyone heard has failed.

`Pool_proofs`, of the strategies (for any finite set of seats, any sessions, casts,
levels of a quota and hours under `SeatsAssumption`): `SeatsTypeCorrect`,
`SpentAlwaysSpared`, `SoonestAlwaysTaken`, `NeverDominated`, `TurnsAlwaysEven`.
The strategies are loops, so what they return needs an induction over a list; it
is made by hand, from a least counterexample, which the well-founded order of the
naturals has (`Least`). `OnlyIs` says what filtering keeps, and that it repeats nothing;
`BestIs` that no seat of the list beats the one the loop returns, when "beats" is
transitive and no seat beats itself; `ChosenIs` that the result is one of the
seats listed. What a request does with it is then arithmetic: `SpentAlwaysSpared` compares the mirror of two seats,
`NeverDominated` needs that `Urgency` falls with the reset. `EvenTurns` is not
inductive: `Cycled` adds that there is a place of the list where rounds begin,
such that each seat has as many turns as rounds were made, and those which the
present round has passed, between that place and the counter's, one more (`Round`, `Passed`).

`Accounts_proofs` (for any callers of each kind and any number of restarts, under
`AccountsAssumption`): `TypeCorrect`; then `Roles` (who stands where) and
`Undisturbed` are inductive together - as long as a creator was not raced no
deletion is under way and its path is not empty, as long as its path was not
overwritten the path holds its own credential and no refresher holds another -
and give `HasSecretAlways` and `OwnSecretAlways`; `ExplainedAlways` is inductive
with the types.

`Plans_proofs` (for any callers, casts, limits and bounds, under
`PlansAssumption`): `TypeCorrect`, split into the groups a step can disturb;
`PaidLostOnlyByRaceAlways`, because an activation between its read and its write
either read an unpaid row or was overtaken (`Kept`); `OvershootBoundedAlways` and
`CapOvershootBoundedAlways` by a cardinality argument: the objects that were not
minted and the creators that have counted and not yet created (`Room`), and the tokens with
those of the calls that were let through and not yet recorded (`Credit`), never
exceed the limit and one more for each such caller; `BurstBelowTwiceAlways`,
because the requests granted are kept with their time: those of one fixed window
never exceed the highest limit (`Windows`; `LimitKnown` for the limit a caller is
about to apply), and a span as long as a window meets two of them at most and
misses the call that opened the earlier one.

`Routes_proofs` (for any callers, routes, accounts and models under the module's
assumptions): `TypeCorrect`; `AskedAlwaysKept` and `WeightsAlwaysFit`; and
`CacheSettles` - with no caller under way that would still fill or drop it, what
the cache holds is the row. Neither property is inductive: each handler reads the
row or the cache, changes its copy and writes all of it back. `Kept` adds what
links them: a caller that nobody has overtaken holds the row as it is (`Held`),
because the cache is out of date only while a writer is about to store or evict
(`Fresh`); the accounts it has listed are those of the row (`Listed`); without a
row there are no links (`Bare`), and no row has the id 0 (`Numbered`).

`ChatBridge_proofs` (for any calls, hosted tools and bounds under
`StreamAssumption` and the request's assumption): `StreamAlwaysAggregate`,
`CutAlwaysTold`, `ChoiceAlwaysOffered`, `TurnsAlwaysAlternate`,
`HistoryAlwaysKept`, `BridgeTypeCorrect`. The inductive
`Streamed` says, beside the types, what the parser may still have to write and
how the pipe ended (`Piped`), that the text the client has read and the one that
waits in the pipe make what the deltas said (`Spoke`), and that each call streamed is
one parsed, at its index and once (`Called`). `MergeAll` takes the calls of `response.completed` in
whatever order the vendor lists them, and `MergeMany` says that merging adds the
missing ones and changes none. For the history, `Remembered` says after every
message walked that the blocks of all turns, joined, are those of the messages
spoken so far. One message more appends one member to the list of those spoken
(`OnlyAppend`), adds at the end of the joined blocks whatever it may be merged
with (`FlattenAppend`, `MessageAppended`), and adds what the protocol carries of
it, for each vendor and role (`CarriedIs`, `CodexSays`, `ClaudeHears`). These rest
on the same least counterexample.

Model-checked only: liveness under fairness (`Answered`, `RacersEnd`,
`OrphansArePiped`, `Freed`), which is beyond the proof system. Every invariant and
every action property of the passing runs is proved, the types of every module
included, without hypotheses beyond the assumptions on the constants.
Assumptions on constants are evaluated by TLC in every run.

## 7. Not modelled

HTTP, JSON and SSE framing, the wording of chunks, usage counts and annotations
of the bridges, image generations; how long a cooldown is (Retry-After, backoff);
the model catalog's listing and cache; the random draw of the weighted strategy;
route weights and thresholds other than the presets'; SQL beyond the rows named
above; PKCE and device codes beyond their outcome; billing checkout, crew signal
and event records; sessions, cookies, configuration, migrations; the pages of the
console and the CLI (sequential presentation over the handlers that are modelled).
A transaction or a single statement is one step. `sync.Mutex`-protected map
accesses are atomic; the unlocked read in `recentlyFailed` is treated as atomic
too, though a Go map read concurrently with a write is a data race. The unit
prices, limits and hours are constants or levels. Nothing here composes all
modules at once: `Dispatch` takes the outcome of a call, the choice of a strategy
and the pool of a route as given, and `OAuthRefresh`, `Seats`, `Routes` and
`ChatBridge` say what those may be.

---------------------------- MODULE OAuthRefresh ----------------------------
(***************************************************************************)
(* The OAuth credential of one account: upstream calls and the proactive   *)
(* loop refresh it through Engine.refreshOAuthCredential                   *)
(* (internal/proxy/oauth_refresh.go) under a mutex per account; the model  *)
(* discovery refreshes it by itself (internal/modelcatalog/catalog.go).    *)
(* The vendor may rotate the refresh token, the secret store may fail, the *)
(* gateway may restart.                                                    *)
(***************************************************************************)
EXTENDS Naturals

CONSTANTS
  Proxies,      \* upstream calls in flight on the account
  Loops,        \* RefreshExpiringOAuth runs
  Listers,      \* model discoveries
  Nobody,
  NoGate,       \* a nil *refreshGates
  NoCred,
  ReadMayFail,  \* Secrets.Get may fail
  MaxAt         \* bound on the credentials the vendor issues

Callers == Proxies \cup Loops
Procs == Callers \cup Listers

\* The gates objects that may exist: one per goroutine that saw nil.
Gates == Callers

\* The n-th access token issued, with the refresh token issued beside it.
Cred == [at : 1..MaxAt, rt : 1..MaxAt]

Locations == {"idle", "load", "send", "look", "make", "take", "lock", "pending",
              "putpending", "reread", "exchange", "put", "keep", "clear",
              "unlock", "retry"}
Refreshing == {"pending", "putpending", "reread", "exchange", "put", "keep",
               "clear", "unlock"}

ASSUME OAuthAssumption ==
  /\ MaxAt \in Nat \ {0}
  /\ NoCred \notin Cred
  /\ Proxies \cap Loops = {} /\ Callers \cap Listers = {}
  /\ Nobody \notin Procs /\ NoGate \notin Callers
  /\ ReadMayFail \in BOOLEAN

VARIABLES
  current,  \* newest credential the vendor issued; its rt is the accepted one
  live,     \* access tokens before this one have expired
  durable,  \* the account's secret
  pending,  \* Engine.pendingCreds
  gates,    \* Engine.refreshGates
  holder,   \* who holds the account's mutex of a gates object
  pc,
  mine,     \* the gates object whose mutex the call takes
  old,      \* credential the call loaded
  cred,     \* credential it read again or got, NoCred for an error
  lost,     \* history: an issued credential was lost in a reply or a restart
  torn      \* history: since the start, two refreshes overlapped under the mutexes
            \* of two gates objects, or the vendor issued to one under no mutex

vars == <<current, live, durable, pending, gates, holder, pc, mine, old, cred,
          lost, torn>>
world == <<current, live, lost, torn>>
memory == <<pending, gates, holder>>

Init ==
  /\ current = [at |-> 1, rt |-> 1]
  /\ live = 1
  /\ durable = current
  /\ pending = NoCred
  /\ gates = NoGate
  /\ holder = [g \in Gates |-> Nobody]
  /\ pc = [p \in Procs |-> "idle"]
  /\ mine = [p \in Procs |-> NoGate]
  /\ old = [p \in Procs |-> NoCred]
  /\ cred = [p \in Procs |-> NoCred]
  /\ lost = FALSE /\ torn = FALSE

Goto(p, from, to) == pc[p] = from /\ pc' = [pc EXCEPT ![p] = to]
Got(p, c) == cred' = [cred EXCEPT ![p] = c]

\* The call returns: its local variables are gone.
Return(p, from) ==
  /\ Goto(p, from, "idle")
  /\ old' = [old EXCEPT ![p] = NoCred]
  /\ Got(p, NoCred)

\* A new call, or discovery, on the account.
Begin(p) ==
  /\ Goto(p, "idle", "load")
  /\ UNCHANGED <<world, durable, memory, mine, old, cred>>

\* loadCredential; a failing Get ends the call.
Load(p) ==
  /\ \/ Goto(p, "load", "send") /\ old' = [old EXCEPT ![p] = durable]
     \/ ReadMayFail /\ Goto(p, "load", "idle") /\ UNCHANGED old
  /\ UNCHANGED <<world, durable, memory, mine, cred>>

\* The vendor accepts the access token: nothing to refresh.
Accepted(p) ==
  /\ p \notin Loops
  /\ Return(p, "send")
  /\ old[p].at >= live
  /\ UNCHANGED <<world, durable, memory, mine>>

\* 401: a call asks the engine for a refresh; a discovery exchanges the refresh
\* token it has loaded itself.
Refused(p) ==
  /\ p \notin Loops
  /\ Goto(p, "send", IF p \in Listers THEN "exchange" ELSE "look")
  /\ old[p].at < live
  /\ UNCHANGED <<world, durable, memory, mine, old, cred>>

\* The loop refreshes what expires within its lead and skips the rest.
Expiring(p) ==
  /\ p \in Loops
  /\ \/ Goto(p, "send", "look") /\ UNCHANGED <<old, cred>>
     \/ Return(p, "send")
  /\ UNCHANGED <<world, durable, memory, mine>>

-----------------------------------------------------------------------------
(***************************************************************************)
(* oauthLock: the gates are created on first use, outside of any lock.     *)
(***************************************************************************)

Look(p) ==
  /\ Goto(p, "look", IF gates = NoGate THEN "make" ELSE "take")
  /\ UNCHANGED <<world, durable, memory, mine, old, cred>>

Make(p) ==
  /\ Goto(p, "make", "take")
  /\ gates' = p
  /\ UNCHANGED <<world, durable, pending, holder, mine, old, cred>>

Take(p) ==
  /\ Goto(p, "take", "lock")
  /\ mine' = [mine EXCEPT ![p] = gates]
  /\ UNCHANGED <<world, durable, memory, old, cred>>

\* Mutant of Lock: a TryLock whose answer is ignored.
LockAnyway(p) ==
  /\ Goto(p, "lock", "pending")
  /\ holder' = [holder EXCEPT ![mine[p]] = p]
  /\ UNCHANGED <<world, durable, pending, gates, mine, old, cred>>

Lock(p) ==
  /\ Goto(p, "lock", "pending")
  /\ holder[mine[p]] = Nobody
  /\ holder' = [holder EXCEPT ![mine[p]] = p]
  /\ torn' = (torn \/ \E q \in Callers : /\ pc[q] \in Refreshing
                                      /\ mine[q] # mine[p])
  /\ UNCHANGED <<current, live, lost, durable, pending, gates, mine, old, cred>>

-----------------------------------------------------------------------------
(***************************************************************************)
(* refreshOAuthCredential, under the mutex.                                *)
(***************************************************************************)

TakePending(p) ==
  /\ Goto(p, "pending", IF pending = NoCred THEN "reread" ELSE "putpending")
  /\ Got(p, pending)
  /\ UNCHANGED <<world, durable, memory, mine, old>>

\* The credential in memory is offered to the store again, then returned.
PutPending(p) ==
  /\ \/ Goto(p, "putpending", "clear") /\ durable' = cred[p]
     \/ Goto(p, "putpending", "keep") /\ UNCHANGED durable
  /\ UNCHANGED <<world, memory, mine, old, cred>>

\* Mutant of Reread: the credential the call loaded is trusted.
RereadSkipped(p) ==
  /\ Goto(p, "reread", "exchange")
  /\ Got(p, old[p])
  /\ UNCHANGED <<world, durable, memory, mine, old>>

\* The secret is read again (fresh): if another call has rotated it, it is
\* returned.
Reread(p) ==
  /\ \/ /\ Goto(p, "reread", IF durable # old[p] THEN "unlock" ELSE "exchange")
        /\ Got(p, durable)
     \/ /\ ReadMayFail
        /\ Goto(p, "reread", "exchange")
        /\ Got(p, NoCred)
  /\ UNCHANGED <<world, durable, memory, mine, old>>

\* The refresh token presented: the one read again, else the one the call
\* carries.
Tok(p) == IF cred[p] = NoCred THEN old[p].rt ELSE cred[p].rt

\* What the vendor issues next: the refresh token is rotated or kept.
Issued == {[at |-> current.at + 1, rt |-> current.rt + d] : d \in {0, 1}}

Exchange(p) ==
  /\ Goto(p, "exchange", "put")
  /\ Tok(p) = current.rt /\ current.at < MaxAt
  /\ current' \in Issued
  /\ Got(p, current')
  /\ torn' = (torn \/ p \in Listers)
  /\ UNCHANGED <<live, lost, durable, memory, mine, old>>

\* The error of vendorauth.Refresh is returned.
Fail(p) ==
  \/ /\ p \in Callers
     /\ Goto(p, "exchange", "unlock")
     /\ Got(p, NoCred)
     /\ UNCHANGED old
  \/ p \in Listers /\ Return(p, "exchange")

\* The vendor rotates and its reply is lost (timeout, cancelled context).
ReplyLost(p) ==
  /\ Fail(p)
  /\ Tok(p) = current.rt /\ current.at < MaxAt
  /\ current' \in Issued
  /\ lost' = TRUE /\ torn' = (torn \/ p \in Listers)
  /\ UNCHANGED <<live, durable, memory, mine>>

\* Mutant of ExchangeFails: the mutex is kept.
ExchangeFailsLocked(p) ==
  /\ Return(p, "exchange")
  /\ UNCHANGED <<world, durable, memory, mine>>

\* The vendor refuses the refresh token, or the request does not reach it.
ExchangeFails(p) ==
  /\ Fail(p)
  /\ UNCHANGED <<world, durable, memory, mine>>

\* putCredentialWithRetry
Put(p) ==
  /\ p \in Callers
  /\ \/ Goto(p, "put", "clear") /\ durable' = cred[p]
     \/ Goto(p, "put", "keep") /\ UNCHANGED durable
  /\ UNCHANGED <<world, memory, mine, old, cred>>

\* The one Put of a discovery, whose failure ends it.
ListerPut(p) ==
  /\ p \in Listers
  /\ Return(p, "put")
  /\ durable' \in {cred[p], durable}
  /\ UNCHANGED <<world, memory, mine>>

\* Mutant of Keep: the tokens are dropped.
KeepNothing(p) ==
  /\ Goto(p, "keep", "unlock")
  /\ UNCHANGED <<world, durable, memory, mine, old, cred>>

\* storePendingCred
Keep(p) ==
  /\ Goto(p, "keep", "unlock")
  /\ pending' = cred[p]
  /\ UNCHANGED <<world, durable, gates, holder, mine, old, cred>>

\* Mutant of Clear: the persisted credential stays pending.
ClearNothing(p) ==
  /\ Goto(p, "clear", "unlock")
  /\ UNCHANGED <<world, durable, memory, mine, old, cred>>

\* clearPendingCred
Clear(p) ==
  /\ Goto(p, "clear", "unlock")
  /\ pending' = NoCred
  /\ UNCHANGED <<world, durable, gates, holder, mine, old, cred>>

\* The deferred Unlock: an error is dropped and the 401 surfaces.
Unlock(p) ==
  /\ \/ cred[p] # NoCred /\ Goto(p, "unlock", "retry") /\ UNCHANGED <<old, cred>>
     \/ cred[p] = NoCred /\ Return(p, "unlock")
  /\ holder' = [holder EXCEPT ![mine[p]] = Nobody]
  /\ mine' = [mine EXCEPT ![p] = NoGate]
  /\ UNCHANGED <<world, durable, pending, gates>>

\* The upstream call is sent again with the new credential; the loop goes on.
Retry(p) ==
  /\ Return(p, "retry")
  /\ UNCHANGED <<world, durable, memory, mine>>

-----------------------------------------------------------------------------
\* Every access token issued so far expires.
Expire ==
  /\ live <= current.at
  /\ live' = current.at + 1
  /\ UNCHANGED <<current, lost, torn, durable, memory, pc, mine, old, cred>>

\* The gateway stops and starts, without gates: only the secret survives.
Restart ==
  /\ pending' = NoCred
  /\ gates' = NoGate
  /\ holder' = [g \in Gates |-> Nobody]
  /\ pc' = [p \in Procs |-> "idle"]
  /\ lost' = (lost \/ durable # current) /\ torn' = FALSE
  /\ mine' = [p \in Procs |-> NoGate]
  /\ old' = [p \in Procs |-> NoCred]
  /\ cred' = [p \in Procs |-> NoCred]
  /\ UNCHANGED <<current, live, durable>>

Step(p) ==
  \/ Load(p) \/ Accepted(p) \/ Refused(p) \/ Expiring(p)
  \/ Look(p) \/ Make(p) \/ Take(p) \/ Lock(p)
  \/ TakePending(p) \/ PutPending(p) \/ Reread(p)
  \/ Exchange(p) \/ ReplyLost(p) \/ ExchangeFails(p)
  \/ Put(p) \/ ListerPut(p) \/ Keep(p) \/ Clear(p) \/ Unlock(p) \/ Retry(p)

Next ==
  \/ \E p \in Procs : Begin(p) \/ Step(p)
  \/ Expire
  \/ Restart

Spec == Init /\ [][Next]_vars

-----------------------------------------------------------------------------
(***************************************************************************)
(* Properties.                                                             *)
(***************************************************************************)

\* Every variable holds a value of its type; the secret is always a credential.
TypeOK ==
  /\ current \in Cred
  /\ live \in 1..(MaxAt + 1)
  /\ durable \in Cred
  /\ pending \in Cred \cup {NoCred}
  /\ gates \in Gates \cup {NoGate}
  /\ holder \in [Gates -> Callers \cup {Nobody}]
  /\ pc \in [Procs -> Locations]
  /\ mine \in [Procs -> Gates \cup {NoGate}]
  /\ old \in [Procs -> Cred \cup {NoCred}]
  /\ cred \in [Procs -> Cred \cup {NoCred}]
  /\ lost \in BOOLEAN
  /\ torn \in BOOLEAN

\* "serializes refresh per account": two goroutines are never refreshing the
\* account's credential at once.  A gateway that has just started breaks it:
\* oauthLock tests and sets the gates under no lock.
OneRefresher ==
  \A p, q \in Procs : pc[p] \in Refreshing /\ pc[q] \in Refreshing => p = q

\* No refresh that could read the secret again ("re-reads durable secrets
\* before rotating") presents a refresh token the vendor has rotated out, as
\* long as no issued credential was lost and no two refreshes have overlapped.
NoReplay ==
  ~lost /\ ~torn =>
           \A p \in Procs :
             pc[p] = "exchange" /\ cred[p] # NoCred => Tok(p) = current.rt

\* "never drops newly issued tokens when Put fails": the newest credential is
\* in the secret store, in memory, or in the hands of the refresh about to
\* store it, unless a reply or the process was lost or two refreshes overlapped.
NothingDropped ==
  ~lost /\ ~torn =>
           \/ current \in {durable, pending}
           \/ \E p \in Procs : pc[p] \in {"put", "keep"} /\ cred[p] = current

\* The call is sent again with a newer access token than the one the vendor
\* refused, whether it was refreshed here, by another call, or kept in memory,
\* unless two refreshes overlapped.
RetryIsNewer ==
  ~torn => \A p \in Procs : pc[p] = "retry" => cred[p].at > old[p].at

\* The secret is never replaced by an older credential, although puts fail,
\* are repeated later, and are made by different goroutines, unless two
\* refreshes overlapped.
DurableForward == [][torn \/ durable'.at >= durable.at]_durable

\* No mutex is left behind: whoever holds one is still in a refresh under it, so
\* no call waits for one that has failed, returned or been restarted away.
MutexInUse ==
  \A g \in Gates : holder[g] # Nobody => /\ pc[holder[g]] \in Refreshing
                                        /\ mine[holder[g]] = g

-----------------------------------------------------------------------------
(***************************************************************************)
(* What the properties rest on.                                            *)
(***************************************************************************)

\* Everyone in refreshOAuthCredential holds the mutex of the gates object it
\* took, and until the account is torn nobody refreshes beside it.
Serial ==
  /\ \A p \in Callers :
       /\ pc[p] = "take" => gates # NoGate
       /\ pc[p] \in Refreshing \cup {"lock"} => mine[p] \in Gates
       /\ pc[p] \in Refreshing => holder[mine[p]] = p
  /\ ~torn => /\ \A p, q \in Callers :
                   pc[p] \in Refreshing /\ pc[q] \in Refreshing => p = q
              /\ \A p \in Listers : pc[p] # "put"

\* The credentials the gateway knows.
Known ==
  {c \in Cred : \/ c \in {current, durable, pending}
                \/ \E p \in Procs : c \in {old[p], cred[p]}}

\* They were issued in one sequence, of which current is the last.
Ordered ==
  \A c \in Known : c.at <= current.at /\ \A d \in Known : c.at = d.at => c = d

\* How the copies of the credential compare at each point of a refresh, until
\* the account is torn.
Vault ==
  ~torn =>
    /\ pending # NoCred => \/ pending.at > durable.at
                           \/ \E p \in Callers : pc[p] = "clear"
    /\ \A p \in Callers :
         /\ old[p] # NoCred => old[p].at <= durable.at
         /\ pc[p] = "putpending" => cred[p] = pending
         /\ pc[p] \in {"reread", "exchange", "put"} => pending = NoCred
         /\ pc[p] \in {"put", "keep"} => cred[p].at > durable.at
         /\ pc[p] \in {"keep", "clear"} => pending \in {NoCred, cred[p]}
         /\ pc[p] = "clear" => cred[p] = durable
         /\ pc[p] = "exchange" => cred[p] \in {NoCred, durable}
         /\ (pc[p] \in {"clear", "unlock", "retry"} /\ cred[p] # NoCred)
               => cred[p].at > old[p].at

=============================================================================

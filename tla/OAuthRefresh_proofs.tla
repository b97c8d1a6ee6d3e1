------------------------- MODULE OAuthRefresh_proofs -------------------------
(***************************************************************************)
(* Theorems about the refresh of an account's OAuth credential, for any    *)
(* number of calls and any number of issued credentials.                   *)
(***************************************************************************)
EXTENDS OAuthRefresh, TLAPS

(***************************************************************************)
(* Type correctness.  Only callers of the engine take the mutex, and a     *)
(* credential is at hand wherever one is stored or compared.               *)
(***************************************************************************)
OnlyCallers == {"look", "make", "take", "lock"} \cup (Refreshing \ {"exchange", "put"})

AtHand ==
  /\ current.rt <= current.at
  /\ \A p \in Procs :
       /\ pc[p] \in OnlyCallers => p \in Callers
       /\ pc[p] \in {"putpending", "put", "clear", "keep", "retry"} => cred[p] # NoCred
       /\ (p \in Listers /\ cred[p] # NoCred) => pc[p] = "put"
       /\ pc[p] = "retry" => p \in Callers
       /\ pc[p] \notin {"idle", "load"} => old[p] # NoCred

Typed == TypeOK /\ AtHand

LEMMA TypedInit == Init => Typed
<1> SUFFICES ASSUME Init PROVE Typed
  OBVIOUS
<1>1. current \in Cred /\ current = [at |-> 1, rt |-> 1]
  BY OAuthAssumption DEF Init, Cred
<1>2. live \in 1..(MaxAt + 1)
  BY OAuthAssumption DEF Init
<1>3. pc = [p \in Procs |-> "idle"] /\ pc \in [Procs -> Locations]
  BY DEF Init, Locations
<1>4. TypeOK
  BY <1>1, <1>2, <1>3 DEF Init, TypeOK, Gates
<1>5. AtHand
  BY <1>1, <1>3 DEF AtHand, OnlyCallers, Refreshing, Init
<1> QED
  BY <1>4, <1>5 DEF Typed

LEMMA TypedStep ==
  ASSUME Typed, NEW p \in Procs, Begin(p) \/ Step(p)
  PROVE  Typed'
<1> USE OAuthAssumption
    DEF Typed, TypeOK, AtHand, OnlyCallers, Refreshing, Locations, world,
        memory, Goto, Got, Return
<1>1. CASE Begin(p)
  BY <1>1 DEF Begin
<1>2. CASE Load(p)
  BY <1>2 DEF Load
<1>3. CASE Accepted(p)
  BY <1>3 DEF Accepted
<1>4. CASE Refused(p)
  BY <1>4 DEF Refused, Procs
<1>5. CASE Expiring(p)
  BY <1>5 DEF Expiring, Callers
<1>6. CASE Look(p)
  BY <1>6 DEF Look
<1>7. CASE Make(p)
  BY <1>7 DEF Make, Gates
<1>8. CASE Take(p)
  BY <1>8 DEF Take
<1>9. CASE Lock(p)
  BY <1>9 DEF Lock
<1>10. CASE TakePending(p)
  BY <1>10 DEF TakePending
<1>11. CASE PutPending(p)
  BY <1>11 DEF PutPending
<1>12. CASE Reread(p)
  BY <1>12 DEF Reread
<1>13. ASSUME current' \in Issued, current.at < MaxAt
       PROVE  current' \in Cred /\ current'.rt <= current'.at
  BY <1>13 DEF Issued, Cred
<1>14. CASE Exchange(p)
  BY <1>13, <1>14 DEF Exchange
<1>15. CASE ReplyLost(p)
  <2>1. CASE p \in Callers
    BY <1>13, <1>15, <2>1 DEF ReplyLost, Fail
  <2>2. CASE p \notin Callers
    BY <1>13, <1>15, <2>2 DEF ReplyLost, Fail
  <2> QED BY <2>1, <2>2
<1>16. CASE ExchangeFails(p)
  BY <1>16 DEF ExchangeFails, Fail
<1>17. CASE Put(p)
  BY <1>17 DEF Put
<1>18. CASE ListerPut(p)
  BY <1>18 DEF ListerPut
<1>19. CASE Keep(p)
  BY <1>19 DEF Keep
<1>20. CASE Clear(p)
  BY <1>20 DEF Clear
<1>21. CASE Unlock(p)
  BY <1>21 DEF Unlock
<1>22. CASE Retry(p)
  BY <1>22 DEF Retry
<1> QED
  BY <1>1, <1>2, <1>3, <1>4, <1>5, <1>6, <1>7, <1>8, <1>9, <1>10, <1>11,
     <1>12, <1>14, <1>15, <1>16, <1>17, <1>18, <1>19, <1>20, <1>21, <1>22
     DEF Step

LEMMA TypedNext == Typed /\ [Next]_vars => Typed'
<1> SUFFICES ASSUME Typed, [Next]_vars PROVE Typed'
  OBVIOUS
<1>1. CASE Expire
  <2>1. live' \in 1..(MaxAt + 1)
    BY <1>1, OAuthAssumption DEF Expire, Typed, TypeOK, Cred
  <2> QED BY <1>1, <2>1 DEF Expire, Typed, TypeOK, AtHand, memory
<1>2. CASE Restart
  BY <1>2, OAuthAssumption
     DEF Restart, Typed, TypeOK, AtHand, OnlyCallers, Refreshing, Gates,
         Locations
<1>3. CASE UNCHANGED vars
  BY <1>3 DEF vars, Typed, TypeOK, AtHand
<1> QED
  BY <1>1, <1>2, <1>3, TypedStep DEF Next

\* Every variable keeps its type, and the secret is always a credential.
THEOREM TypeCorrect == Spec => []TypeOK
<1>1. Typed => TypeOK
  BY DEF Typed
<1> QED
  BY TypedInit, TypedNext, <1>1, PTL DEF Spec

THEOREM TypedAlways == Spec => []Typed
  BY TypedInit, TypedNext, PTL DEF Spec

-----------------------------------------------------------------------------
(***************************************************************************)
(* The mutex.  The gates are made lazily and under no lock, so two calls   *)
(* may hold the account's mutex of two gates objects; what holds always is *)
(* that one object's mutex is held by one call, and that the account is    *)
(* torn from the moment two refreshes overlap until the next restart.      *)
(***************************************************************************)
Locked == Serial /\ MutexInUse

LEMMA LockedStep ==
  ASSUME Typed, Locked, NEW p \in Procs, Begin(p) \/ Step(p)
  PROVE  Locked'
<1> USE OAuthAssumption
    DEF Typed, TypeOK, AtHand, OnlyCallers, Refreshing, Locked, Serial,
        MutexInUse, memory, world, Goto, Got, Return, Locations, Gates
<1>0. /\ p \in Callers \/ p \in Listers
      /\ Callers \subseteq Procs /\ Listers \subseteq Procs
      /\ Callers \cap Listers = {} /\ Nobody \notin Callers /\ NoGate \notin Callers
  BY DEF Procs
<1>1. CASE Begin(p)
  BY <1>0, <1>1 DEF Begin
<1>2. CASE Load(p) \/ Accepted(p)
  BY <1>0, <1>2 DEF Load, Accepted
<1>3. CASE Refused(p) \/ Expiring(p)
  BY <1>0, <1>3 DEF Refused, Expiring, Callers
<1>4. CASE Look(p)
  BY <1>0, <1>4 DEF Look
<1>5. CASE Make(p)
  BY <1>0, <1>5 DEF Make
<1>6. CASE Take(p)
  BY <1>0, <1>6 DEF Take
<1>7. CASE Lock(p)
  <2>1. /\ p \in Callers /\ pc[p] = "lock" /\ pc' = [pc EXCEPT ![p] = "pending"]
        /\ mine[p] \in Gates /\ holder[mine[p]] = Nobody
        /\ holder' = [holder EXCEPT ![mine[p]] = p]
        /\ torn' = (torn \/ \E q \in Callers : /\ pc[q] \in Refreshing
                                               /\ mine[q] # mine[p])
        /\ UNCHANGED <<mine, gates>>
    BY <1>0, <1>7 DEF Lock
  <2>2. \A q \in Callers : pc[q] \in Refreshing => mine[q] # mine[p]
    BY <2>1, OAuthAssumption DEF Callers, Procs
  <2>3. ~torn' => \A q \in Callers : pc[q] \notin Refreshing
    BY <1>0, <2>1, <2>2
  <2>4. Serial'
    BY <1>0, <2>1, <2>2, <2>3
  <2>5. MutexInUse'
    BY <1>0, <2>1
  <2> QED BY <2>4, <2>5
<1>8. CASE TakePending(p) \/ PutPending(p)
  BY <1>0, <1>8 DEF TakePending, PutPending
<1>9. CASE Reread(p)
  BY <1>0, <1>9 DEF Reread
<1>10. CASE Exchange(p)
  <2>1. /\ pc[p] = "exchange" /\ pc' = [pc EXCEPT ![p] = "put"]
        /\ torn' = (torn \/ p \in Listers)
        /\ UNCHANGED <<gates, holder, mine>>
    BY <1>10 DEF Exchange
  <2>2. CASE p \in Callers
    BY <1>0, <2>1, <2>2
  <2>3. CASE p \in Listers
    <3>0. torn'
      BY <2>1, <2>3, Zenon
    <3>1. \A q \in Callers : pc'[q] = pc[q]
      BY <1>0, <2>1, <2>3
    <3>2. \A g \in Gates : holder[g] # Nobody => holder[g] \in Callers
      OBVIOUS
    <3> QED BY <1>0, <2>1, <3>0, <3>1, <3>2
  <2> QED BY <1>0, <2>2, <2>3
<1>11. CASE ReplyLost(p) \/ ExchangeFails(p)
  BY <1>0, <1>11 DEF ReplyLost, ExchangeFails, Fail
<1>12. CASE Put(p)
  BY <1>0, <1>12 DEF Put
<1>13. CASE ListerPut(p)
  BY <1>0, <1>13 DEF ListerPut
<1>14. CASE Keep(p) \/ Clear(p)
  BY <1>0, <1>14 DEF Keep, Clear
<1>15. CASE Unlock(p)
  <2>1. /\ p \in Callers /\ pc[p] = "unlock" /\ mine[p] \in Gates
        /\ holder[mine[p]] = p
        /\ \/ pc' = [pc EXCEPT ![p] = "retry"] \/ pc' = [pc EXCEPT ![p] = "idle"]
        /\ holder' = [holder EXCEPT ![mine[p]] = Nobody]
        /\ mine' = [mine EXCEPT ![p] = NoGate]
        /\ UNCHANGED <<gates, torn>>
    BY <1>0, <1>15 DEF Unlock
  <2>2. \A q \in Callers \ {p} : pc[q] \in Refreshing => mine[q] # mine[p]
    BY <1>0, <2>1
  <2>3. Serial'
    BY <1>0, <2>1, <2>2
  <2>4. MutexInUse'
    BY <1>0, <2>1
  <2> QED BY <2>3, <2>4
<1>16. CASE Retry(p)
  BY <1>0, <1>16 DEF Retry
<1> QED
  BY <1>1, <1>2, <1>3, <1>4, <1>5, <1>6, <1>7, <1>8, <1>9, <1>10, <1>11,
     <1>12, <1>13, <1>14, <1>15, <1>16 DEF Step

LEMMA LockedNext == Typed /\ Locked /\ [Next]_vars => Locked'
<1> SUFFICES ASSUME Typed, Locked, [Next]_vars PROVE Locked'
  OBVIOUS
<1>1. CASE Expire
  BY <1>1 DEF Expire, Locked, Serial, MutexInUse, memory
<1>2. CASE Restart
  BY <1>2, OAuthAssumption
     DEF Restart, Locked, Serial, MutexInUse, Refreshing, Gates, Callers,
         Procs, Typed, TypeOK
<1>3. CASE UNCHANGED vars
  BY <1>3 DEF vars, Locked, Serial, MutexInUse
<1> QED
  BY <1>1, <1>2, <1>3, LockedStep DEF Next

LEMMA LockedAlways == Spec => []Locked
<1>1. Init => Locked
  BY DEF Init, Locked, Serial, MutexInUse, Refreshing, Gates, Callers, Procs
<1> QED
  BY <1>1, LockedNext, TypedAlways, PTL DEF Spec

\* No mutex is left behind by a call that has ended.
THEOREM NoMutexLeft == Spec => []MutexInUse
<1>1. Locked => MutexInUse
  BY DEF Locked
<1> QED
  BY <1>1, LockedAlways, PTL

\* Two calls refresh the account at once only under the mutexes of two gates
\* objects, which needs two calls that both found the gates missing.
ApartOnly ==
  \A p, q \in Callers :
    (pc[p] \in Refreshing /\ pc[q] \in Refreshing /\ p # q) => mine[p] # mine[q]

\* What is left of "serializes refresh per account" on a gateway that has just
\* started: two refreshes that overlap hold mutexes of different gates objects.
THEOREM OverlapNeedsTwoGates == Spec => []ApartOnly
<1>1. Locked => ApartOnly
  BY DEF Locked, Serial, ApartOnly
<1> QED
  BY <1>1, LockedAlways, PTL

-----------------------------------------------------------------------------
(***************************************************************************)
(* The credentials the gateway knows are totally ordered: a copy with the  *)
(* same access token is the same credential.                               *)
(***************************************************************************)
LEMMA OrderedFrom ==
  ASSUME Typed, Typed', Ordered,
         \A c \in Known' : c \in Known \/ c = current',
         current' = current \/ current'.at = current.at + 1
  PROVE  Ordered'
<1> USE DEF Typed, TypeOK, Cred
<1>1. current \in Known /\ current \in Cred /\ current' \in Cred
  BY DEF Known
<1>2. \A c \in Known : c \in Cred /\ c.at <= current.at
  BY DEF Ordered, Known
<1>3. \A c \in Known' : c.at <= current'.at
  BY <1>1, <1>2
<1>4. ASSUME NEW c \in Known', NEW d \in Known', c.at = d.at PROVE c = d
  <2>1. CASE c \in Known /\ d \in Known
    BY <1>4, <2>1 DEF Ordered
  <2>2. CASE current' = current
    BY <1>1, <1>4, <2>2 DEF Ordered
  <2>3. CASE current'.at = current.at + 1
    BY <1>1, <1>2, <1>4, <2>1, <2>3
  <2> QED BY <2>2, <2>3
<1> QED
  BY <1>3, <1>4 DEF Ordered

\* A step that only copies credentials.
LEMMA OrderedCopies ==
  ASSUME Typed, Typed', Ordered, current' = current,
         durable' \in Known, pending' \in Known \cup {NoCred},
         \A q \in Procs : old'[q] \in Known \cup {NoCred} /\ cred'[q] \in Known \cup {NoCred}
  PROVE  Ordered'
<1>1. current \in Known /\ NoCred \notin Cred
  BY OAuthAssumption DEF Known, Typed, TypeOK
<1>2. \A c \in Known' : c \in Known \/ c = current'
  BY <1>1 DEF Known
<1> QED
  BY <1>2, OrderedFrom

\* Every copy is known.
LEMMA AllKnown ==
  ASSUME Typed
  PROVE  /\ current \in Known /\ durable \in Known
         /\ pending \in Known \cup {NoCred}
         /\ \A q \in Procs : /\ old[q] \in Known \cup {NoCred}
                            /\ cred[q] \in Known \cup {NoCred}
  BY DEF Known, Typed, TypeOK

LEMMA OrderedStep ==
  ASSUME Typed, Typed', Ordered, NEW p \in Procs, Begin(p) \/ Step(p)
  PROVE  Ordered'
<1> USE DEF memory, world, Goto, Got, Return
<1>0. /\ old \in [Procs -> Cred \cup {NoCred}] /\ cred \in [Procs -> Cred \cup {NoCred}]
  BY DEF Typed, TypeOK
<1>1. CASE Exchange(p) \/ ReplyLost(p)
  <2>1. current' \in Issued /\ durable' = durable /\ pending' = pending
    BY <1>1 DEF Exchange, ReplyLost
  <2>2. \A q \in Procs : /\ old'[q] \in {old[q], NoCred}
                        /\ cred'[q] \in {cred[q], current', NoCred}
    BY <1>0, <1>1 DEF Exchange, ReplyLost, Fail
  <2>3. \A c \in Known' : c \in Known \/ c = current'
    BY <2>1, <2>2, OAuthAssumption DEF Known
  <2>4. current'.at = current.at + 1
    BY <2>1 DEF Issued
  <2> QED BY <2>3, <2>4, OrderedFrom
<1>2. CASE \/ Begin(p) \/ Accepted(p) \/ Refused(p) \/ Expiring(p) \/ Look(p)
           \/ Make(p) \/ Take(p) \/ Lock(p) \/ Clear(p) \/ Unlock(p)
           \/ Retry(p) \/ ExchangeFails(p)
  <2>1. current' = current /\ durable' = durable /\ pending' \in {pending, NoCred}
    BY <1>2 DEF Begin, Accepted, Refused, Expiring, Look, Make, Take, Lock,
                Clear, Unlock, Retry, ExchangeFails
  <2>2. \A q \in Procs : old'[q] \in {old[q], NoCred} /\ cred'[q] \in {cred[q], NoCred}
    BY <1>0, <1>2 DEF Begin, Accepted, Refused, Expiring, Look, Make, Take, Lock,
                Clear, Unlock, Retry, ExchangeFails, Fail
  <2> QED BY <2>1, <2>2, AllKnown, OrderedCopies
<1>3. CASE Load(p) \/ TakePending(p) \/ Reread(p)
  <2>1. current' = current /\ durable' = durable /\ pending' = pending
    BY <1>3 DEF Load, TakePending, Reread
  <2>2. \A q \in Procs : /\ old'[q] \in {old[q], durable}
                        /\ cred'[q] \in {cred[q], pending, durable, NoCred}
    BY <1>0, <1>3 DEF Load, TakePending, Reread
  <2> QED BY <2>1, <2>2, AllKnown, OrderedCopies
<1>4. CASE PutPending(p) \/ Put(p) \/ ListerPut(p)
  <2>1. /\ current' = current /\ durable' \in {durable, cred[p]}
        /\ pending' = pending
    BY <1>4 DEF PutPending, Put, ListerPut
  <2>2. cred[p] # NoCred
    BY <1>4 DEF PutPending, Put, ListerPut, Typed, AtHand
  <2>3. \A q \in Procs : old'[q] \in {old[q], NoCred} /\ cred'[q] \in {cred[q], NoCred}
    BY <1>0, <1>4 DEF PutPending, Put, ListerPut
  <2> QED BY <2>1, <2>2, <2>3, AllKnown, OrderedCopies
<1>5. CASE Keep(p)
  <2>1. /\ UNCHANGED <<current, durable, old, cred>> /\ pending' = cred[p]
    BY <1>5 DEF Keep
  <2> QED BY <2>1, AllKnown, OrderedCopies
<1> QED
  BY <1>1, <1>2, <1>3, <1>4, <1>5 DEF Step

LEMMA OrderedNext == Typed /\ Ordered /\ [Next]_vars => Ordered'
<1> SUFFICES ASSUME Typed, Ordered, [Next]_vars PROVE Ordered'
  OBVIOUS
<1>0. Typed'
  BY TypedNext
<1>1. CASE Expire \/ UNCHANGED vars
  BY <1>0, <1>1, AllKnown, OrderedCopies DEF Expire, vars, memory
<1>2. CASE Restart
  BY <1>0, <1>2, AllKnown, OrderedCopies DEF Restart
<1> QED
  BY <1>0, <1>1, <1>2, OrderedStep DEF Next

LEMMA OrderedAlways == Spec => []Ordered
<1>1. Init => Ordered
  <2> SUFFICES ASSUME Init PROVE Ordered
    OBVIOUS
  <2>1. \A c \in Known : c = current
    BY OAuthAssumption DEF Init, Known
  <2>2. current.at <= current.at
    BY DEF Init
  <2> QED BY <2>1, <2>2 DEF Ordered
<1> QED
  BY <1>1, OrderedNext, TypedAlways, PTL DEF Spec

-----------------------------------------------------------------------------
(***************************************************************************)
(* Where the newest credential is.  A refresh compares three copies (the   *)
(* secret, the pending one, its own), and the argument is that at each of  *)
(* its points the copies it has not written yet are older (Vault).         *)
(***************************************************************************)
Safe == Typed /\ Locked /\ Ordered /\ Vault /\ NothingDropped

\* What Ordered says of the named copies.
LEMMA Compare ==
  ASSUME Typed, Ordered
  PROVE  /\ current.at \in Nat /\ durable.at \in Nat
         /\ durable.at <= current.at
         /\ durable.at = current.at => durable = current
         /\ pending # NoCred => /\ pending.at \in Nat /\ pending.at <= current.at
                                /\ pending.at = current.at => pending = current
         /\ \A q \in Procs : old[q] # NoCred =>
               /\ old[q].at \in Nat
               /\ old[q].at = durable.at => old[q] = durable
         /\ \A q \in Procs : cred[q] # NoCred =>
               /\ cred[q].at \in Nat /\ cred[q].at <= current.at
               /\ cred[q].at = current.at => cred[q] = current
<1>1. \A c \in Known : c \in Cred /\ c.at \in Nat
  BY DEF Known, Cred
<1> QED
  BY <1>1, AllKnown DEF Ordered

\* Nobody else is in the middle of a refresh, but for a discovery whose
\* exchange has not been answered.
LEMMA Alone ==
  ASSUME Locked, ~torn
  PROVE  \A p \in Callers : pc[p] \in Refreshing =>
           /\ \A q \in Callers \ {p} : pc[q] \notin Refreshing
           /\ \A q \in Listers : pc[q] # "put"
  BY DEF Locked, Serial

\* A step of a call outside of the mutex, or of a discovery, that leaves the
\* secret, the pending credential and what was issued as they are.
LEMMA VaultKept ==
  ASSUME Safe, UNCHANGED <<current, durable, pending, lost, torn>>,
         \A q \in Callers :
           \/ pc'[q] = pc[q] /\ old'[q] = old[q] /\ cred'[q] = cred[q]
           \/ /\ pc[q] \notin Refreshing
              /\ pc'[q] \in {"idle", "load", "send", "look", "make", "take", "lock"}
              /\ old'[q] \in {old[q], durable, NoCred},
         \A q \in Listers : pc[q] \notin {"put", "keep"}
  PROVE  ~torn => Vault' /\ NothingDropped'
<1> SUFFICES ASSUME ~torn PROVE Vault' /\ NothingDropped'
  OBVIOUS
<1>1. Vault'
  <2> USE DEF Vault, Refreshing
  <2>1. durable.at <= durable.at
    BY Compare DEF Safe
  <2>2. \A q \in Callers : pc'[q] = "clear" <=> pc[q] = "clear"
    OBVIOUS
  <2>3. \A q \in Callers :
          /\ old'[q] # NoCred => old'[q].at <= durable'.at
          /\ pc'[q] = "putpending" => cred'[q] = pending'
          /\ pc'[q] \in {"reread", "exchange", "put"} => pending' = NoCred
          /\ pc'[q] \in {"put", "keep"} => cred'[q].at > durable'.at
          /\ pc'[q] \in {"keep", "clear"} => pending' \in {NoCred, cred'[q]}
          /\ pc'[q] = "clear" => cred'[q] = durable'
          /\ pc'[q] = "exchange" => cred'[q] \in {NoCred, durable'}
          /\ (pc'[q] \in {"clear", "unlock", "retry"} /\ cred'[q] # NoCred)
                => cred'[q].at > old'[q].at
    BY <2>1 DEF Safe
  <2> QED BY <2>2, <2>3 DEF Safe
<1>2. NothingDropped'
  <2>1. \A q \in Procs : pc[q] \in {"put", "keep"} => q \in Callers
    BY DEF Procs
  <2>2. \A q \in Callers : pc[q] \in {"put", "keep"} =>
                             pc'[q] = pc[q] /\ cred'[q] = cred[q]
    BY DEF Refreshing
  <2>3. Callers \subseteq Procs
    BY DEF Procs
  <2> QED BY <2>1, <2>2, <2>3 DEF Safe, NothingDropped
<1> QED BY <1>1, <1>2

\* A discovery reaches "put" only by an exchange that tears the account.
LEMMA ListersOut ==
  ASSUME Safe, ~torn
  PROVE  \A q \in Listers : pc[q] \notin {"put", "keep"}
  BY OAuthAssumption DEF Safe, Locked, Serial, Typed, AtHand, OnlyCallers,
     Refreshing, Procs

\* The steps before the mutex and after it, and those of a discovery.
LEMMA VaultOutside ==
  ASSUME Safe, ~torn, NEW p \in Procs,
         \/ Begin(p) \/ Load(p) \/ Accepted(p) \/ Refused(p) \/ Expiring(p)
         \/ Look(p) \/ Make(p) \/ Take(p)
         \/ p \in Listers /\ (ExchangeFails(p) \/ ReplyLost(p))
  PROVE  ~torn' => Vault' /\ NothingDropped'
<1> USE DEF memory, world, Goto, Got, Return
<1>0. /\ pc \in [Procs -> Locations] /\ old \in [Procs -> Cred \cup {NoCred}]
      /\ cred \in [Procs -> Cred \cup {NoCred}] /\ Callers \subseteq Procs
      /\ Callers \cap Listers = {}
  BY OAuthAssumption DEF Safe, Typed, TypeOK, Procs
<1>1. CASE \/ Begin(p) \/ Load(p) \/ Accepted(p) \/ Refused(p) \/ Expiring(p)
           \/ Look(p) \/ Make(p) \/ Take(p)
           \/ p \in Listers /\ ExchangeFails(p)
  <2>1. UNCHANGED <<current, durable, pending, lost, torn>>
    BY <1>1 DEF Begin, Load, Accepted, Refused, Expiring, Look, Make, Take,
                ExchangeFails
  <2>2. ASSUME NEW q \in Callers
        PROVE  \/ pc'[q] = pc[q] /\ old'[q] = old[q] /\ cred'[q] = cred[q]
               \/ /\ pc[q] \notin Refreshing
                  /\ pc'[q] \in {"idle", "load", "send", "look", "make", "take", "lock"}
                  /\ old'[q] \in {old[q], durable, NoCred}
    <3>1. CASE q = p
      <4>1. q \notin Listers
        BY <1>0
      <4> QED BY <1>0, <1>1, <3>1, <4>1
        DEF Begin, Load, Accepted, Refused, Expiring, Look, Make, Take,
            Refreshing
    <3>2. CASE q # p
      BY <1>0, <1>1, <3>2
      DEF Begin, Load, Accepted, Refused, Expiring, Look, Make, Take,
          ExchangeFails, Fail
    <3> QED BY <3>1, <3>2
  <2> QED BY <2>1, <2>2, ListersOut, VaultKept
<1>2. CASE p \in Listers /\ ReplyLost(p)
  BY <1>2 DEF ReplyLost
<1> QED
  BY <1>1, <1>2

\* The steps of a refresh.
LEMMA VaultInside ==
  ASSUME Safe, ~torn, NEW p \in Callers,
         \/ Lock(p) \/ TakePending(p) \/ PutPending(p) \/ Reread(p)
         \/ Exchange(p) \/ ReplyLost(p) \/ ExchangeFails(p)
         \/ Put(p) \/ Keep(p) \/ Clear(p) \/ Unlock(p) \/ Retry(p)
  PROVE  ~torn' => Vault' /\ NothingDropped'
<1> SUFFICES ASSUME ~torn' PROVE Vault' /\ NothingDropped'
  OBVIOUS
<1> USE DEF Safe, Typed, TypeOK, AtHand, Vault, NothingDropped, memory,
            world, Goto, Got, Return, Locations, Refreshing
<1>0. /\ Callers \subseteq Procs /\ p \notin Listers
      /\ \A q \in Callers \ {p} : pc[p] \in Refreshing => pc[q] \notin Refreshing
      /\ \A q \in Procs \ Callers : pc[q] \notin {"put", "keep"}
  BY Alone, ListersOut, OAuthAssumption DEF Procs
<1>1. CASE Lock(p)
  BY <1>0, <1>1 DEF Lock
<1>2. CASE TakePending(p)
  BY <1>0, <1>2 DEF TakePending
<1>3. CASE PutPending(p)
  BY <1>0, <1>3, Compare DEF PutPending
<1>4. CASE Reread(p)
  <2>1. /\ pc[p] = "reread" /\ pending = NoCred
        /\ UNCHANGED <<current, lost, durable, pending, old>>
    BY <1>4 DEF Reread
  <2>2. \A q \in Callers \ {p} : pc[q] \notin Refreshing
    BY <1>0, <2>1
  <2>3. old[p] # durable => durable.at > old[p].at
    BY <1>0, <2>1, Compare
  <2>4. CASE durable # old[p] /\ pc' = [pc EXCEPT ![p] = "unlock"]
             /\ cred' = [cred EXCEPT ![p] = durable]
    <3>1. Vault'
      BY <1>0, <2>1, <2>2, <2>3, <2>4
    <3>2. NothingDropped'
      BY <1>0, <2>1, <2>2, <2>4
    <3> QED BY <3>1, <3>2
  <2>5. CASE pc' = [pc EXCEPT ![p] = "exchange"]
             /\ \E c \in {durable, NoCred} : cred' = [cred EXCEPT ![p] = c]
    <3>1. Vault'
      BY <1>0, <2>1, <2>2, <2>5
    <3>2. NothingDropped'
      BY <1>0, <2>1, <2>2, <2>5
    <3> QED BY <3>1, <3>2
  <2> QED BY <1>4, <2>4, <2>5 DEF Reread
<1>5. CASE Exchange(p)
  <2>1. current'.at = current.at + 1
    BY <1>5 DEF Exchange, Issued
  <2>2. /\ pc' = [pc EXCEPT ![p] = "put"] /\ pc[p] = "exchange"
        /\ cred' = [cred EXCEPT ![p] = current']
        /\ UNCHANGED <<durable, pending, old, lost>>
    BY <1>5 DEF Exchange
  <2>3. \A q \in Callers \ {p} : pc[q] \notin Refreshing
    BY <1>0, <2>2
  <2>4. cred'[p].at > durable'.at
    BY <1>0, <2>1, <2>2, Compare
  <2>5. Vault'
    BY <1>0, <2>2, <2>3, <2>4
  <2>6. NothingDropped'
    BY <1>0, <2>2
  <2> QED BY <2>5, <2>6
<1>6. CASE ReplyLost(p) \/ ExchangeFails(p)
  BY <1>0, <1>6, Compare DEF ReplyLost, ExchangeFails, Fail
<1>7. CASE Put(p)
  BY <1>0, <1>7, Compare DEF Put
<1>9. CASE Keep(p)
  <2>1. /\ pc[p] = "keep" /\ pc' = [pc EXCEPT ![p] = "unlock"]
        /\ pending' = cred[p]
        /\ UNCHANGED <<current, lost, durable, old, cred>>
    BY <1>9 DEF Keep
  <2>2. \A q \in Callers \ {p} : pc[q] \notin Refreshing
    BY <1>0, <2>1
  <2>3. cred[p] # NoCred /\ cred[p].at > durable.at /\ pending \in {NoCred, cred[p]}
    BY <1>0, <2>1
  <2>4. old[p] # NoCred /\ cred[p].at > old[p].at
    BY <1>0, <2>1, <2>3, Compare
  <2>5. Vault'
    BY <1>0, <2>1, <2>2, <2>3, <2>4
  <2>6. current # durable /\ current # NoCred
    BY <1>0, <2>3, Compare, OAuthAssumption
  <2>7. ~lost => cred[p] = current
    BY <1>0, <2>1, <2>2, <2>3, <2>6
  <2>8. NothingDropped'
    BY <2>1, <2>7
  <2> QED BY <2>5, <2>8
<1>10. CASE Clear(p)
  BY <1>0, <1>10, Compare DEF Clear
<1>11. CASE Unlock(p)
  BY <1>0, <1>11 DEF Unlock
<1>12. CASE Retry(p)
  BY <1>0, <1>12 DEF Retry
<1> QED
  BY <1>1, <1>2, <1>3, <1>4, <1>5, <1>6, <1>7, <1>9, <1>10, <1>11, <1>12

LEMMA VaultNext == Safe /\ [Next]_vars => Vault' /\ NothingDropped'
<1> SUFFICES ASSUME Safe, [Next]_vars PROVE Vault' /\ NothingDropped'
  OBVIOUS
<1>1. CASE Expire
  BY <1>1 DEF Expire, Safe, Vault, NothingDropped, memory
<1>2. CASE Restart
  <2>1. /\ \A p \in Procs : pc'[p] = "idle" /\ old'[p] = NoCred /\ cred'[p] = NoCred
        /\ pending' = NoCred /\ UNCHANGED <<current, durable>>
        /\ lost' = (lost \/ durable # current)
    BY <1>2 DEF Restart
  <2>2. Vault'
    BY <2>1 DEF Vault, Procs
  <2> QED BY <2>1, <2>2 DEF NothingDropped
<1>3. CASE UNCHANGED vars
  BY <1>3 DEF vars, Safe, Vault, NothingDropped
<1>4. ASSUME NEW p \in Procs, Begin(p) \/ Step(p), ~torn'
      PROVE  Vault' /\ NothingDropped'
  <2>1. ~torn
    BY <1>4 DEF Begin, Step, Load, Accepted, Refused, Expiring, Look, Make,
         Take, Lock, TakePending, PutPending, Reread, Exchange, ReplyLost,
         ExchangeFails, Put, ListerPut, Keep, Clear, Unlock, Retry, world,
         Safe, Typed, TypeOK
  <2>2. CASE p \in Callers
    <3>1. ~ListerPut(p)
      BY <2>2, OAuthAssumption DEF ListerPut
    <3> QED BY <1>4, <2>1, <2>2, <3>1, VaultOutside, VaultInside DEF Step
  <2>3. CASE p \in Listers
    <3>1. ~Exchange(p)
      BY <1>4, <2>3 DEF Exchange
    <3>2. pc[p] # "put" /\ pc[p] \notin OnlyCallers
      BY <2>1, <2>3, OAuthAssumption DEF Safe, Locked, Serial, Typed, AtHand, Procs
    <3>3. ~(Lock(p) \/ TakePending(p) \/ PutPending(p) \/ Reread(p) \/ Put(p)
            \/ ListerPut(p) \/ Keep(p) \/ Clear(p) \/ Unlock(p))
      BY <3>2 DEF Lock, TakePending, PutPending, Reread, Put, ListerPut, Keep,
                  Clear, Unlock, Goto, Return, OnlyCallers, Refreshing
    <3>4. ~Retry(p)
      BY <2>1, <2>3, OAuthAssumption
      DEF Retry, Goto, Return, Safe, Typed, AtHand, Procs
    <3> QED BY <1>4, <2>1, <2>3, <3>1, <3>3, <3>4, VaultOutside DEF Step
  <2> QED BY <2>2, <2>3 DEF Procs
<1>5. ASSUME NEW p \in Procs, Begin(p) \/ Step(p), torn'
      PROVE  Vault' /\ NothingDropped'
  BY <1>5 DEF Vault, NothingDropped
<1> QED
  BY <1>1, <1>2, <1>3, <1>4, <1>5 DEF Next

LEMMA SafeAlways == Spec => []Safe
<1>1. Init => Vault /\ NothingDropped
  BY DEF Init, Vault, NothingDropped, Procs
<1> DEFINE Base == Typed /\ Locked /\ Ordered
<1>2. Spec => []Base
  BY TypedAlways, LockedAlways, OrderedAlways, PTL
<1>3. Base /\ (Vault /\ NothingDropped) /\ [Next]_vars => (Vault /\ NothingDropped)'
  BY VaultNext DEF Safe
<1>4. Spec => [](Vault /\ NothingDropped)
  BY <1>1, <1>2, <1>3, PTL DEF Spec
<1>5. Base /\ (Vault /\ NothingDropped) => Safe
  BY DEF Safe
<1> QED
  BY <1>2, <1>4, <1>5, PTL

\* "never drops newly issued tokens when Put fails": unless a reply or the
\* process is lost or two refreshes overlap, the newest credential is stored,
\* pending, or about to be.
THEOREM TokensKept == Spec => []NothingDropped
<1>1. Safe => NothingDropped
  BY DEF Safe
<1> QED
  BY <1>1, SafeAlways, PTL

\* "re-reads durable secrets before rotating": unless a credential is lost or
\* two refreshes overlap, a refresh token the vendor has rotated out is not
\* presented.
THEOREM NeverReplays == Spec => []NoReplay
<1>1. Safe => NoReplay
  <2> SUFFICES ASSUME Safe, ~lost, ~torn, NEW p \in Procs, pc[p] = "exchange",
                      cred[p] # NoCred
               PROVE  Tok(p) = current.rt
    BY DEF NoReplay
  <2>0. p \in Callers
    BY DEF Safe, Typed, AtHand, Procs
  <2>1. pending = NoCred /\ cred[p] = durable /\ current # NoCred
    BY <2>0, OAuthAssumption DEF Safe, Vault, Typed, TypeOK
  <2>2. \A q \in Procs : pc[q] \notin {"put", "keep"}
    BY <2>0, Alone, ListersOut DEF Safe, Refreshing, Procs
  <2>3. current = durable
    BY <2>1, <2>2 DEF Safe, NothingDropped
  <2> QED BY <2>1, <2>3 DEF Tok
<1> QED
  BY <1>1, SafeAlways, PTL

\* Unless two refreshes overlap, a call is never sent again with the access
\* token the vendor refused.
THEOREM RetriesNewer == Spec => []RetryIsNewer
<1>1. Safe => RetryIsNewer
  BY DEF Safe, Vault, Typed, AtHand, RetryIsNewer, Procs
<1> QED
  BY <1>1, SafeAlways, PTL

\* Unless two refreshes overlap, the secret is never replaced by an older
\* credential.
THEOREM SecretForward == Spec => DurableForward
<1>1. Safe /\ [Next]_vars => [torn \/ durable'.at >= durable.at]_durable
  <2> SUFFICES ASSUME Safe, [Next]_vars, durable' # durable, ~torn
               PROVE  durable'.at >= durable.at
    OBVIOUS
  <2>1. PICK p \in Procs : PutPending(p) \/ Put(p) \/ ListerPut(p)
    <3>1. \A p \in Procs : Begin(p) \/ Step(p) =>
                             PutPending(p) \/ Put(p) \/ ListerPut(p)
      BY DEF Begin, Step, Load, Accepted, Refused, Expiring, Look, Make, Take,
             Lock, TakePending, Reread, Exchange, ReplyLost, ExchangeFails,
             Keep, Clear, Unlock, Retry
    <3> QED BY <3>1 DEF Next, vars, Expire, Restart
  <2>2. PutPending(p) \/ Put(p)
    BY <2>1, ListersOut DEF ListerPut, Return, Goto
  <2>3. /\ durable' = cred[p] /\ pc[p] \in {"putpending", "put"}
        /\ cred[p] # NoCred /\ p \in Callers
    BY <2>2 DEF PutPending, Put, Goto, Safe, Typed, AtHand, OnlyCallers,
                Refreshing
  <2>4. \A q \in Callers : pc[q] # "clear"
    BY <2>3, Alone DEF Safe, Refreshing, Procs
  <2>5. cred[p].at > durable.at
    BY <2>3, <2>4 DEF Safe, Vault
  <2> QED BY <2>3, <2>5, Compare DEF Safe, Procs
<1> QED
  BY <1>1, SafeAlways, PTL DEF Spec, DurableForward

=============================================================================

------------------------------ MODULE Accounts ------------------------------
(***************************************************************************)
(* One account name of a project, kept in two stores: the accounts row,    *)
(* unique per project, vendor and name, and the secret at the path made of *)
(* the same three (internal/store, internal/secrets).  Accounts are        *)
(* created through the API, the console or a vendor's sign-in, deleted by  *)
(* id, and refreshed by whoever rotates an OAuth credential.               *)
(***************************************************************************)
EXTENDS Naturals, FiniteSets

CONSTANTS
  Api,         \* POST /control/v1/accounts
  Consoles,    \* the same from the console
  Claudes,     \* console sign-ins at Claude: PKCE, the code is pasted
  Codexes,     \* console sign-ins at Codex: device code, polled
  OAuth,       \* the creators whose credential has a refresh token
  Deleters,
  Refreshers,  \* upstream calls, the proactive loop, model discovery
  Restarts,    \* bound on gateway restarts
  Nobody

Creators == Api \cup Consoles \cup Claudes \cup Codexes
Procs == Creators \cup Deleters \cup Refreshers
Locations == {"idle", "started", "exchange", "gate", "put", "insert", "done",
              "delete", "unlink", "get", "store"}

ASSUME AccountsAssumption ==
  /\ Restarts \in Nat
  /\ Nobody \notin Creators
  /\ Claudes \cup Codexes \subseteq OAuth /\ OAuth \subseteq Creators
  /\ (Api \cup Consoles) \cap (Claudes \cup Codexes) = {}
  /\ Api \cap Consoles = {} /\ Claudes \cap Codexes = {}
  /\ Creators \cap (Deleters \cup Refreshers) = {}
  /\ Deleters \cap Refreshers = {}

VARIABLES
  row,       \* who created the account, Nobody when there is no row
  secret,    \* whose credential the path holds
  pending,   \* sign-ins the gateway remembers (vendorPendingStore)
  pc,
  target,    \* the account id a deletion was asked for
  got,       \* the credential a refresher read, and rotates
  restarts

(***************************************************************************)
(* History, read by the properties only.                                   *)
(***************************************************************************)
VARIABLES
  raced,       \* creators that stored while an older account was unlinked
  overwritten, \* creators whose path another call wrote, or was about to
  leftover     \* a call failed or was cut between its two stores

local == <<pending, target, got>>
past == <<raced, overwritten, leftover>>
vars == <<row, secret, pending, pc, target, got, restarts, raced, overwritten,
          leftover>>

Init ==
  /\ row = Nobody
  /\ secret = Nobody
  /\ pending = {}
  /\ pc = [p \in Procs |-> "idle"]
  /\ target = [d \in Deleters |-> Nobody]
  /\ got = [r \in Refreshers |-> Nobody]
  /\ restarts = 0
  /\ raced = {}
  /\ overwritten = {}
  /\ leftover = FALSE

Goto(p, from, to) == pc[p] = from /\ pc' = [pc EXCEPT ![p] = to]

Inserting == {c \in Creators : pc[c] = "insert"}
Unlinking == {d \in Deleters : pc[d] = "unlink"}

-----------------------------------------------------------------------------
(***************************************************************************)
(* Creating: the plan's gate, the vendor's sign-in, the secret, the row.   *)
(***************************************************************************)

\* handleCreateAccount, handleConsoleCreateAccount: the gate (the other
\* accounts decide, so either way) and the body's checks come before the Put.
CreateAccount(p) ==
  /\ p \in Api
  /\ \E to \in {"put", "done"} : Goto(p, "idle", to)
  /\ UNCHANGED <<row, secret, local, restarts, past>>

ConsoleCreateAccount(p) ==
  /\ p \in Consoles
  /\ \E to \in {"put", "done"} : Goto(p, "idle", to)
  /\ UNCHANGED <<row, secret, local, restarts, past>>

ConnectClaudeStart(p) ==
  /\ p \in Claudes /\ Goto(p, "idle", "started")
  /\ pending' = pending \cup {p}
  /\ UNCHANGED <<row, secret, target, got, restarts, past>>

\* The gate and the pending sign-in come before the code is spent; a refused
\* call may be repeated, one whose sign-in is forgotten may not.
ConnectClaudeComplete(p) ==
  /\ p \in Claudes
  /\ \/ p \in pending /\ Goto(p, "started", "exchange")
     \/ p \notin pending /\ Goto(p, "started", "done")
  /\ UNCHANGED <<row, secret, local, restarts, past>>

\* The code is spent, or refused.
ClaudeExchange(p) ==
  /\ p \in Claudes
  /\ \E to \in {"put", "done"} : Goto(p, "exchange", to)
  /\ UNCHANGED <<row, secret, local, restarts, past>>

ConnectCodexStart(p) ==
  /\ p \in Codexes /\ Goto(p, "idle", "started")
  /\ pending' = pending \cup {p}
  /\ UNCHANGED <<row, secret, target, got, restarts, past>>

ConnectCodexPoll(p) ==
  /\ p \in Codexes
  /\ \/ p \in pending /\ Goto(p, "started", "exchange")
     \/ p \notin pending /\ Goto(p, "started", "done")
  /\ UNCHANGED <<row, secret, local, restarts, past>>

\* Still pending, refused, or tokens: the poll that learns of the approval
\* spends the code, and the gate comes after it.
CodexPollOnce(p) ==
  /\ p \in Codexes
  /\ \E to \in {"started", "done", "gate"} : Goto(p, "exchange", to)
  /\ UNCHANGED <<row, secret, local, restarts, past>>

CodexGate(p) ==
  /\ \E to \in {"put", "done"} : Goto(p, "gate", to)
  /\ UNCHANGED <<row, secret, local, restarts, past>>

\* Entries of vendorPendingStore older than 15 minutes are pruned.
Prune(p) ==
  /\ p \in pending /\ pc[p] = "started"
  /\ pending' = pending \ {p}
  /\ UNCHANGED <<row, secret, pc, target, got, restarts, past>>

\* createAccountForProjectInner: the secret first, whether or not the name is
\* taken.  The file client renames a whole temporary file.
PutSecret(p) ==
  /\ Goto(p, "put", "insert")
  /\ secret' = p
  /\ raced' = IF Unlinking # {} THEN raced \cup {p} ELSE raced
  /\ overwritten' =
       overwritten \cup ((Inserting \cup {row}) \cap (Creators \ {p}))
         \cup {c \in {p} : \E r \in Refreshers : got[r] \notin {p, Nobody}}
  /\ UNCHANGED <<row, local, restarts, leftover>>

PutSecretFails(p) ==
  /\ Goto(p, "put", "done")
  /\ UNCHANGED <<row, secret, local, restarts, past>>

\* The row is unique per project, vendor and name.
InsertRow(p) ==
  /\ row = Nobody /\ Goto(p, "insert", "done")
  /\ row' = p
  /\ UNCHANGED <<secret, local, restarts, past>>

\* Mutant of InsertRowFails: the handler cleans up the secret of the path.
InsertRowFailsClean(p) ==
  /\ Goto(p, "insert", "done")
  /\ secret' = Nobody
  /\ UNCHANGED <<row, local, restarts, past>>

\* Mutant of InsertRowFails: the handler puts back the account's credential.
InsertRowFailsRestore(p) ==
  /\ Goto(p, "insert", "done")
  /\ secret' = row
  /\ leftover' = TRUE
  /\ UNCHANGED <<row, local, restarts, raced, overwritten>>

\* The name is taken, or the database fails: the secret stays.
InsertRowFails(p) ==
  /\ Goto(p, "insert", "done")
  /\ leftover' = TRUE
  /\ UNCHANGED <<row, secret, local, restarts, raced, overwritten>>

-----------------------------------------------------------------------------
(***************************************************************************)
(* Deleting: the row, then the secret of its name.                         *)
(***************************************************************************)

\* store.DeleteAccount reads the path of the id, ...
FindRow(p) ==
  /\ p \in Deleters /\ row # Nobody
  /\ Goto(p, "idle", "delete")
  /\ target' = [target EXCEPT ![p] = row]
  /\ UNCHANGED <<row, secret, pending, got, restarts, past>>

\* ... deletes the row of that id, ...
DeleteRow(p) ==
  /\ p \in Deleters /\ row = target[p] /\ Goto(p, "delete", "unlink")
  /\ row' = Nobody
  /\ target' = [target EXCEPT ![p] = Nobody]
  /\ raced' = raced \cup Inserting
  /\ UNCHANGED <<secret, pending, got, restarts, overwritten, leftover>>

\* ... and finds none when another deletion came first, or the database fails.
DeleteRowFails(p) ==
  /\ Goto(p, "delete", "idle")
  /\ target' = [target EXCEPT ![p] = Nobody]
  /\ UNCHANGED <<row, secret, pending, got, restarts, past>>

\* Mutant of Unlink: the secret is not deleted.
UnlinkNothing(p) ==
  /\ Goto(p, "unlink", "idle")
  /\ UNCHANGED <<row, secret, local, restarts, past>>

\* handleDeleteAccount: the secret of the path, whoever stored it.
Unlink(p) ==
  /\ Goto(p, "unlink", "idle")
  /\ secret' = Nobody
  /\ leftover' = FALSE
  /\ UNCHANGED <<row, local, restarts, raced, overwritten>>

\* Best effort: secret_deleted is answered false.
UnlinkFails(p) ==
  /\ Goto(p, "unlink", "idle")
  /\ leftover' = TRUE
  /\ UNCHANGED <<row, secret, local, restarts, raced, overwritten>>

-----------------------------------------------------------------------------
(***************************************************************************)
(* Refreshing: read, exchange at the vendor, write back.                   *)
(***************************************************************************)

\* The account is selected while its row is there; the secret is read by path.
SelectRow(p) ==
  /\ p \in Refreshers /\ row \in OAuth /\ Goto(p, "idle", "get")
  /\ UNCHANGED <<row, secret, local, restarts, past>>

\* Without a refresh token there is nothing to rotate.
GetSecret(p) ==
  /\ \/ /\ secret \in OAuth /\ Goto(p, "get", "store")
        /\ got' = [got EXCEPT ![p] = secret]
     \/ secret \notin OAuth /\ Goto(p, "get", "idle") /\ UNCHANGED got
  /\ UNCHANGED <<row, secret, pending, target, restarts, past>>

\* The rotated credential is stored, whatever became of the account.
StoreSecret(p) ==
  /\ Goto(p, "store", "idle")
  /\ secret' = got[p]
  /\ got' = [got EXCEPT ![p] = Nobody]
  /\ leftover' = (leftover \/ row = Nobody)
  /\ UNCHANGED <<row, pending, target, restarts, raced, overwritten>>

RefreshFails(p) ==
  /\ Goto(p, "store", "idle")
  /\ got' = [got EXCEPT ![p] = Nobody]
  /\ UNCHANGED <<row, secret, pending, target, restarts, past>>

-----------------------------------------------------------------------------
\* The gateway restarts: the pending sign-ins and every call in flight are
\* gone, both stores remain.
Restart ==
  /\ restarts < Restarts
  /\ restarts' = restarts + 1
  /\ pending' = {}
  /\ pc' = [p \in Procs |->
       IF p \in Creators /\ pc[p] \notin {"idle", "started"} THEN "done"
       ELSE IF p \in Creators THEN pc[p] ELSE "idle"]
  /\ target' = [d \in Deleters |-> Nobody]
  /\ got' = [r \in Refreshers |-> Nobody]
  /\ leftover' = (leftover \/ Inserting # {} \/ Unlinking # {})
  /\ UNCHANGED <<row, secret, raced, overwritten>>

Step(p) ==
  \/ CreateAccount(p) \/ ConsoleCreateAccount(p)
  \/ ConnectClaudeStart(p) \/ ConnectClaudeComplete(p) \/ ClaudeExchange(p)
  \/ ConnectCodexStart(p) \/ ConnectCodexPoll(p) \/ CodexPollOnce(p)
  \/ CodexGate(p) \/ Prune(p)
  \/ PutSecret(p) \/ PutSecretFails(p) \/ InsertRow(p) \/ InsertRowFails(p)
  \/ FindRow(p) \/ DeleteRow(p) \/ DeleteRowFails(p) \/ Unlink(p) \/ UnlinkFails(p)
  \/ SelectRow(p) \/ GetSecret(p) \/ StoreSecret(p) \/ RefreshFails(p)

Next == (\E p \in Procs : Step(p)) \/ Restart

Spec == Init /\ [][Next]_vars

-----------------------------------------------------------------------------
(***************************************************************************)
(* Properties.                                                             *)
(***************************************************************************)

\* Every variable holds a value of its type.
TypeOK ==
  /\ row \in Creators \cup {Nobody}
  /\ secret \in Creators \cup {Nobody}
  /\ pending \in SUBSET (Claudes \cup Codexes)
  /\ pc \in [Procs -> Locations]
  /\ target \in [Deleters -> Creators \cup {Nobody}]
  /\ got \in [Refreshers -> OAuth \cup {Nobody}]
  /\ restarts \in 0..Restarts
  /\ raced \in SUBSET Creators
  /\ overwritten \in SUBSET Creators
  /\ leftover \in BOOLEAN

\* An account has a credential unless its creation met the deletion of an
\* older account of its name: no failure, restart or refresh takes it away.
AccountHasSecret ==
  \A c \in Creators : row = c /\ secret = Nobody => c \in raced

\* The credential is the account's own unless another creation wrote the same
\* path, or a refresher still held the credential of an older account.
SecretIsItsOwn ==
  \A c \in Creators :
    row = c /\ secret \notin {c, Nobody} => c \in overwritten

\* A credential without an account is one being created or deleted, or what a
\* call left that failed between its stores or stored after the deletion.
OrphanIsExplained ==
  row = Nobody /\ secret # Nobody =>
    Inserting # {} \/ Unlinking # {} \/ leftover

-----------------------------------------------------------------------------
(***************************************************************************)
(* What the properties rest on.                                            *)
(***************************************************************************)

\* Who stands where, and what it holds there.
Roles ==
  /\ \A p \in Procs :
       /\ pc[p] \in {"started", "exchange", "gate", "put", "insert"} => p \in Creators
       /\ pc[p] \in {"delete", "unlink"} => p \in Deleters
       /\ pc[p] \in {"get", "store"} => p \in Refreshers
  /\ \A d \in Deleters : pc[d] = "delete" => target[d] # Nobody
  /\ \A r \in Refreshers : pc[r] = "store" <=> got[r] # Nobody

\* Until it is disturbed, a creator that stored its credential finds it there.
Undisturbed ==
  \A c \in Creators : pc[c] = "insert" \/ row = c =>
    /\ c \notin raced => Unlinking = {} /\ secret # Nobody
    /\ c \notin overwritten =>
         /\ secret \in {c, Nobody}
         /\ \A r \in Refreshers : got[r] \in {c, Nobody}

=============================================================================

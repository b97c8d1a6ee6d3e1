--------------------------- MODULE Accounts_proofs ---------------------------
(***************************************************************************)
(* Theorems about an account's row and secret, for any number of creators, *)
(* deletions, refreshers and restarts.                                     *)
(***************************************************************************)
EXTENDS Accounts, TLAPS

(***************************************************************************)
(* Type correctness needs to know who stands where.                        *)
(***************************************************************************)
Typed == TypeOK /\ Roles

LEMMA TypedInit == Init => Typed
<1> SUFFICES ASSUME Init PROVE Typed
  OBVIOUS
<1>1. 0 \in 0..Restarts
  BY AccountsAssumption
<1>2. TypeOK
  BY <1>1 DEF Init, TypeOK, Locations
<1>3. Roles
  BY AccountsAssumption DEF Init, Roles, Creators, Procs
<1> QED
  BY <1>2, <1>3 DEF Typed

LEMMA TypedStep ==
  ASSUME Typed, NEW p \in Procs, Step(p)
  PROVE  Typed'
<1> USE AccountsAssumption
    DEF Typed, TypeOK, Roles, Procs, Creators, Locations, Goto, local, past
<1>1. CASE CreateAccount(p)
  BY <1>1 DEF CreateAccount
<1>2. CASE ConsoleCreateAccount(p)
  BY <1>2 DEF ConsoleCreateAccount
<1>3. CASE ConnectClaudeStart(p)
  BY <1>3 DEF ConnectClaudeStart
<1>4. CASE ConnectClaudeComplete(p)
  BY <1>4 DEF ConnectClaudeComplete
<1>5. CASE ClaudeExchange(p)
  BY <1>5 DEF ClaudeExchange
<1>6. CASE ConnectCodexStart(p)
  BY <1>6 DEF ConnectCodexStart
<1>7. CASE ConnectCodexPoll(p)
  BY <1>7 DEF ConnectCodexPoll
<1>8. CASE CodexPollOnce(p)
  BY <1>8 DEF CodexPollOnce
<1>9. CASE CodexGate(p)
  BY <1>9 DEF CodexGate
<1>10. CASE Prune(p)
  BY <1>10 DEF Prune
<1>11. CASE PutSecret(p)
  BY <1>11 DEF PutSecret, Inserting, Unlinking
<1>12. CASE PutSecretFails(p)
  BY <1>12 DEF PutSecretFails
<1>13. CASE InsertRow(p)
  BY <1>13 DEF InsertRow, Inserting, Unlinking
<1>14. CASE InsertRowFails(p)
  BY <1>14 DEF InsertRowFails, Inserting, Unlinking
<1>15. CASE FindRow(p)
  BY <1>15 DEF FindRow
<1>16. CASE DeleteRow(p)
  BY <1>16 DEF DeleteRow, Inserting, Unlinking
<1>17. CASE DeleteRowFails(p)
  BY <1>17 DEF DeleteRowFails
<1>18. CASE Unlink(p)
  BY <1>18 DEF Unlink
<1>19. CASE UnlinkFails(p)
  BY <1>19 DEF UnlinkFails
<1>20. CASE SelectRow(p)
  BY <1>20 DEF SelectRow
<1>21. CASE GetSecret(p)
  BY <1>21 DEF GetSecret
<1>22. CASE StoreSecret(p)
  BY <1>22 DEF StoreSecret
<1>23. CASE RefreshFails(p)
  BY <1>23 DEF RefreshFails
<1> QED
    BY <1>1, <1>2, <1>3, <1>4, <1>5, <1>6, <1>7, <1>8, <1>9, <1>10, <1>11,
     <1>12, <1>13, <1>14, <1>15, <1>16, <1>17, <1>18, <1>19, <1>20, <1>21,
     <1>22, <1>23 DEF Step

LEMMA TypedNext == Typed /\ [Next]_vars => Typed'
<1> SUFFICES ASSUME Typed, [Next]_vars PROVE Typed'
  OBVIOUS
<1>1. CASE Restart
  BY <1>1, AccountsAssumption
     DEF Restart, Typed, TypeOK, Roles, Procs, Creators, Locations, Inserting, Unlinking
<1>2. CASE UNCHANGED vars
  BY <1>2 DEF vars, Typed, TypeOK, Roles
<1> QED
  BY <1>1, <1>2, TypedStep DEF Next

\* Every variable keeps its type.
THEOREM TypeCorrect == Spec => []TypeOK
<1>1. Typed => TypeOK
  BY DEF Typed
<1> QED
  BY TypedInit, TypedNext, <1>1, PTL DEF Spec

THEOREM TypedAlways == Spec => []Typed
  BY TypedInit, TypedNext, PTL DEF Spec

-----------------------------------------------------------------------------
(***************************************************************************)
(* What a creator stored stays, until another call disturbs it.            *)
(***************************************************************************)
LEMMA UndisturbedInit == Init => Undisturbed
  BY AccountsAssumption DEF Init, Undisturbed, Procs, Creators

LEMMA UndisturbedStep ==
  ASSUME Typed, Typed', Undisturbed, NEW p \in Procs, Step(p)
  PROVE  Undisturbed'
<1> USE AccountsAssumption
    DEF Typed, TypeOK, Roles, Undisturbed, Procs, Creators, Goto, local, past,
        Inserting, Unlinking
<1>1. CASE CreateAccount(p)
  BY <1>1 DEF CreateAccount
<1>2. CASE ConsoleCreateAccount(p)
  BY <1>2 DEF ConsoleCreateAccount
<1>3. CASE ConnectClaudeStart(p)
  BY <1>3 DEF ConnectClaudeStart
<1>4. CASE ConnectClaudeComplete(p)
  BY <1>4 DEF ConnectClaudeComplete
<1>5. CASE ClaudeExchange(p)
  BY <1>5 DEF ClaudeExchange
<1>6. CASE ConnectCodexStart(p)
  BY <1>6 DEF ConnectCodexStart
<1>7. CASE ConnectCodexPoll(p)
  BY <1>7 DEF ConnectCodexPoll
<1>8. CASE CodexPollOnce(p)
  BY <1>8 DEF CodexPollOnce
<1>9. CASE CodexGate(p)
  BY <1>9 DEF CodexGate
<1>10. CASE Prune(p)
  BY <1>10 DEF Prune
<1>11. CASE PutSecret(p)
  BY <1>11 DEF PutSecret
<1>12. CASE PutSecretFails(p)
  BY <1>12 DEF PutSecretFails
<1>13. CASE InsertRow(p)
  BY <1>13 DEF InsertRow
<1>14. CASE InsertRowFails(p)
  BY <1>14 DEF InsertRowFails
<1>15. CASE FindRow(p)
  BY <1>15 DEF FindRow
<1>16. CASE DeleteRow(p)
  BY <1>16 DEF DeleteRow
<1>17. CASE DeleteRowFails(p)
  BY <1>17 DEF DeleteRowFails
<1>18. CASE Unlink(p)
  BY <1>18 DEF Unlink
<1>19. CASE UnlinkFails(p)
  BY <1>19 DEF UnlinkFails
<1>20. CASE SelectRow(p)
  BY <1>20 DEF SelectRow
<1>21. CASE GetSecret(p)
  BY <1>21 DEF GetSecret
<1>22. CASE StoreSecret(p)
  BY <1>22 DEF StoreSecret
<1>23. CASE RefreshFails(p)
  BY <1>23 DEF RefreshFails
<1> QED
    BY <1>1, <1>2, <1>3, <1>4, <1>5, <1>6, <1>7, <1>8, <1>9, <1>10, <1>11,
     <1>12, <1>13, <1>14, <1>15, <1>16, <1>17, <1>18, <1>19, <1>20, <1>21,
     <1>22, <1>23 DEF Step

LEMMA UndisturbedNext == Typed /\ Typed' /\ Undisturbed /\ [Next]_vars => Undisturbed'
<1> SUFFICES ASSUME Typed, Typed', Undisturbed, [Next]_vars PROVE Undisturbed'
  OBVIOUS
<1>1. CASE Restart
  BY <1>1, AccountsAssumption
     DEF Restart, Typed, TypeOK, Roles, Undisturbed, Procs, Creators, Inserting, Unlinking
<1>2. CASE UNCHANGED vars
  BY <1>2 DEF vars, Undisturbed, Unlinking
<1> QED
  BY <1>1, <1>2, UndisturbedStep DEF Next

THEOREM UndisturbedAlways == Spec => []Undisturbed
  BY UndisturbedInit, UndisturbedNext, TypedAlways, PTL DEF Spec

\* An account has a credential unless its creation met the deletion of an
\* older account of its name.
THEOREM HasSecretAlways == Spec => []AccountHasSecret
<1>1. Undisturbed => AccountHasSecret
  BY DEF Undisturbed, AccountHasSecret
<1> QED
  BY UndisturbedAlways, <1>1, PTL

\* The credential is the account's own unless another creation or an older
\* refresh wrote its path.
THEOREM OwnSecretAlways == Spec => []SecretIsItsOwn
<1>1. Undisturbed => SecretIsItsOwn
  BY DEF Undisturbed, SecretIsItsOwn
<1> QED
  BY UndisturbedAlways, <1>1, PTL

-----------------------------------------------------------------------------
(***************************************************************************)
(* Credentials without an account.                                         *)
(***************************************************************************)
LEMMA ExplainedStep ==
  ASSUME Typed, Typed', OrphanIsExplained, NEW p \in Procs, Step(p)
  PROVE  OrphanIsExplained'
<1> USE AccountsAssumption
    DEF Typed, TypeOK, Roles, OrphanIsExplained, Procs, Creators, Goto, local,
        past, Inserting, Unlinking
<1>1. CASE CreateAccount(p)
  BY <1>1 DEF CreateAccount
<1>2. CASE ConsoleCreateAccount(p)
  BY <1>2 DEF ConsoleCreateAccount
<1>3. CASE ConnectClaudeStart(p)
  BY <1>3 DEF ConnectClaudeStart
<1>4. CASE ConnectClaudeComplete(p)
  BY <1>4 DEF ConnectClaudeComplete
<1>5. CASE ClaudeExchange(p)
  BY <1>5 DEF ClaudeExchange
<1>6. CASE ConnectCodexStart(p)
  BY <1>6 DEF ConnectCodexStart
<1>7. CASE ConnectCodexPoll(p)
  BY <1>7 DEF ConnectCodexPoll
<1>8. CASE CodexPollOnce(p)
  BY <1>8 DEF CodexPollOnce
<1>9. CASE CodexGate(p)
  BY <1>9 DEF CodexGate
<1>10. CASE Prune(p)
  BY <1>10 DEF Prune
<1>11. CASE PutSecret(p)
  BY <1>11 DEF PutSecret
<1>12. CASE PutSecretFails(p)
  BY <1>12 DEF PutSecretFails
<1>13. CASE InsertRow(p)
  BY <1>13 DEF InsertRow
<1>14. CASE InsertRowFails(p)
  BY <1>14 DEF InsertRowFails
<1>15. CASE FindRow(p)
  BY <1>15 DEF FindRow
<1>16. CASE DeleteRow(p)
  BY <1>16 DEF DeleteRow
<1>17. CASE DeleteRowFails(p)
  BY <1>17 DEF DeleteRowFails
<1>18. CASE Unlink(p)
  BY <1>18 DEF Unlink
<1>19. CASE UnlinkFails(p)
  BY <1>19 DEF UnlinkFails
<1>20. CASE SelectRow(p)
  BY <1>20 DEF SelectRow
<1>21. CASE GetSecret(p)
  BY <1>21 DEF GetSecret
<1>22. CASE StoreSecret(p)
  BY <1>22 DEF StoreSecret
<1>23. CASE RefreshFails(p)
  BY <1>23 DEF RefreshFails
<1> QED
    BY <1>1, <1>2, <1>3, <1>4, <1>5, <1>6, <1>7, <1>8, <1>9, <1>10, <1>11,
     <1>12, <1>13, <1>14, <1>15, <1>16, <1>17, <1>18, <1>19, <1>20, <1>21,
     <1>22, <1>23 DEF Step

LEMMA ExplainedNext ==
  Typed /\ Typed' /\ OrphanIsExplained /\ [Next]_vars => OrphanIsExplained'
<1> SUFFICES ASSUME Typed, Typed', OrphanIsExplained, [Next]_vars
             PROVE  OrphanIsExplained'
  OBVIOUS
<1>1. CASE Restart
  BY <1>1 DEF Restart, OrphanIsExplained
<1>2. CASE UNCHANGED vars
  BY <1>2 DEF vars, OrphanIsExplained, Inserting, Unlinking
<1> QED
  BY <1>1, <1>2, ExplainedStep DEF Next

\* A credential without an account is being created or deleted, or was left
\* by a call that failed between the stores or stored after the deletion.
THEOREM ExplainedAlways == Spec => []OrphanIsExplained
<1>1. Init => OrphanIsExplained
  BY DEF Init, OrphanIsExplained
<1> QED
  BY <1>1, ExplainedNext, TypedAlways, PTL DEF Spec

=============================================================================

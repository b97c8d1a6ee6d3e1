------------------------------ MODULE Failover ------------------------------
(***************************************************************************)
(* What the dispatch of a request promises, whatever the order in which    *)
(* seats are preferred: a pool of usable seats is opened, every seat of it *)
(* gets at most one try, the first seat that answers ends the request, and *)
(* a pool is left behind only when all of its seats have missed.           *)
(***************************************************************************)
CONSTANTS Requests, Seats, NoSeat, Broken

VARIABLES
  phase,  \* where each request stands
  left,   \* seats of the open pool that were not tried yet
  by      \* the seat that answered

fvars == <<phase, left, by>>

Phases == {"idle", "between", "open", "served", "refused", "gaveup", "aborted"}

FailoverInit ==
  /\ phase = [r \in Requests |-> "idle"]
  /\ left = [r \in Requests |-> {}]
  /\ by = [r \in Requests |-> NoSeat]

Move(r, from, to) == phase[r] = from /\ phase' = [phase EXCEPT ![r] = to]

Accept(r) == Move(r, "idle", "between") /\ UNCHANGED <<left, by>>

OpenPool(r) ==
  /\ Move(r, "between", "open")
  /\ \E S \in SUBSET Seats : S # {} /\ left' = [left EXCEPT ![r] = S]
  /\ UNCHANGED by

Miss(r) ==
  /\ phase[r] = "open"
  /\ \E s \in left[r] : left' = [left EXCEPT ![r] = @ \ {s}]
  /\ UNCHANGED <<phase, by>>

\* A seat answers: with success, or with an error that is the client's.
Settle(r, to) ==
  /\ Move(r, "open", to)
  /\ \E s \in left[r] : by' = [by EXCEPT ![r] = s]
  /\ left' = [left EXCEPT ![r] = {}]

ClosePool(r) ==
  /\ left[r] = {}
  /\ Move(r, "open", "between")
  /\ UNCHANGED <<left, by>>

GiveUp(r) == Move(r, "between", "gaveup") /\ UNCHANGED <<left, by>>

\* The client left between two pools, or the tried seat is misconfigured.
Abort(r) ==
  /\ phase[r] = "between" \/ (phase[r] = "open" /\ left[r] \cap Broken # {})
  /\ phase' = [phase EXCEPT ![r] = "aborted"]
  /\ left' = [left EXCEPT ![r] = {}]
  /\ UNCHANGED by

FailoverNext ==
  \E r \in Requests :
    \/ Accept(r) \/ OpenPool(r) \/ Miss(r)
    \/ Settle(r, "served") \/ Settle(r, "refused")
    \/ ClosePool(r) \/ GiveUp(r) \/ Abort(r)

FailoverSpec == FailoverInit /\ [][FailoverNext]_fvars

=============================================================================

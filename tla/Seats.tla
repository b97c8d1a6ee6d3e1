-------------------------------- MODULE Seats --------------------------------
(***************************************************************************)
(* Which seat of a route a request is given (internal/router), from what   *)
(* the gateway knows of the quotas of its accounts (internal/quota, the    *)
(* quota columns of internal/store).  A request lists the accounts once    *)
(* and picks from that list until one answers; meanwhile quotas are        *)
(* refreshed and other requests note failures and take turns.              *)
(*                                                                         *)
(* Resets are hours from now, nothing here waits for one; a Retry-After    *)
(* and a cooldown only make a seat missing from a list (see Dispatch).     *)
(***************************************************************************)
EXTENDS Pool, Lists, Integers, FiniteSets, SequencesExt

CONSTANTS
  Requests,    \* sessions, each with one request at a time
  Casts,       \* a route's strategy, the sessions using it, and the bounds
               \* of the instance: writes of quotas, picks of seats
  Window,      \* which window the route looks at, "w5" or "w7"
  Reports,     \* what a vendor may say of one window
  MaxPct,      \* a full quota; 0 is a spent one, below min_remaining_pct
  Horizon,     \* the latest reset
  Nobody

Strategies == {"round_robin", "weighted", "quota_aware", "reset_soon", "steward"}
Unknown == -1
Never == Horizon + 1 \* no reset time is known, which sorts last
Quotas == [pct : Unknown..MaxPct, reset : 0..Never]
Blank == [pct |-> Unknown, reset |-> Never]
Rows == [mirror : Quotas, w5 : Quotas, w7 : Quotas]
Unlisted == [a \in Seats |-> [mirror |-> Blank, w5 |-> Blank, w7 |-> Blank]]

ASSUME SeatsAssumption ==
  /\ Seats \subseteq Nat /\ Seats # {} /\ IsFiniteSet(Seats) /\ OAuth \subseteq Seats
  /\ Nobody \notin Seats
  /\ Window \in {"w5", "w7"}
  /\ MaxPct \in Nat \ {0} /\ Horizon \in Nat
  /\ Reports \subseteq [pct : 0..MaxPct, reset : 0..Never]
  /\ Casts \subseteq [strategy : Strategies, requests : SUBSET Requests,
                      writes : Nat, picks : Nat]

VARIABLES
  cast,
  quota,     \* the quota columns of each account: both windows, and a mirror
  writes,
  failing,   \* seats with a soft failure noted within SoftFailWindow
  turn,      \* the route's round-robin counter
  picks,
  stuck,     \* the seat each session sticks to
  list,      \* what a request has listed and not yet been refused by
  seen,      \* the columns it listed
  seat,      \* the seat it is calling
  order,     \* history: the list of the last turn, and who had a turn since
  turns      \* that list is the same

strategy == cast.strategy
request == <<list, seen, seat, stuck>>
history == <<order, turns>>
seatVars == <<cast, quota, writes, failing, turn, picks, stuck, list, seen, seat, order, turns>>

InitSeats ==
  /\ cast \in Casts
  /\ quota = Unlisted
  /\ writes = 0
  /\ failing = {}
  /\ turn = 0 /\ picks = 0
  /\ stuck = [r \in Requests |-> Nobody]
  /\ list = [r \in Requests |-> <<>>]
  /\ seen = [r \in Requests |-> Unlisted]
  /\ seat = [r \in Requests |-> Nobody]
  /\ order = <<>>
  /\ turns = [a \in Seats |-> 0]

-----------------------------------------------------------------------------
(***************************************************************************)
(* What is known of a quota.                                               *)
(***************************************************************************)

\* Mutant of Tightest: the window with the most left is mirrored.
Loosest(w5, w7) ==
  IF w5 = Blank \/ (w7 # Blank /\ w7.pct > w5.pct) THEN w7 ELSE w5

\* assembleSnapshot: the window with the least left, the shorter on a tie.
Tightest(w5, w7) ==
  IF w5 = Blank \/ (w7 # Blank /\ w7.pct < w5.pct) THEN w7 ELSE w5

Write(a, row) ==
  /\ writes < cast.writes /\ writes' = writes + 1
  /\ quota' = [quota EXCEPT ![a] = row]
  /\ UNCHANGED <<cast, failing, turn, picks, request, history>>

\* refreshOne, by the loop and both handlers: a window the vendor does not
\* report is forgotten.
RefreshOne(a) ==
  \E w5, w7 \in Reports \cup {Blank} :
    /\ w5 # Blank \/ w7 # Blank
    /\ Write(a, [mirror |-> Tightest(w5, w7), w5 |-> w5, w7 |-> w7])

\* RefreshQuotasFromUsage: the month's tokens against the soft cap.
RefreshFromUsage(a) ==
  \E pct \in 0..MaxPct : Write(a, [quota[a] EXCEPT !.mirror.pct = pct])

\* handleSetAccountQuota: the user's own number, in the mirror only.
SetAccountQuota(a) ==
  \E q \in Reports \cup {Blank} : Write(a, [quota[a] EXCEPT !.mirror = q])

-----------------------------------------------------------------------------
(***************************************************************************)
(* The strategies.                                                         *)
(***************************************************************************)

\* The loop every strategy runs: the first seat no later one beats.  A pair is
\* in better when its first seat beats the second.
BestOf(seats, better) ==
  LET best[i \in 1..Len(seats)] ==
        IF i = 1 THEN seats[1]
        ELSE IF <<seats[i], best[i - 1]>> \in better THEN seats[i] ELSE best[i - 1]
  IN  best[Len(seats)]

PreferAccount(seats, a) == Only(seats, {a}) \o Only(seats, Seats \ {a})

PreferFresh(seats) == Only(seats, Seats \ failing) \o Only(seats, failing)

\* The most left, the earlier reset on a tie.
Fuller(q, other) ==
  q.pct > other.pct \/ (q.pct = other.pct /\ q.reset < other.reset)

\* pickQuotaAware, by the mirror.
QuotaAware(seats, row) ==
  BestOf(seats, {p \in Seats \X Seats : Fuller(row[p[1]].mirror, row[p[2]].mirror)})

\* windowQuota: the mirror stands in for a window that is not known.
WindowQuota(row) == IF row[Window].pct # Unknown THEN row[Window] ELSE row.mirror

Eligible(q) == q.pct >= 1 /\ q.reset # Never

\* Mutant of ResetSoon: the latest reset wins.
ResetLate(seats, row) ==
  LET reset(a) == WindowQuota(row[a]).reset
      some == Only(seats, {a \in Seats : Eligible(WindowQuota(row[a]))})
  IN  IF some = <<>> THEN QuotaAware(seats, row)
      ELSE BestOf(some, {p \in Seats \X Seats : reset(p[1]) > reset(p[2])})

\* pickResetSoon: the earliest reset of those that have something left.
ResetSoon(seats, row) ==
  LET reset(a) == WindowQuota(row[a]).reset
      some == Only(seats, {a \in Seats : Eligible(WindowQuota(row[a]))})
  IN  IF some = <<>> THEN QuotaAware(seats, row)
      ELSE BestOf(some, {p \in Seats \X Seats : reset(p[1]) < reset(p[2])})

\* What counts for a steward, in thousandths: remaining 0.3, urgency
\* 0.6 / (hours + 1/4) but 0.6 at most, soft failure 0.1, OAuth 0.05.
Remaining(q) == IF q.pct = Unknown THEN 0 ELSE (300 * q.pct) \div MaxPct
Urgency(q) ==
  CASE q.reset = Never -> 0
    [] q.reset = 0     -> 600
    [] OTHER           -> 2400 \div (4 * q.reset + 1)

\* Mutant of Score: a failure counts for the seat.
ScoreFailing(q, a) ==
  Remaining(q) + Urgency(q) + (IF a \in failing THEN 100 ELSE 0) + (IF a \in OAuth THEN 50 ELSE 0)

Score(q, a) ==
  Remaining(q) + Urgency(q) - (IF a \in failing THEN 100 ELSE 0) + (IF a \in OAuth THEN 50 ELSE 0)

Steward(seats, row) ==
  LET score(a) == Score(WindowQuota(row[a]), a)
  IN  BestOf(seats, {p \in Seats \X Seats : score(p[1]) > score(p[2])})

\* Mutant of RoundRobin: the last seat is left out.
RoundRobinShort(seats, n) ==
  seats[1 + (n % (IF Len(seats) = 1 THEN 1 ELSE Len(seats) - 1))]

\* pickRR, n being the counter before it was added to.
RoundRobin(seats, n) == seats[1 + (n % Len(seats))]

-----------------------------------------------------------------------------
(***************************************************************************)
(* A request.                                                              *)
(***************************************************************************)

ByPosition(S) ==
  {seats \in SetToSeqs(S) : \A i, j \in DOMAIN seats : i < j => seats[i] < seats[j]}

\* ListRouteAccounts without the seats that cool down, as long as one is left.
List(r) ==
  /\ list[r] = <<>> /\ picks < cast.picks
  /\ \E S \in SUBSET Seats \ {{}} : \E seats \in ByPosition(S) :
       list' = [list EXCEPT ![r] = seats]
  /\ seen' = [seen EXCEPT ![r] = quota]
  /\ UNCHANGED <<cast, quota, writes, failing, turn, picks, stuck, seat, history>>

\* What PickWithConfig chooses from.
Choice(r) == PreferFresh(PreferAccount(list[r], stuck[r]))

Chosen(r) ==
  CASE strategy = "round_robin" -> {RoundRobin(Choice(r), turn)}
    [] strategy = "quota_aware" -> {QuotaAware(Choice(r), seen[r])}
    [] strategy = "reset_soon"  -> {ResetSoon(Choice(r), seen[r])}
    [] strategy = "steward"     -> {Steward(Choice(r), seen[r])}
    [] OTHER                    -> ToSet(list[r]) \* weighted, by a random number

Pick(r) ==
  /\ seat[r] = Nobody /\ list[r] # <<>>
  /\ picks < cast.picks /\ picks' = picks + 1
  /\ \E a \in Chosen(r) : seat' = [seat EXCEPT ![r] = a]
  /\ IF strategy = "round_robin"
     THEN /\ turn' = turn + 1
          /\ order' = Choice(r)
          /\ turns' = [a \in Seats |-> (IF order' = order THEN turns[a] ELSE 0)
                                         + (IF a = seat'[r] THEN 1 ELSE 0)]
     ELSE UNCHANGED <<turn, history>>
  /\ UNCHANGED <<cast, quota, writes, failing, stuck, list, seen>>

\* Mutant of Fails: the seat is left out but still called.
FailsHolds(r) ==
  /\ seat[r] # Nobody
  /\ failing' = failing \cup {seat[r]}
  /\ list' = [list EXCEPT ![r] = Only(@, Seats \ {seat[r]})]
  /\ UNCHANGED <<cast, quota, writes, turn, picks, stuck, seat, seen, history>>

\* A soft failure: the next pick leaves the seat out.
Fails(r) ==
  /\ seat[r] # Nobody
  /\ failing' = failing \cup {seat[r]}
  /\ list' = [list EXCEPT ![r] = Only(@, Seats \ {seat[r]})]
  /\ seat' = [seat EXCEPT ![r] = Nobody]
  /\ seen' = [seen EXCEPT ![r] = IF list'[r] = <<>> THEN Unlisted ELSE @]
  /\ UNCHANGED <<cast, quota, writes, turn, picks, stuck, history>>

\* A success binds the session, a hard error does not; both clear the seat.
Answers(r) ==
  /\ seat[r] # Nobody
  /\ failing' = failing \ {seat[r]}
  /\ \E success \in BOOLEAN :
       stuck' = IF success THEN [stuck EXCEPT ![r] = seat[r]] ELSE stuck
  /\ list' = [list EXCEPT ![r] = <<>>]
  /\ seat' = [seat EXCEPT ![r] = Nobody]
  /\ seen' = [seen EXCEPT ![r] = Unlisted]
  /\ UNCHANGED <<cast, quota, writes, turn, picks, history>>

\* SoftFailWindow has passed since the failure.
Recover(a) ==
  /\ a \in failing
  /\ failing' = failing \ {a}
  /\ UNCHANGED <<cast, quota, writes, turn, picks, request, history>>

NextSeats ==
  \/ \E a \in OAuth : RefreshOne(a)
  \/ \E a \in Seats \ OAuth : RefreshFromUsage(a)
  \/ \E a \in Seats : SetAccountQuota(a) \/ Recover(a)
  \/ \E r \in cast.requests : List(r) \/ Pick(r) \/ Fails(r) \/ Answers(r)

SpecSeats == InitSeats /\ [][NextSeats]_seatVars

-----------------------------------------------------------------------------
(***************************************************************************)
(* Properties.                                                             *)
(***************************************************************************)

\* Every variable holds a value of its type.
TypeOKSeats ==
  /\ cast \in Casts
  /\ quota \in [Seats -> Rows] /\ seen \in [Requests -> [Seats -> Rows]]
  /\ writes \in 0..cast.writes /\ {turn, picks} \subseteq 0..cast.picks
  /\ failing \subseteq Seats
  /\ stuck \in [Requests -> Seats \cup {Nobody}]
  /\ \A r \in Requests :
       /\ list[r] \in Seq(Seats) /\ \A i, j \in DOMAIN list[r] : list[r][i] = list[r][j] => i = j
       /\ seat[r] \in ToSet(list[r]) \cup {Nobody}
  /\ order \in Seq(Seats)
  /\ turns \in [Seats -> 0..cast.picks]

Picks(r) == seat[r] = Nobody /\ seat'[r] # Nobody

\* The mirror holds a number of the user's, not what the windows say.
Overruled(row) ==
  (row.w5 # Blank \/ row.w7 # Blank) /\ row.mirror # Tightest(row.w5, row.w7)

Spent(row) ==
  IF strategy = "quota_aware" THEN 0 \in {row.mirror.pct, row.w5.pct, row.w7.pct}
  ELSE WindowQuota(row).pct = 0

HasLeft(row) == row.mirror.pct > 0 /\ 0 \notin {row.w5.pct, row.w7.pct}

\* A quota-first request is given a seat one of whose windows it saw spent, and
\* a reset-soon request one whose window it saw spent, only when no seat it has
\* not tried had anything left in every window; numbers of the user's aside.
SparesSpentBy(r) ==
  Picks(r) /\ strategy \in {"quota_aware", "reset_soon"} =>
    LET row == seen[r][seat'[r]]
    IN  Spent(row) /\ ~Overruled(row) =>
          \A a \in ToSet(list[r]) : ~HasLeft(seen[r][a])

SparesSpent == [][\A r \in Requests : SparesSpentBy(r)]_seatVars

\* "Prefer seats whose window resets sooner": of the seats with something left
\* whose reset is known, whatever failed, whatever the session sticks to.
ResetsSoonestBy(r) ==
  Picks(r) /\ strategy = "reset_soon" =>
    \A a \in ToSet(list[r]) :
      LET q == WindowQuota(seen[r][a])
          mine == WindowQuota(seen[r][seat'[r]])
      IN  Eligible(q) => Eligible(mine) /\ mine.reset <= q.reset

ResetsSoonest == [][\A r \in Requests : ResetsSoonestBy(r)]_seatVars

\* A steward never takes a seat when another one has more left and is no worse
\* in anything else it weighs, or has not failed and is no worse.
Dominates(a, b, row) ==
  LET q == WindowQuota(row[a])
      p == WindowQuota(row[b])
  IN  /\ Remaining(q) >= Remaining(p) /\ q.reset <= p.reset
      /\ a \in failing => b \in failing
      /\ b \in OAuth => a \in OAuth
      /\ Remaining(q) > Remaining(p) \/ (a \notin failing /\ b \in failing)

NotDominatedBy(r) ==
  Picks(r) /\ strategy = "steward" =>
    \A a \in ToSet(list[r]) : ~Dominates(a, seat'[r], seen[r])

NotDominated == [][\A r \in Requests : NotDominatedBy(r)]_seatVars

\* "Round-robin among healthy seats": as long as the requests choose from one
\* list in one order, whichever they are, no seat is two turns ahead.
EvenTurns ==
  \A i, j \in DOMAIN order : turns[order[i]] <= turns[order[j]] + 1

=============================================================================

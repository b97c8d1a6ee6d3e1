------------------------------- MODULE Racing -------------------------------
(***************************************************************************)
(* A dispatch over a parallel route (dispatchParallel, proxy.go): one      *)
(* goroutine per seat calls its vendor and, for a stream, waits for the    *)
(* first token (awaitCommit); each reports once on a buffered channel; the *)
(* first success or hard error answers the request and cancels the racers. *)
(*                                                                         *)
(* A stream is fed by the HTTP transport or, for a seat behind a bridge,   *)
(* by a converting goroutine that writes to an io.Pipe.  feed[s] is the    *)
(* state of that feeder: "waiting" for the vendor, "full" when bytes wait  *)
(* for a reader, then "eof", "broken" (the vendor or the client timeout),  *)
(* "cut" (its context was cancelled) or "closed" (by the reader).          *)
(***************************************************************************)
EXTENDS Pool, Naturals, Sequences, FiniteSets

CONSTANTS
  Malformed,  \* seats whose base_url does not parse
  Bridged,    \* seats whose stream is converted through a pipe
  NoSeat      \* uuid.Nil

ASSUME RacingAssumption == IsFiniteSet(Seats) /\ NoSeat \notin Seats

VARIABLES
  at,         \* where the dispatching goroutine and its handler stand
  streaming,  \* the request asks for a stream
  pool,       \* the seats that race
  sent,       \* every report written to the channel, in order
  heard,      \* how many of them were received
  chosen,     \* last: the seat of the last result received
  verdict,    \* how the race ended
  bound,      \* the seat the session is bound to by this request
  pc,         \* where each racer stands
  got,        \* what its call came to
  feed,       \* the feeder of its stream
  cancelled,  \* cctx was cancelled
  gone        \* the client's context was cancelled

race == <<pool, sent, heard, chosen, verdict, bound, streaming>>  \* of the request
vars == <<at, race, pc, got, feed, cancelled, gone>>

Init ==
  /\ at = "open" /\ streaming \in BOOLEAN
  /\ pool = {} /\ sent = <<>> /\ heard = 0
  /\ chosen = NoSeat /\ verdict = "none" /\ bound = NoSeat
  /\ pc = [s \in Seats |-> "off"]
  /\ got = [s \in Seats |-> "none"]
  /\ feed = [s \in Seats |-> "none"]
  /\ cancelled = {} /\ gone = FALSE

Severed(s) == gone \/ s \in cancelled
Failed(s) == got[s] \in {"retry", "error"}

-----------------------------------------------------------------------------
(***************************************************************************)
(* The client and the vendors.                                             *)
(***************************************************************************)

HangUp ==
  /\ ~gone /\ at \in {"open", "race", "stream"}
  /\ gone' = TRUE
  /\ UNCHANGED <<at, race, pc, got, feed, cancelled>>

Feeds(s, from, to) ==
  /\ feed[s] = from /\ feed' = [feed EXCEPT ![s] = to]
  /\ UNCHANGED <<at, race, pc, got, cancelled, gone>>

Arrive(s) == Feeds(s, "waiting", "full")

\* The vendor ends the stream, breaks it, or the client's timeout does.
End(s) == \E to \in {"eof", "broken"} : Feeds(s, "waiting", to)

\* A cancelled context fails the read of the vendor's body.  The transport
\* drops what it holds; a converter is past its read and blocked in Write.
Cut(s) ==
  /\ Severed(s)
  /\ \/ Feeds(s, "waiting", "cut")
     \/ s \notin Bridged /\ Feeds(s, "full", "cut")

-----------------------------------------------------------------------------
(***************************************************************************)
(* The racers.                                                             *)
(***************************************************************************)

Goto(s, from, to) == pc[s] = from /\ pc' = [pc EXCEPT ![s] = to]

\* call: a success, a hard error, a retryable one (also a credential that
\* cannot be read, no connection, a cancelled context), or no result at all.
Results(s) ==
  IF s \in Malformed THEN {"retry", "error"} ELSE {"ok", "hard", "retry"}

Call(s) ==
  /\ \E result \in Results(s) :
       LET opens == result = "ok" /\ streaming IN
       /\ Goto(s, "call", IF opens THEN "commit" ELSE "send")
       /\ got' = [got EXCEPT ![s] = result]
       /\ feed' = IF opens THEN [feed EXCEPT ![s] = "waiting"] ELSE feed
  /\ UNCHANGED <<at, race, cancelled, gone>>

\* awaitCommit: a first token, or the end of a stream that had data.
Commit(s) ==
  /\ feed[s] \in {"full", "eof"} /\ Goto(s, "commit", "send")
  /\ feed' = IF feed[s] = "full" THEN [feed EXCEPT ![s] = "waiting"] ELSE feed
  /\ UNCHANGED <<at, race, got, cancelled, gone>>

\* awaitCommit: a failed read, an error event, an empty stream.  A converter
\* writes no error event, and ends what it reads with a finish_reason.
Flunk(s) ==
  /\ \/ feed[s] \in {"broken", "cut"}
     \/ s \notin Bridged /\ feed[s] \in {"full", "eof"}
  /\ Goto(s, "commit", "send")
  /\ feed' = [feed EXCEPT ![s] = "closed"]
  /\ got' = [got EXCEPT ![s] = "retry"]
  /\ UNCHANGED <<at, race, cancelled, gone>>

\* Mutant of Report: the channel is not buffered.
ReportUnbuffered(s) ==
  /\ at = "race" /\ Goto(s, "send", "done")
  /\ sent' = Append(sent, s)
  /\ UNCHANGED <<at, pool, heard, chosen, verdict, bound, streaming, got, feed, cancelled, gone>>

\* ch <- raced{...}, on a channel with room for the whole pool.
Report(s) ==
  /\ Goto(s, "send", "done")
  /\ Len(sent) - heard < Cardinality(pool)
  /\ sent' = Append(sent, s)
  /\ UNCHANGED <<at, pool, heard, chosen, verdict, bound, streaming, got, feed, cancelled, gone>>

-----------------------------------------------------------------------------
(***************************************************************************)
(* dispatchParallel.                                                       *)
(***************************************************************************)

\* The listed seats are raced, OAuth seats only if the route allows it; with
\* none left the request is dispatched sequentially.
Open ==
  /\ at = "open"
  /\ \E listed \in SUBSET Seats, allowOAuth \in BOOLEAN :
       /\ listed # {}
       /\ pool' = IF allowOAuth THEN listed ELSE listed \ OAuth
       /\ at' = IF pool' = {} THEN "sequential" ELSE "race"
       /\ pc' = [s \in Seats |-> IF s \in pool' THEN "call" ELSE "off"]
  /\ UNCHANGED <<sent, heard, chosen, verdict, bound, streaming, got, feed, cancelled, gone>>

Receive(s, kinds) ==
  /\ at = "race" /\ heard < Len(sent) /\ s = sent[heard + 1]
  /\ got[s] \in kinds
  /\ heard' = heard + 1

Stop(how, next) ==
  /\ verdict' = how /\ cancelled' = pool /\ at' = next
  /\ UNCHANGED <<pool, sent, streaming, pc, got, feed, gone>>

\* Mutant of Win: the other racers are not cancelled.
WinAlone(s) ==
  /\ Receive(s, {"ok"}) /\ chosen' = s /\ bound' = s
  /\ verdict' = "won" /\ at' = (IF streaming THEN "stream" ELSE "over")
  /\ UNCHANGED <<pool, sent, streaming, pc, got, feed, cancelled, gone>>

\* Mutant of Win: an answer of any kind wins.
WinAny(s) ==
  /\ Receive(s, {"ok", "retry"}) /\ chosen' = s /\ bound' = s
  /\ Stop("won", IF streaming /\ got[s] = "ok" THEN "stream" ELSE "over")

Win(s) ==
  /\ Receive(s, {"ok"}) /\ chosen' = s /\ bound' = s
  /\ Stop("won", IF streaming THEN "stream" ELSE "over")

Surface(s) ==
  /\ Receive(s, {"hard"}) /\ chosen' = s /\ UNCHANGED bound
  /\ Stop("hard", "over")

\* Mutant of Skip: a retryable result is not kept.
SkipForgets(s) ==
  /\ Receive(s, {"retry", "error"})
  /\ UNCHANGED <<at, pool, sent, chosen, verdict, bound, streaming, pc, got, feed, cancelled, gone>>

\* The loop goes on: a retryable result is kept, an error is not.
Skip(s) ==
  /\ Receive(s, {"retry", "error"})
  /\ chosen' = IF got[s] = "retry" THEN s ELSE chosen
  /\ UNCHANGED <<at, pool, sent, verdict, bound, streaming, pc, got, feed, cancelled, gone>>

\* remaining = 0: the last result, or neither a result nor an error.
Lose ==
  /\ at = "race" /\ heard = Cardinality(pool)
  /\ Stop(IF chosen = NoSeat THEN "nothing" ELSE "lost", "over")
  /\ UNCHANGED <<heard, chosen, bound>>

\* ctx.Done() is selected.
Abort ==
  /\ at = "race" /\ gone /\ heard < Cardinality(pool)
  /\ Stop("aborted", "over")
  /\ UNCHANGED <<heard, chosen, bound>>

\* The handler copies the winner's stream to the client, then closes it.
Read ==
  /\ at = "stream" /\ Feeds(chosen, "full", "waiting")

Close ==
  /\ at = "stream" /\ feed[chosen] \in {"eof", "broken", "cut"}
  /\ at' = "over" /\ feed' = [feed EXCEPT ![chosen] = "closed"]
  /\ UNCHANGED <<race, pc, got, cancelled, gone>>

\* A request that is over, with its racers; converters may be left.
Finished ==
  /\ at \in {"over", "sequential"}
  /\ \A s \in Seats : pc[s] \in {"off", "done"}
  /\ UNCHANGED vars

-----------------------------------------------------------------------------
Racer(s) == Call(s) \/ Commit(s) \/ Flunk(s) \/ Report(s)
Aggregate == \E s \in Seats : Win(s) \/ Surface(s) \/ Skip(s)

Next ==
  \/ HangUp \/ Open \/ Lose \/ Abort \/ Read \/ Close \/ Finished
  \/ \E s \in Seats :
       \/ Arrive(s) \/ End(s) \/ Cut(s)
       \/ Call(s) \/ Commit(s) \/ Flunk(s) \/ Report(s)
       \/ Win(s) \/ Surface(s) \/ Skip(s)

Spec == Init /\ [][Next]_vars

\* Calls return and every stream ends, if only by the client's timeout, which
\* covers reading the body; goroutines that can run do.
Fair ==
  /\ WF_vars(Open) /\ WF_vars(Lose) /\ WF_vars(Read) /\ WF_vars(Close)
  /\ WF_vars(Aggregate)
  /\ \A s \in Seats :
       WF_vars(Racer(s)) /\ SF_vars(End(s) \/ Cut(s)) /\ WF_vars(Cut(s))

FairSpec == Spec /\ Fair

-----------------------------------------------------------------------------
(***************************************************************************)
(* Properties.                                                             *)
(***************************************************************************)

\* Every variable holds a value of its type; each racer reports once at most.
TypeOK ==
  /\ at \in {"open", "sequential", "race", "stream", "over"}
  /\ streaming \in BOOLEAN /\ gone \in BOOLEAN
  /\ pool \in SUBSET Seats /\ cancelled \in SUBSET pool
  /\ sent \in Seq(pool) /\ Len(sent) <= Cardinality(pool)
  /\ heard \in 0..Len(sent)
  /\ chosen \in pool \cup {NoSeat} /\ bound \in pool \cup {NoSeat}
  /\ verdict \in {"none", "won", "hard", "lost", "nothing", "aborted"}
  /\ pc \in [Seats -> {"off", "call", "commit", "send", "done"}]
  /\ got \in [Seats -> {"none", "ok", "hard", "retry", "error"}]
  /\ feed \in [Seats -> {"none", "waiting", "full", "eof", "broken", "cut", "closed"}]

\* The answer of a race is the first success or hard error that was reported,
\* however the racers interleave, and the session is bound to it if it is a
\* success; a race is lost only when every seat of the pool has failed.
FirstDecisiveWins ==
  /\ bound = (IF verdict = "won" THEN chosen ELSE NoSeat)
  /\ verdict \in {"won", "hard"} =>
       /\ heard > 0 /\ chosen = sent[heard]
       /\ got[chosen] = (IF verdict = "won" THEN "ok" ELSE "hard")
       /\ \A i \in 1..(heard - 1) : Failed(sent[i])
  /\ verdict \in {"lost", "nothing"} =>
       \A s \in pool : pc[s] = "done" /\ Failed(s)

\* The handler dereferences the result when there is no error: a race ends
\* with neither only when no seat of the pool has a well-formed URL.
NothingIsMalformed ==
  verdict = "nothing" => pool \subseteq Malformed

\* Whatever the outcome, each goroutine of a race ends: nobody is left to
\* receive the reports of the losers.
RacersEnd == \A s \in Seats : pc[s] = "call" ~> pc[s] = "done"

\* Once a request is over every stream is ended, except the pipe of a loser
\* that had its first token: nobody reads or closes it, and its converter
\* blocks in Write.
Live(s) == feed[s] \in {"waiting", "full"}
OrphansArePiped ==
  <>[](\A s \in Seats : Live(s) => /\ s \in Bridged /\ feed[s] = "full"
                                   /\ got[s] = "ok" /\ s # chosen)

\* awaitCommit "returns a ReadCloser that replays prefix then the rest of rc":
\* as long as the client stays, the stream it reads is not cut by the gateway.
RestIsReplayed ==
  at = "stream" /\ ~gone => feed[chosen] # "cut"

-----------------------------------------------------------------------------
(***************************************************************************)
(* What the properties rest on.                                            *)
(***************************************************************************)

Done == {s \in Seats : pc[s] = "done"}

\* The channel holds one report of each racer that is done.
Reported ==
  /\ Len(sent) = Cardinality(Done)
  /\ \A i \in 1..Len(sent) : pc[sent[i]] = "done"
  /\ \A s \in Done : \E i \in 1..Len(sent) : sent[i] = s

\* The seats of the pool race, and fail to make a request only on a bad URL.
Racers ==
  /\ \A s \in Seats : pc[s] # "off" => s \in pool
  /\ \A s \in Seats : got[s] = "error" => s \in Malformed
  /\ at = "open" => pool = {} /\ sent = <<>> /\ heard = 0 /\ chosen = NoSeat
                   /\ bound = NoSeat
  /\ at \in {"open", "sequential", "race"} => verdict = "none"

\* As long as the race is on, whoever was heard has failed.
Undecided ==
  at = "race" =>
    /\ \A i \in 1..heard : Failed(sent[i])
    /\ chosen = NoSeat => \A i \in 1..heard : got[sent[i]] = "error"

=============================================================================

-------------------------- MODULE ChatBridge_proofs ---------------------------
(***************************************************************************)
(* Theorems about a stream that passes a protocol bridge: what the client  *)
(* has of it, whatever the vendor's events and whenever the reader takes a *)
(* chunk.                                                                  *)
(***************************************************************************)
EXTENDS ChatBridge, FiniteSetTheorems, SequenceTheorems, WellFoundedInduction, TLAPS

(***************************************************************************)
(* The chunks on their way.  A bridge that reads is blocked on one chunk   *)
(* at most, one that ends on what is left of its finale.                   *)
(***************************************************************************)
Deltas == [kind : {"call"}, index : Nat, id : Calls, args : Args]
Tokens == {Content(1), HostedEvent} \cup Deltas

Ended == {"completed", "failed", "ended"}
Cut == {"errored", "broken"}

Views == [text : Nat, calls : Seq(Deltas), finish : {"none", "stop", "tool_calls", "length"}]

Typed ==
  /\ vendor \in Vendors
  /\ up \in {"idle", "open", "completed", "failed", "errored", "ended", "broken"}
  /\ emitted \in BOOLEAN /\ gone \in BOOLEAN
  /\ said \in 0..MaxText /\ text \in 0..MaxText
  /\ item \in [Calls \cup Hosted -> {"none", "started", "done"}]
  /\ block \in Calls \cup Hosted \cup {"none", "text"}
  /\ bridge \in {"reading", "ending", "ended"}
  /\ toolCalls \in Seq([id : Calls, args : Args])
  /\ pipe \in {"open", "eof", "error"}
  /\ reader \in {"peek", "relay", "closing", "closed"}
  /\ stop \in {"none", "tool_use", "max_tokens", "end_turn"}
  /\ view \in Views
  /\ answer \in {"none", "whole", "broken", "retried"}

Piped ==
  /\ bridge = "reading" =>
       pipe = "open" /\ (writing = <<>> \/ \E t \in Tokens : writing = <<t>>)
  /\ bridge = "ending" =>
       /\ pipe = "open" /\ up \in Ended
       /\ writing \in {<<>>, <<Done>>, <<Finish(FinishReason), Done>>,
                       <<Content(text), Finish(FinishReason), Done>>}
  /\ bridge = "ended" => pipe # "open" /\ writing = <<>>
  /\ pipe = "eof" => up \in Ended
  /\ up \in Cut <=> pipe = "error"
  /\ answer = "whole" => pipe = "eof"
  /\ answer \in {"broken", "retried"} => pipe = "error"

Spoke ==
  /\ up \in {"idle", "open"} => text = said /\ bridge = "reading"
  /\ emitted <=> said > 0
  /\ vendor = "claude" => text = said
  /\ bridge = "reading" =>
       IF writing = <<Content(1)>> THEN view.text + 1 = said ELSE view.text = said
  /\ bridge = "ending" \/ pipe = "eof" =>
       IF Len(writing) = 3 THEN view.text = 0 /\ said = 0
       ELSE view.text = IF said > 0 THEN said ELSE text
  /\ (bridge = "ending" \/ pipe = "eof") /\ Len(writing) < 2 => view.finish = FinishReason

\* A request moves on from a peek only: the reader has let nothing through.
Peeked ==
  /\ reader = "peek" \/ answer = "retried" => view = Nothing
  /\ answer # "none" => reader \in {"closing", "closed"}

Told(d) ==
  /\ d \in Deltas /\ d.args = "full" /\ item[d.id] = "done"
  /\ d.index + 1 \in DOMAIN toolCalls /\ toolCalls[d.index + 1] = Call(d.id, "full")

Called ==
  /\ \A i, j \in DOMAIN toolCalls : toolCalls[i].id = toolCalls[j].id => i = j
  /\ \A i \in DOMAIN view.calls : Told(view.calls[i])
  /\ \A i, j \in DOMAIN view.calls : view.calls[i].id = view.calls[j].id => i = j
  /\ \A t \in Deltas : writing = <<t>> =>
        Told(t) /\ \A i \in DOMAIN view.calls : view.calls[i].id # t.id
  /\ \A c \in Calls : item[c] = "done" =>
        \/ \E i \in DOMAIN view.calls : view.calls[i].id = c
        \/ \E t \in Deltas : writing = <<t>> /\ t.id = c
  /\ block \in Calls => item[block] = "started"
  /\ vendor = "codex" => block = "none"

Streamed == Typed /\ Piped /\ Spoke /\ Peeked /\ Called

LEMMA StreamedInit == Init => Streamed
<1> SUFFICES ASSUME Init PROVE Streamed
  OBVIOUS
<1>1. Typed
  <2>1. view \in Views
    BY EmptySeq DEF Init, InitStream, Nothing, Views
  <2>2. toolCalls \in Seq([id : Calls, args : Args])
    BY EmptySeq DEF Init, InitStream
  <2>3. said \in 0..MaxText /\ text \in 0..MaxText
    BY StreamAssumption DEF Init, InitStream
  <2>4. item \in [Calls \cup Hosted -> {"none", "started", "done"}]
    BY DEF Init, InitStream
  <2> QED BY <2>1, <2>2, <2>3, <2>4 DEF Init, InitRequest, InitStream, Typed
<1>2. Piped /\ Spoke /\ Peeked
  BY StreamAssumption DEF Init, InitStream, Piped, Spoke, Peeked, Cut, Nothing, Done, Content, Finish
<1>3. Called
  BY StreamAssumption DEF Init, InitStream, Called, Nothing
<1> QED BY <1>1, <1>2, <1>3 DEF Streamed

-----------------------------------------------------------------------------
(***************************************************************************)
(* Merged calls.                                                           *)
(***************************************************************************)
Merged == Seq([id : Calls, args : Args])

Distinct(calls) ==
  \A i, j \in DOMAIN calls : calls[i].id = calls[j].id => i = j

\* A call is merged at its position, every other one stays where it was.
LEMMA MergeOne ==
  ASSUME NEW calls \in Merged, Distinct(calls), NEW c \in Calls, NEW args \in Args
  PROVE  LET merged == MergeToolCall(calls, c, args)
         IN  /\ merged \in Merged /\ Distinct(merged)
             /\ StreamIndex(merged, c) \in Nat
             /\ StreamIndex(merged, c) + 1 \in DOMAIN merged
             /\ merged[StreamIndex(merged, c) + 1] = Call(c, args)
             /\ \A i \in DOMAIN calls : calls[i].id # c =>
                  i \in DOMAIN merged /\ merged[i] = calls[i]
<1> DEFINE merged == MergeToolCall(calls, c, args)
<1>1. /\ Len(calls) \in Nat /\ DOMAIN calls = 1..Len(calls)
      /\ \A i \in DOMAIN calls : calls[i] \in [id : Calls, args : Args]
  BY LenProperties, ElementOfSeq DEF Merged
<1>2. Call(c, args) \in [id : Calls, args : Args] /\ Call(c, args).id = c
  BY DEF Call
<1>3. SUFFICES /\ merged \in Merged /\ Distinct(merged)
               /\ \E i \in DOMAIN merged : merged[i] = Call(c, args)
               /\ \A i \in DOMAIN calls : calls[i].id # c =>
                    i \in DOMAIN merged /\ merged[i] = calls[i]
  <2> HIDE DEF merged
  <2>1. PICK i \in DOMAIN merged : merged[i] = Call(c, args)
    BY <1>3
  <2>2. Position(merged, c) = i
    BY <1>2, <1>3, <2>1 DEF Position, Distinct
  <2>3. i \in Nat \ {0}
    BY <1>3, <2>1, LenProperties DEF Merged
  <2>4. StreamIndex(merged, c) \in Nat /\ StreamIndex(merged, c) + 1 = i
    BY <2>2, <2>3 DEF StreamIndex
  <2> QED BY <1>3, <2>1, <2>4 DEF merged
<1>4. CASE \E i \in DOMAIN calls : calls[i].id = c
  <2> DEFINE k == Position(calls, c)
  <2>1. k \in DOMAIN calls /\ calls[k].id = c
    BY <1>4 DEF Position
  <2>2. merged = [calls EXCEPT ![k] = Call(c, args)]
    BY <1>4 DEF MergeToolCall
  <2> HIDE DEF k, merged
  <2>3. /\ merged \in Merged /\ DOMAIN merged = DOMAIN calls
        /\ \A j \in DOMAIN calls : merged[j] = IF j = k THEN Call(c, args) ELSE calls[j]
    BY <1>1, <1>2, <2>1, <2>2, ExceptSeq DEF Merged
  <2> QED BY <1>2, <2>1, <2>3 DEF Distinct
<1>5. CASE ~\E i \in DOMAIN calls : calls[i].id = c
  <2>1. merged = Append(calls, Call(c, args))
    BY <1>5 DEF MergeToolCall
  <2> HIDE DEF merged
  <2>2. /\ merged \in Merged /\ Len(merged) = Len(calls) + 1
        /\ DOMAIN merged = 1..Len(calls) + 1
        /\ \A j \in 1..Len(calls) : merged[j] = calls[j]
        /\ merged[Len(calls) + 1] = Call(c, args)
    BY <1>1, <1>2, <2>1, AppendProperties, LenProperties DEF Merged
  <2>3. Distinct(merged)
    BY <1>1, <1>2, <1>5, <2>2 DEF Distinct
  <2> QED BY <1>1, <2>2, <2>3
<1> QED BY <1>4, <1>5

\* A final output keeps every call at its position, and its id.
LEMMA MergeMany ==
  ASSUME NEW calls \in Merged, Distinct(calls), NEW S \in SUBSET Calls,
         NEW new \in SetToSeqs(S \ {calls[i].id : i \in DOMAIN calls})
  PROVE  LET merged == MergeAll(calls, S, new)
         IN  /\ merged \in Merged /\ Distinct(merged)
             /\ \A i \in DOMAIN calls :
                  /\ i \in DOMAIN merged /\ merged[i].id = calls[i].id
                  /\ calls[i].args = "full" => merged[i] = calls[i]
<1> DEFINE T == S \ {calls[i].id : i \in DOMAIN calls}
           n == Cardinality(T)
           old == [i \in DOMAIN calls |->
                     IF calls[i].id \in S THEN Call(calls[i].id, "full") ELSE calls[i]]
           more == [i \in DOMAIN new |-> Call(new[i], "full")]
           merged == old \o more
<1>1. /\ Len(calls) \in Nat /\ DOMAIN calls = 1..Len(calls)
      /\ \A i \in DOMAIN calls : calls[i] \in [id : Calls, args : Args]
  BY LenProperties, ElementOfSeq DEF Merged
<1>2. n \in Nat
  BY StreamAssumption, FS_Subset, FS_CardinalityType
<1>3. new \in [1..n -> T] /\ \A i, j \in 1..n : i # j => new[i] # new[j]
  BY DEF SetToSeqs
<1> HIDE DEF n, T
<1>4. /\ old \in Merged /\ Len(old) = Len(calls)
      /\ \A i \in 1..Len(calls) : /\ old[i].id = calls[i].id
                                  /\ calls[i].args = "full" => old[i] = calls[i]
  <2>1. \A i \in 1..Len(calls) : old[i] \in [id : Calls, args : Args]
    BY <1>1 DEF Call, Args
  <2>2. old = [i \in 1..Len(calls) |-> old[i]] /\ old \in [1..Len(calls) -> [id : Calls, args : Args]]
    BY <1>1, <2>1
  <2>3. old \in Merged /\ Len(old) = Len(calls)
    BY <1>1, <2>2, SeqDef DEF Merged
  <2>4. \A i \in 1..Len(calls) : /\ old[i].id = calls[i].id
                                 /\ calls[i].args = "full" => old[i] = calls[i]
    BY <1>1 DEF Call
  <2> QED BY <2>3, <2>4
<1>5. more \in Merged /\ Len(more) = n /\ \A i \in 1..n : more[i].id = new[i] /\ more[i].id \in T
  <2>1. \A i \in 1..n : new[i] \in Calls /\ new[i] \in T
    BY <1>3 DEF T
  <2>2. more \in [1..n -> [id : Calls, args : Args]]
    BY <1>3, <2>1 DEF Call, Args
  <2>3. more \in Merged /\ Len(more) = n
    BY <1>2, <2>2, SeqDef DEF Merged
  <2>4. \A i \in 1..n : more[i].id = new[i]
    BY <1>3 DEF Call
  <2> QED BY <2>1, <2>3, <2>4
<1> HIDE DEF old, more
<1>6. /\ merged \in Merged /\ DOMAIN merged = 1..Len(calls) + n
      /\ \A i \in 1..Len(calls) + n :
           merged[i] = IF i <= Len(calls) THEN old[i] ELSE more[i - Len(calls)]
  <2>1. /\ merged \in Merged /\ Len(merged) = Len(old) + Len(more)
        /\ \A i \in 1..Len(old) + Len(more) :
             merged[i] = IF i <= Len(old) THEN old[i] ELSE more[i - Len(old)]
    <3>1. old \in Seq([id : Calls, args : Args]) /\ more \in Seq([id : Calls, args : Args])
      BY <1>4, <1>5 DEF Merged
    <3> HIDE DEF merged
    <3>2. merged = old \o more
      BY DEF merged
    <3> QED BY <3>1, <3>2, ConcatProperties, Zenon DEF Merged
  <2>2. DOMAIN merged = 1..Len(merged)
    BY <2>1, LenProperties DEF Merged
  <2> QED BY <1>4, <1>5, <2>1, <2>2
<1> HIDE DEF merged
<1>7. \A i \in 1..Len(calls), j \in 1..n : calls[i].id # new[j]
  BY <1>1, <1>3 DEF T
<1>8. \A i \in 1..Len(calls) : merged[i] = old[i] /\ merged[i].id = calls[i].id
  BY <1>1, <1>2, <1>4, <1>6
<1>9. \A i \in 1..Len(calls) + n : i > Len(calls) =>
        i - Len(calls) \in 1..n /\ merged[i].id = new[i - Len(calls)]
  BY <1>1, <1>2, <1>5, <1>6
<1>10. Distinct(merged)
  <2> SUFFICES ASSUME NEW i \in 1..Len(calls) + n, NEW j \in 1..Len(calls) + n,
                      merged[i].id = merged[j].id
               PROVE  i = j
    BY <1>6 DEF Distinct
  <2>1. CASE i <= Len(calls) /\ j <= Len(calls)
    BY <1>1, <1>8, <2>1 DEF Distinct
  <2>2. CASE i > Len(calls) /\ j > Len(calls)
    BY <1>1, <1>2, <1>3, <1>9, <2>2
  <2>3. CASE i <= Len(calls) /\ j > Len(calls)
    BY <1>1, <1>7, <1>8, <1>9, <2>3
  <2>4. CASE i > Len(calls) /\ j <= Len(calls)
    BY <1>1, <1>7, <1>8, <1>9, <2>4
  <2> QED BY <1>1, <1>2, <2>1, <2>2, <2>3, <2>4
<1>11. MergeAll(calls, S, new) = merged
  BY DEF MergeAll, merged, old, more
<1> QED
  <2>1. \A i \in DOMAIN calls : i \in DOMAIN merged
    BY <1>1, <1>2, <1>6
  <2> QED BY <1>1, <1>4, <1>6, <1>8, <1>10, <1>11, <2>1

-----------------------------------------------------------------------------
(***************************************************************************)
(* The chunk the reader takes.                                             *)
(***************************************************************************)
LEMMA Tuples ==
  ASSUME NEW a, NEW b, NEW c
  PROVE  /\ Len(<<a>>) = 1 /\ Len(<<a, b>>) = 2 /\ Len(<<a, b, c>>) = 3 /\ Len(<<>>) = 0
         /\ Head(<<a>>) = a /\ Head(<<a, b>>) = a /\ Head(<<a, b, c>>) = a
         /\ Tail(<<a>>) = <<>> /\ Tail(<<a, b>>) = <<b>> /\ Tail(<<a, b, c>>) = <<b, c>>
         /\ <<a>> # <<>> /\ <<a, b>> # <<>> /\ <<a, b, c>> # <<>>
  OBVIOUS

LEMMA Joined ==
  ASSUME NEW a, NEW b, NEW c
  PROVE  <<a>> \o <<b, c>> = <<a, b, c>> /\ <<>> \o <<b, c>> = <<b, c>>
<1> DEFINE S == {a, b, c}
           t == <<a>> \o <<b, c>>
<1>1. /\ <<a>> \in Seq(S) /\ <<b, c>> \in Seq(S) /\ <<a, b, c>> \in Seq(S)
      /\ Len(<<a>>) = 1 /\ Len(<<b, c>>) = 2 /\ Len(<<a, b, c>>) = 3
  OBVIOUS
<1> HIDE DEF S
<1>2. /\ t \in Seq(S) /\ Len(t) = 3
      /\ \A i \in 1..3 : t[i] = IF i <= 1 THEN <<a>>[i] ELSE <<b, c>>[i - 1]
  BY <1>1, ConcatProperties
<1> HIDE DEF t
<1>3. \A i \in 1..3 : t[i] = <<a, b, c>>[i]
  BY <1>2
<1>4. t = <<a, b, c>>
  BY <1>1, <1>2, <1>3, SeqEqual
<1>5. <<>> \o <<b, c>> = <<b, c>>
  BY <1>1, ConcatEmptySeq
<1> QED BY <1>4, <1>5 DEF t

LEMMA VendorStays ==
  ASSUME NextRequest
  PROVE  UNCHANGED vendor
  BY DEF NextRequest, SystemMessage, CodexMessage, AnthropicMessage, Walk, Refuse, Send

LEMMA FinishStays == UNCHANGED <<stop, toolCalls>> => UNCHANGED FinishReason
  BY DEF FinishReason

LEMMA FinishType == Typed => FinishReason \in {"stop", "tool_calls", "length"}
  BY DEF Typed, FinishReason

\* What a reading bridge was blocked on, or the next piece of the finale.
LEMMA Taken ==
  ASSUME Typed, Piped, Take
  PROVE  /\ UNCHANGED <<vendor, up, said, item, block, stop, bridge, text, toolCalls,
                        emitted, pipe, gone, answer>>
         /\ reader' \in {"peek", "relay"} /\ UNCHANGED FinishReason
         /\ \/ /\ bridge = "reading" /\ writing = <<Content(1)>> /\ writing' = <<>>
               /\ view' = [view EXCEPT !.text = @ + 1]
            \/ /\ bridge = "reading" /\ writing = <<HostedEvent>> /\ writing' = <<>>
               /\ UNCHANGED view
            \/ /\ bridge = "reading" /\ writing' = <<>>
               /\ \E d \in Deltas : /\ writing = <<d>>
                                    /\ view' = [view EXCEPT !.calls = Append(@, d)]
            \/ /\ bridge = "ending" /\ writing = <<Done>> /\ writing' = <<>>
               /\ UNCHANGED view
            \/ /\ bridge = "ending" /\ writing = <<Finish(FinishReason), Done>>
               /\ writing' = <<Done>> /\ view' = [view EXCEPT !.finish = FinishReason]
            \/ /\ bridge = "ending"
               /\ writing = <<Content(text), Finish(FinishReason), Done>>
               /\ writing' = <<Finish(FinishReason), Done>>
               /\ view' = [view EXCEPT !.text = @ + text]
<1>1. /\ writing # <<>> /\ writing' = Tail(writing) /\ view' = Seen(view, Head(writing))
      /\ UNCHANGED <<vendor, up, said, item, block, stop, bridge, text, toolCalls,
                     emitted, pipe, gone, answer>>
      /\ reader' \in {"peek", "relay"}
  BY DEF Take, request, upstream, parsed
<1>2. UNCHANGED FinishReason
  BY <1>1 DEF FinishReason
<1>3. /\ \A n : Seen(view, Content(n)) = [view EXCEPT !.text = @ + n]
      /\ Seen(view, HostedEvent) = view /\ Seen(view, Done) = view
      /\ \A r : Seen(view, Finish(r)) = [view EXCEPT !.finish = r]
      /\ \A d \in Deltas : Seen(view, d) = [view EXCEPT !.calls = Append(@, d)]
  BY DEF Seen, Content, HostedEvent, Done, Finish, Deltas
<1>4. CASE bridge = "reading"
  <2>1. PICK t \in Tokens : writing = <<t>>
    BY <1>1, <1>4 DEF Piped
  <2>2. writing' = <<>> /\ view' = Seen(view, t)
    BY <1>1, <2>1, Tuples
  <2> QED BY <1>1, <1>2, <1>3, <1>4, <2>1, <2>2 DEF Tokens
<1>5. CASE bridge = "ending"
  <2>1. CASE writing = <<Done>>
    BY <1>1, <1>2, <1>3, <1>5, <2>1, Tuples
  <2>2. CASE writing = <<Finish(FinishReason), Done>>
    BY <1>1, <1>2, <1>3, <1>5, <2>2, Tuples
  <2>3. CASE writing = <<Content(text), Finish(FinishReason), Done>>
    BY <1>1, <1>2, <1>3, <1>5, <2>3, Tuples
  <2> QED BY <1>1, <1>5, <2>1, <2>2, <2>3 DEF Piped
<1> QED BY <1>1, <1>4, <1>5 DEF Typed, Piped

\* The finale: text that no chunk carried comes first.
LEMMA Finale ==
  ASSUME StreamEnds
  PROVE  writing' = IF ~emitted /\ text > 0
                    THEN <<Content(text), Finish(FinishReason), Done>>
                    ELSE <<Finish(FinishReason), Done>>
<1>1. writing' = (IF ~emitted /\ text > 0 THEN <<Content(text)>> ELSE <<>>)
                   \o <<Finish(FinishReason), Done>>
  BY DEF StreamEnds, Emit
<1>2. CASE ~emitted /\ text > 0
  <2>1. writing' = <<Content(text)>> \o <<Finish(FinishReason), Done>>
    BY <1>1, <1>2
  <2> QED BY <1>2, <2>1, Joined
<1>3. CASE ~(~emitted /\ text > 0)
  <2>1. writing' = <<>> \o <<Finish(FinishReason), Done>>
    BY <1>1, <1>3
  <2> QED BY <1>3, <2>1, Joined
<1> QED BY <1>2, <1>3

\* The call a bridge hands on once it is whole.
LEMMA CallHanded ==
  ASSUME Streamed, NEW c \in Calls,
         toolCalls' = MergeToolCall(toolCalls, c, "full")
  PROVE  /\ toolCalls' \in Merged /\ Distinct(toolCalls')
         /\ ToolDelta(StreamIndex(toolCalls', c), c, "full") \in Deltas
         /\ StreamIndex(toolCalls', c) + 1 \in DOMAIN toolCalls'
         /\ toolCalls'[StreamIndex(toolCalls', c) + 1] = Call(c, "full")
<1>1. toolCalls \in Merged /\ Distinct(toolCalls) /\ "full" \in Args
  BY DEF Streamed, Typed, Called, Merged, Distinct, Args
<1>2. LET merged == MergeToolCall(toolCalls, c, "full")
      IN  /\ merged \in Merged /\ Distinct(merged)
          /\ StreamIndex(merged, c) \in Nat
          /\ StreamIndex(merged, c) + 1 \in DOMAIN merged
          /\ merged[StreamIndex(merged, c) + 1] = Call(c, "full")
  BY <1>1, MergeOne
<1> QED BY <1>1, <1>2 DEF ToolDelta, Deltas

LEMMA TypedStep == Streamed /\ [Next]_vars => Typed'
<1> SUFFICES ASSUME Streamed, [Next]_vars PROVE Typed'
  OBVIOUS
<1>0. Typed
  BY DEF Streamed
<1> USE <1>0 DEF Typed, request, upstream, parsed, reading, Emit, Handles
<1>1. CASE NextRequest /\ UNCHANGED stream
  BY <1>1, VendorStays DEF stream
<1>2. CASE Begin
  BY <1>2 DEF Begin
<1>3. CASE CodexDelta
  <2>1. text = said /\ said + 1 \in 0..MaxText
    BY <1>3, StreamAssumption DEF CodexDelta, SayDelta, Streamed, Spoke
  <2> QED BY <1>3, <2>1 DEF CodexDelta, SayDelta
<1>4. CASE CodexCompleted
  <2>1. toolCalls' \in Merged
    <3>1. PICK S \in SUBSET Calls : \E new \in SetToSeqs(S \ Known) :
            toolCalls' = MergeAll(toolCalls, S, new)
      BY <1>4 DEF CodexCompleted
    <3>2. toolCalls \in Merged /\ Distinct(toolCalls)
      BY DEF Streamed, Called, Merged, Distinct
    <3>3. PICK new \in SetToSeqs(S \ Known) : toolCalls' = MergeAll(toolCalls, S, new)
      BY <3>1
    <3>4. new \in SetToSeqs(S \ {toolCalls[i].id : i \in DOMAIN toolCalls})
      BY DEF Known
    <3>5. MergeAll(toolCalls, S, new) \in Merged
      BY <3>2, <3>4, MergeMany
    <3> QED BY <3>3, <3>5
  <2>2. text' \in 0..MaxText
    BY <1>4 DEF CodexCompleted
  <2> QED BY <1>4, <2>1, <2>2 DEF CodexCompleted, Merged
<1>5. CASE CodexFailed
  BY <1>5 DEF CodexFailed
<1>6. ASSUME NEW x \in Calls \cup Hosted, CodexItemAdded(x) PROVE Typed'
  <2>1. toolCalls' \in Merged
    <3>1. toolCalls \in Merged /\ Distinct(toolCalls) /\ "part" \in Args
      BY DEF Streamed, Called, Merged, Distinct, Args
    <3>2. \A c \in Calls : MergeToolCall(toolCalls, c, "part") \in Merged
      BY <3>1, MergeOne
    <3> QED BY <1>6, <3>1, <3>2 DEF CodexItemAdded
  <2> QED BY <1>6, <2>1 DEF CodexItemAdded, Merged
<1>7. ASSUME NEW x \in Calls \cup Hosted, CodexItemDone(x) PROVE Typed'
  <2>1. toolCalls' \in Merged
    BY <1>7, CallHanded DEF CodexItemDone, Merged
  <2> QED BY <1>7, <2>1 DEF CodexItemDone, Merged
<1>8. CASE BlockDelta
  <2>1. text = said /\ said + 1 \in 0..MaxText
    BY <1>8, StreamAssumption DEF BlockDelta, SayDelta, Streamed, Spoke
  <2> QED BY <1>8, <2>1 DEF BlockDelta, SayDelta
<1>9. CASE BlockStop
  <2>1. toolCalls' \in Merged
    BY <1>9, CallHanded DEF BlockStop, Merged
  <2> QED BY <1>9, <2>1 DEF BlockStop, Merged
<1>10. CASE MessageStop
  BY <1>10 DEF MessageStop
<1>11. CASE ErrorEvent
  BY <1>11 DEF ErrorEvent
<1>12. ASSUME NEW x \in Calls \cup Hosted \cup {"text"}, BlockStart(x) PROVE Typed'
  BY <1>12 DEF BlockStart
<1>13. ASSUME NEW x \in Hosted, SearchResult(x) PROVE Typed'
  BY <1>13 DEF SearchResult
<1>14. CASE StreamEnds
  BY <1>14 DEF StreamEnds
<1>15. CASE StreamBreaks
  BY <1>15 DEF StreamBreaks
<1>16. CASE BridgeEnds
  BY <1>16 DEF BridgeEnds
<1>17. CASE Take
  <2>1. view' \in Views
    <3>1. \A d \in Deltas : Append(view.calls, d) \in Seq(Deltas)
      BY AppendProperties DEF Views
    <3>2. view.text + 1 \in Nat /\ view.text + text \in Nat
      BY StreamAssumption DEF Views
    <3> QED BY <1>17, <3>1, <3>2, Taken, FinishType DEF Streamed, Views
  <2> QED BY <1>17, <2>1, Taken DEF Streamed
<1>18. CASE EndSeen
  BY <1>18 DEF EndSeen
<1>19. CASE HangUp
  BY <1>19 DEF HangUp
<1>20. CASE Close
  BY <1>20 DEF Close
<1>21. CASE UNCHANGED vars
  BY <1>21 DEF vars
<1> QED
  BY <1>1, <1>2, <1>3, <1>4, <1>5, <1>6, <1>7, <1>8, <1>9, <1>10, <1>11, <1>12,
     <1>13, <1>14, <1>15, <1>16, <1>17, <1>18, <1>19, <1>20, <1>21
  DEF Next, Codex, Claude, Bridge, Reader

LEMMA PipedStep == Streamed /\ [Next]_vars => Piped'
<1> SUFFICES ASSUME Streamed, [Next]_vars PROVE Piped'
  OBVIOUS
<1>0. Typed /\ Piped /\ (up \in {"idle", "open"} => bridge = "reading")
  BY DEF Streamed, Spoke
<1>v. \A t \in Tokens : <<t>> # <<>>
  BY Tuples
<1>w. Content(1) \in Tokens /\ HostedEvent \in Tokens
  BY DEF Tokens
<1> USE <1>0, <1>v, <1>w DEF Typed, Piped, request, upstream, parsed, reading, Emit, Handles, Ended,
                             Cut, Vendors
<1>1. CASE NextRequest /\ UNCHANGED stream
  BY <1>1, VendorStays, FinishStays DEF stream
<1>2. CASE Begin
  BY <1>2 DEF Begin
<1>3. CASE CodexDelta
  BY <1>3 DEF CodexDelta, SayDelta
<1>4. CASE CodexCompleted
  BY <1>4 DEF CodexCompleted
<1>5. CASE CodexFailed
  BY <1>5 DEF CodexFailed
<1>6. ASSUME NEW x \in Calls \cup Hosted, CodexItemAdded(x) PROVE Piped'
  BY <1>6 DEF CodexItemAdded
<1>7. ASSUME NEW x \in Calls \cup Hosted, CodexItemDone(x) PROVE Piped'
  <2>1. \E t \in Tokens : writing' = <<t>>
    BY <1>7, CallHanded DEF CodexItemDone, Tokens
  <2> QED BY <1>7, <2>1 DEF CodexItemDone
<1>8. CASE BlockDelta
  BY <1>8 DEF BlockDelta, SayDelta
<1>9. CASE BlockStop
  <2>1. writing' = <<>> \/ \E t \in Tokens : writing' = <<t>>
    BY <1>9, CallHanded DEF BlockStop, Tokens
  <2> QED BY <1>9, <2>1 DEF BlockStop
<1>10. CASE MessageStop
  BY <1>10 DEF MessageStop
<1>11. CASE ErrorEvent
  BY <1>11 DEF ErrorEvent
<1>12. ASSUME NEW x \in Calls \cup Hosted \cup {"text"}, BlockStart(x) PROVE Piped'
  BY <1>12 DEF BlockStart
<1>13. ASSUME NEW x \in Hosted, SearchResult(x) PROVE Piped'
  BY <1>13 DEF SearchResult
<1>14. CASE StreamEnds
  <2>1. /\ UNCHANGED FinishReason /\ UNCHANGED text
    BY <1>14 DEF StreamEnds, FinishReason
  <2>2. writing' \in {<<Finish(FinishReason), Done>>,
                      <<Content(text), Finish(FinishReason), Done>>}
    BY <1>14, Finale
  <2>3. bridge' = "ending" /\ up' \in Ended /\ UNCHANGED <<pipe, vendor, answer>>
    BY <1>14 DEF StreamEnds
  <2> QED BY <1>14, <2>1, <2>2, <2>3 DEF StreamEnds
<1>15. CASE StreamBreaks
  BY <1>15 DEF StreamBreaks
<1>16. CASE BridgeEnds
  BY <1>16 DEF BridgeEnds
<1>17. CASE Take
  BY <1>17, Taken DEF Take
<1>18. CASE EndSeen
  BY <1>18 DEF EndSeen
<1>19. CASE HangUp
  BY <1>19, FinishStays DEF HangUp
<1>20. CASE Close
  BY <1>20 DEF Close
<1>21. CASE UNCHANGED vars
  BY <1>21, FinishStays DEF vars
<1> QED
  BY <1>1, <1>2, <1>3, <1>4, <1>5, <1>6, <1>7, <1>8, <1>9, <1>10, <1>11, <1>12,
     <1>13, <1>14, <1>15, <1>16, <1>17, <1>18, <1>19, <1>20, <1>21
  DEF Next, Codex, Claude, Bridge, Reader

LEMMA SpokeStep == Streamed /\ [Next]_vars => Spoke'
<1> SUFFICES ASSUME Streamed, [Next]_vars PROVE Spoke'
  OBVIOUS
<1>0. Typed /\ Piped /\ Spoke /\ MaxText \in Nat /\ view.text \in Nat
  BY StreamAssumption DEF Streamed, Typed, Views
<1>t. /\ Len(<<>>) = 0 /\ <<>> # <<Content(1)>> /\ <<HostedEvent>> # <<Content(1)>>
      /\ \A d \in Deltas : <<d>> # <<Content(1)>>
  BY DEF Content, HostedEvent, Deltas
<1> USE <1>0, <1>t DEF Typed, Piped, Spoke, request, upstream, parsed, reading, Emit, Handles,
                       Ended, Cut, Vendors
<1>1. CASE NextRequest /\ UNCHANGED stream
  BY <1>1, VendorStays, FinishStays DEF stream
<1>2. CASE Begin
  BY <1>2 DEF Begin
<1>3. CASE CodexDelta
  BY <1>3 DEF CodexDelta, SayDelta
<1>4. CASE CodexCompleted
  <2>1. /\ up' = "completed" /\ vendor = "codex"
        /\ UNCHANGED <<vendor, said, bridge, emitted, writing, pipe, view>>
        /\ bridge = "reading" /\ pipe = "open"
    BY <1>4 DEF CodexCompleted
  <2> QED BY <2>1
<1>5. CASE CodexFailed
  BY <1>5 DEF CodexFailed
<1>6. ASSUME NEW x \in Calls \cup Hosted, CodexItemAdded(x) PROVE Spoke'
  BY <1>6 DEF CodexItemAdded
<1>7. ASSUME NEW x \in Calls \cup Hosted, CodexItemDone(x) PROVE Spoke'
  <2>1. writing' # <<Content(1)>>
    BY <1>7, CallHanded DEF CodexItemDone
  <2> QED BY <1>7, <2>1 DEF CodexItemDone
<1>8. CASE BlockDelta
  BY <1>8 DEF BlockDelta, SayDelta
<1>9. CASE BlockStop
  <2>1. writing' # <<Content(1)>>
    BY <1>9, CallHanded DEF BlockStop
  <2> QED BY <1>9, <2>1 DEF BlockStop
<1>10. CASE MessageStop
  BY <1>10 DEF MessageStop
<1>11. CASE ErrorEvent
  BY <1>11 DEF ErrorEvent
<1>12. ASSUME NEW x \in Calls \cup Hosted \cup {"text"}, BlockStart(x) PROVE Spoke'
  BY <1>12 DEF BlockStart
<1>13. ASSUME NEW x \in Hosted, SearchResult(x) PROVE Spoke'
  BY <1>13 DEF SearchResult
<1>14. CASE StreamEnds
  <2>1. UNCHANGED <<FinishReason, vendor, emitted, said, text, view, pipe>>
    BY <1>14 DEF StreamEnds, FinishReason
  <2>2. /\ Len(writing') = IF ~emitted /\ text > 0 THEN 3 ELSE 2
    BY <1>14, Finale, Tuples
  <2>3. bridge' = "ending" /\ pipe = "open" /\ up' \in Ended /\ writing = <<>> /\ bridge = "reading"
    BY <1>14 DEF StreamEnds
  <2>4. view'.text = said /\ (emitted <=> said > 0) /\ said \in Nat /\ text \in Nat
    BY <2>1, <2>3
  <2>5. IF Len(writing') = 3 THEN view'.text = 0 /\ said' = 0
        ELSE view'.text = IF said' > 0 THEN said' ELSE text'
    <3>1. CASE ~emitted /\ text > 0
      BY <2>1, <2>2, <2>4, <3>1
    <3>2. CASE ~(~emitted /\ text > 0)
      <4>1. Len(writing') = 2 /\ (said = 0 => text = 0)
        BY <2>2, <2>4, <3>2
      <4> QED BY <2>1, <2>4, <4>1
    <3> QED BY <3>1, <3>2
  <2>6. ~(Len(writing') < 2)
    BY <2>2
  <2>7. UNCHANGED <<vendor, emitted, said, text>> /\ up' \notin {"idle", "open"} /\ bridge' # "reading"
    BY <2>1, <2>3
  <2> QED BY <2>5, <2>6, <2>7
<1>15. CASE StreamBreaks
  BY <1>15 DEF StreamBreaks
<1>16. CASE BridgeEnds
  BY <1>16, FinishStays DEF BridgeEnds
<1>17. CASE Take
  <2>1. UNCHANGED <<vendor, up, said, bridge, text, emitted, pipe, FinishReason>>
    BY <1>17, Taken
  <2>2. CASE bridge = "reading"
    <3>1. writing' = <<>> /\ pipe = "open"
      BY <1>17, <2>2, Taken
    <3>2. CASE writing = <<Content(1)>>
      BY <1>17, <2>1, <2>2, <3>1, <3>2, Taken DEF Views
    <3>3. CASE writing # <<Content(1)>>
      <4>1. view'.text = view.text
        BY <1>17, <2>2, <3>3, Taken DEF Views
      <4> QED BY <2>1, <2>2, <3>1, <3>3, <4>1
    <3> QED BY <3>2, <3>3
  <2>3. CASE bridge = "ending"
    <3>1. CASE writing = <<Done>>
      <4>1. writing' = <<>> /\ view' = view /\ Len(writing) = 1
        BY <1>17, <2>3, <3>1, Taken, Tuples
      <4> QED BY <2>1, <2>3, <4>1
    <3>2. CASE writing = <<Finish(FinishReason), Done>>
      <4>1. writing' = <<Done>> /\ view' = [view EXCEPT !.finish = FinishReason] /\ Len(writing) = 2
        BY <1>17, <2>3, <3>2, Taken, Tuples
      <4>2. Len(writing') = 1 /\ view'.text = view.text /\ view'.finish = FinishReason
        BY <4>1, Tuples DEF Views
      <4> QED BY <2>1, <2>3, <4>1, <4>2
    <3>3. CASE writing = <<Content(text), Finish(FinishReason), Done>>
      <4>1. /\ writing' = <<Finish(FinishReason), Done>> /\ Len(writing) = 3
            /\ view' = [view EXCEPT !.text = @ + text]
        BY <1>17, <2>3, <3>3, Taken, Tuples
      <4>2. Len(writing') = 2 /\ view'.text = view.text + text
        BY <4>1, Tuples DEF Views
      <4>3. Len(writing') = 2 /\ view'.text = text /\ said = 0
        BY <2>3, <4>1, <4>2
      <4> QED BY <2>1, <2>3, <4>3
    <3> QED BY <1>17, <2>3, <3>1, <3>2, <3>3, Taken
  <2> QED BY <1>17, <2>2, <2>3, Taken
<1>18. CASE EndSeen
  BY <1>18, FinishStays DEF EndSeen
<1>19. CASE HangUp
  BY <1>19, FinishStays DEF HangUp
<1>20. CASE Close
  BY <1>20, FinishStays DEF Close
<1>21. CASE UNCHANGED vars
  BY <1>21, FinishStays DEF vars
<1> QED
  BY <1>1, <1>2, <1>3, <1>4, <1>5, <1>6, <1>7, <1>8, <1>9, <1>10, <1>11, <1>12,
     <1>13, <1>14, <1>15, <1>16, <1>17, <1>18, <1>19, <1>20, <1>21
  DEF Next, Codex, Claude, Bridge, Reader

LEMMA PeekedStep == Streamed /\ [Next]_vars => Peeked'
<1> SUFFICES ASSUME Streamed, [Next]_vars PROVE Peeked'
  OBVIOUS
<1>0. Typed /\ Piped /\ Peeked
  BY DEF Streamed
<1>1. ASSUME UNCHANGED reading PROVE Peeked'
  BY <1>0, <1>1 DEF Peeked, reading
<1>2. CASE Take
  <2>1. writing # <<>> /\ reader \in {"peek", "relay"} /\ UNCHANGED answer
        /\ view' = Seen(view, Head(writing))
        /\ \E commit \in Commits(Head(writing)) : reader' = IF commit THEN "relay" ELSE reader
    BY <1>2 DEF Take
  <2>2. answer = "none" /\ reader' \in {"peek", "relay"}
    BY <1>0, <2>1 DEF Peeked
  <2>3. ASSUME reader' = "peek" PROVE view' = Nothing
    <3>1. reader = "peek" /\ view = Nothing
      BY <1>0, <2>1, <2>3 DEF Peeked
    <3>2. Head(writing).kind = "hosted"
      BY <2>1, <2>3 DEF Commits
    <3> QED BY <2>1, <3>1, <3>2 DEF Seen
  <2> QED BY <2>1, <2>2, <2>3 DEF Peeked
<1>3. CASE EndSeen
  BY <1>0, <1>3 DEF EndSeen, Peeked, Typed
<1>4. CASE HangUp
  BY <1>0, <1>4 DEF HangUp, Peeked
<1>5. CASE Close
  BY <1>0, <1>5 DEF Close, Peeked
<1>6. CASE (NextRequest /\ UNCHANGED stream) \/ Begin \/ UNCHANGED vars
  BY <1>1, <1>6 DEF Begin, stream, vars, reading
<1>7. CASE Codex
  BY <1>1, <1>7 DEF Codex, CodexDelta, CodexCompleted, CodexFailed, CodexItemAdded,
    CodexItemDone
<1>8. CASE Claude
  BY <1>1, <1>8 DEF Claude, BlockDelta, BlockStop, MessageStop, ErrorEvent, BlockStart,
    SearchResult
<1>9. CASE StreamEnds \/ StreamBreaks
  BY <1>1, <1>9 DEF StreamEnds, StreamBreaks
<1>10. CASE BridgeEnds
  <2>1. UNCHANGED reading
    BY <1>10 DEF BridgeEnds
  <2> QED BY <1>1, <2>1
<1> QED BY <1>2, <1>3, <1>4, <1>5, <1>6, <1>7, <1>8, <1>9, <1>10 DEF Next, Bridge, Reader

\* What was told stays true while no call told changes its place, and no other
\* call is done.
LEMMA CalledKept ==
  ASSUME Streamed,
         \A c \in Calls : item'[c] = "done" <=> item[c] = "done",
         toolCalls' \in Merged, Distinct(toolCalls'),
         \A i \in DOMAIN toolCalls :
           item[toolCalls[i].id] = "done" /\ toolCalls[i].args = "full" =>
             i \in DOMAIN toolCalls' /\ toolCalls'[i] = toolCalls[i],
         UNCHANGED vendor, view'.calls = view.calls,
         \A t \in Deltas : writing' = <<t>> <=> writing = <<t>>,
         block' \in Calls => item'[block'] = "started",
         vendor = "codex" => block' = "none"
  PROVE  Called'
<1>0. Called
  BY DEF Streamed
<1>1. ASSUME NEW d, Told(d) PROVE Told(d)'
  <2>1. d.id \in Calls /\ Call(d.id, "full").id = d.id /\ Call(d.id, "full").args = "full"
    BY <1>1 DEF Told, Deltas, Call
  <2>2. d.index + 1 \in DOMAIN toolCalls' /\ toolCalls'[d.index + 1] = toolCalls[d.index + 1]
    BY <1>1, <2>1 DEF Told
  <2> QED BY <1>1, <2>1, <2>2 DEF Told
<1>2. \A t \in Deltas : writing' = <<t>> =>
        Told(t)' /\ \A i \in DOMAIN view'.calls : view'.calls[i].id # t.id
  BY <1>0, <1>1 DEF Called
<1>3. \A i \in DOMAIN view'.calls : Told(view.calls[i])'
  BY <1>0, <1>1 DEF Called
<1>4. \A c \in Calls : item'[c] = "done" =>
        \/ \E i \in DOMAIN view'.calls : view'.calls[i].id = c
        \/ \E t \in Deltas : writing' = <<t>> /\ t.id = c
  BY <1>0 DEF Called
<1>5. \A i, j \in DOMAIN view'.calls : view'.calls[i].id = view'.calls[j].id => i = j
  BY <1>0 DEF Called
<1>6. \A i, j \in DOMAIN toolCalls' : toolCalls'[i].id = toolCalls'[j].id => i = j
  BY DEF Distinct
<1> QED BY <1>2, <1>3, <1>4, <1>5, <1>6 DEF Called

\* A call is told once, when it is whole.
LEMMA CalledOnce ==
  ASSUME Streamed, NEW c \in Calls, item[c] # "done",
         item' = [item EXCEPT ![c] = "done"],
         toolCalls' = MergeToolCall(toolCalls, c, "full"),
         writing = <<>>, writing' = <<ToolDelta(StreamIndex(toolCalls', c), c, "full")>>,
         UNCHANGED <<vendor, view>>, block' = "none"
  PROVE  Called'
<1>0. /\ Called /\ toolCalls \in Merged /\ Distinct(toolCalls) /\ "full" \in Args
      /\ item \in [Calls \cup Hosted -> {"none", "started", "done"}]
      /\ "none" \notin Calls
  BY StreamAssumption
  DEF Streamed, Typed, Called, Merged, Distinct, Args
<1>d. PICK delta \in Deltas : delta = ToolDelta(StreamIndex(toolCalls', c), c, "full")
  BY CallHanded
<1>1. /\ toolCalls' \in Merged /\ Distinct(toolCalls') /\ writing' = <<delta>>
      /\ delta.index = StreamIndex(toolCalls', c) /\ delta.id = c /\ delta.args = "full"
      /\ delta.index + 1 \in DOMAIN toolCalls' /\ toolCalls'[delta.index + 1] = Call(c, "full")
  BY <1>d, CallHanded DEF ToolDelta
<1>2. \A i \in DOMAIN toolCalls : toolCalls[i].id # c =>
        i \in DOMAIN toolCalls' /\ toolCalls'[i] = toolCalls[i]
  BY <1>0, MergeOne
<1>3. item'[c] = "done" /\ \A b \in Calls : b # c => item'[b] = item[b]
  BY <1>0
<1>4. Told(delta)'
  BY <1>1, <1>3 DEF Told
<1>5. ASSUME NEW d, Told(d) PROVE Told(d)' /\ d.id # c
  <2>1. d.id \in Calls /\ d.id # c /\ Call(d.id, "full").id = d.id
    BY <1>5 DEF Told, Deltas, Call
  <2>2. d.index + 1 \in DOMAIN toolCalls' /\ toolCalls'[d.index + 1] = toolCalls[d.index + 1]
    BY <1>2, <1>5, <2>1 DEF Told
  <2> QED BY <1>3, <1>5, <2>1, <2>2 DEF Told
<1>6. \A i \in DOMAIN view'.calls : Told(view.calls[i])' /\ view'.calls[i].id # c
  BY <1>0, <1>5 DEF Called
<1>7. \A t \in Deltas : writing' = <<t>> =>
        Told(t)' /\ \A i \in DOMAIN view'.calls : view'.calls[i].id # t.id
  <2> SUFFICES ASSUME NEW t \in Deltas, writing' = <<t>>
               PROVE  Told(t)' /\ \A i \in DOMAIN view'.calls : view'.calls[i].id # t.id
    OBVIOUS
  <2>1. t = delta
    BY <1>1
  <2> QED BY <1>1, <1>4, <1>6, <2>1
<1>8. \A b \in Calls : item'[b] = "done" =>
        \/ \E i \in DOMAIN view'.calls : view'.calls[i].id = b
        \/ \E t \in Deltas : writing' = <<t>> /\ t.id = b
  <2> SUFFICES ASSUME NEW b \in Calls, item'[b] = "done"
               PROVE  \/ \E i \in DOMAIN view'.calls : view'.calls[i].id = b
                      \/ \E t \in Deltas : writing' = <<t>> /\ t.id = b
    OBVIOUS
  <2>1. CASE b = c
    BY <1>1, <2>1
  <2>2. CASE b # c
    <3>1. item[b] = "done" /\ \A t \in Deltas : writing # <<t>>
      BY <1>3, <2>2, Tuples
    <3> QED BY <1>0, <3>1 DEF Called
  <2> QED BY <2>1, <2>2
<1>9. \A i, j \in DOMAIN view'.calls : view'.calls[i].id = view'.calls[j].id => i = j
  BY <1>0 DEF Called
<1>10. \A i, j \in DOMAIN toolCalls' : toolCalls'[i].id = toolCalls'[j].id => i = j
  BY <1>1 DEF Distinct
<1> QED BY <1>0, <1>6, <1>7, <1>8, <1>9, <1>10 DEF Called

\* The reader takes a call over from the bridge.
LEMMA CalledTaken ==
  ASSUME Streamed, NEW d \in Deltas, writing = <<d>>, writing' = <<>>,
         view' = [view EXCEPT !.calls = Append(@, d)],
         UNCHANGED <<vendor, item, block, toolCalls>>
  PROVE  Called'
<1>0. /\ Called /\ view.calls \in Seq(Deltas) /\ view'.calls = Append(view.calls, d)
  BY DEF Streamed, Typed, Views
<1>1. /\ Len(view.calls) \in Nat
      /\ DOMAIN view.calls = 1..Len(view.calls) /\ DOMAIN view'.calls = 1..Len(view.calls) + 1
      /\ \A i \in 1..Len(view.calls) : view'.calls[i] = view.calls[i]
      /\ view'.calls[Len(view.calls) + 1] = d
  BY <1>0, AppendProperties, LenProperties
<1>2. \A i \in DOMAIN view'.calls :
        \/ i \in DOMAIN view.calls /\ view'.calls[i] = view.calls[i]
        \/ i = Len(view.calls) + 1 /\ view'.calls[i] = d
  BY <1>1
<1>3. Told(d) /\ \A i \in DOMAIN view.calls : view.calls[i].id # d.id
  BY <1>0 DEF Called
<1>4. \A i \in DOMAIN view'.calls : Told(view.calls[i])'
  BY <1>0, <1>2, <1>3 DEF Called, Told
<1>5. \A i, j \in DOMAIN view'.calls : view'.calls[i].id = view'.calls[j].id => i = j
  BY <1>0, <1>2, <1>3 DEF Called
<1>6. \A t \in Deltas : writing' # <<t>> /\ (writing = <<t>> => t = d)
  OBVIOUS
<1>7. \A c \in Calls : item'[c] = "done" =>
        \E i \in DOMAIN view'.calls : view'.calls[i].id = c
  <2> SUFFICES ASSUME NEW c \in Calls, item[c] = "done"
               PROVE  \E i \in DOMAIN view'.calls : view'.calls[i].id = c
    OBVIOUS
  <2>1. CASE \E i \in DOMAIN view.calls : view.calls[i].id = c
    BY <1>1, <2>1
  <2>2. CASE d.id = c
    BY <1>1, <2>2
  <2> QED BY <1>0, <1>6, <2>1, <2>2 DEF Called
<1> QED BY <1>0, <1>4, <1>5, <1>6, <1>7 DEF Called

LEMMA CalledStep == Streamed /\ [Next]_vars => Called'
<1> SUFFICES ASSUME Streamed, [Next]_vars PROVE Called'
  OBVIOUS
<1>0. /\ Typed /\ Piped /\ toolCalls \in Merged /\ Distinct(toolCalls) /\ "part" \in Args
      /\ block \in Calls => item[block] = "started"
      /\ vendor = "codex" => block = "none"
      /\ Calls \cap Hosted = {} /\ "none" \notin Calls /\ "text" \notin Calls
      /\ item \in [Calls \cup Hosted -> {"none", "started", "done"}]
      /\ vendor \in {"codex", "claude"}
  BY StreamAssumption DEF Streamed, Typed, Called, Merged, Distinct, Args, Vendors
<1>t. /\ \A t \in Deltas : <<>> # <<t>> /\ <<HostedEvent>> # <<t>> /\ <<Done>> # <<t>>
      /\ \A t \in Deltas : \A n : <<Content(n)>> # <<t>>
      /\ \A t \in Deltas : \A a, b : <<a, b>> # <<t>>
      /\ \A t \in Deltas : \A a, b, c : <<a, b, c>> # <<t>>
  BY Tuples DEF HostedEvent, Content, Deltas, Done
<1>k. ASSUME UNCHANGED <<vendor, item, toolCalls, view, block>>,
             \/ UNCHANGED writing
             \/ \A t \in Deltas : writing # <<t>> /\ writing' # <<t>>
      PROVE  Called'
  BY <1>0, <1>k, CalledKept
<1> USE <1>k, <1>0, <1>t DEF request, upstream, parsed, reading, Emit, Handles
<1>1. CASE NextRequest /\ UNCHANGED stream
  BY <1>1, VendorStays DEF stream
<1>2. CASE Begin
  BY <1>2 DEF Begin
<1>3. CASE CodexDelta
  BY <1>3 DEF CodexDelta, SayDelta
<1>4. CASE CodexCompleted
  <2>1. PICK S \in SUBSET Calls : \E new \in SetToSeqs(S \ Known) :
          toolCalls' = MergeAll(toolCalls, S, new)
    BY <1>4 DEF CodexCompleted
  <2>2. PICK new \in SetToSeqs(S \ Known) : toolCalls' = MergeAll(toolCalls, S, new)
    BY <2>1
  <2>3. new \in SetToSeqs(S \ {toolCalls[i].id : i \in DOMAIN toolCalls})
    BY DEF Known
  <2>4. /\ toolCalls' \in Merged /\ Distinct(toolCalls')
        /\ \A i \in DOMAIN toolCalls : toolCalls[i].args = "full" =>
             i \in DOMAIN toolCalls' /\ toolCalls'[i] = toolCalls[i]
    <3>1. LET merged == MergeAll(toolCalls, S, new)
          IN  /\ merged \in Merged /\ Distinct(merged)
              /\ \A i \in DOMAIN toolCalls :
                   /\ i \in DOMAIN merged /\ merged[i].id = toolCalls[i].id
                   /\ toolCalls[i].args = "full" => merged[i] = toolCalls[i]
      BY <1>0, <2>3, MergeMany
    <3> QED BY <2>2, <3>1
  <2>5. UNCHANGED <<vendor, item, view, block, writing>>
    BY <1>4 DEF CodexCompleted
  <2> QED BY <2>4, <2>5, CalledKept
<1>5. CASE CodexFailed
  BY <1>5 DEF CodexFailed
<1>6. ASSUME NEW x \in Calls \cup Hosted, CodexItemAdded(x) PROVE Called'
  <2>1. /\ \A c \in Calls : item'[c] = "done" <=> item[c] = "done"
        /\ UNCHANGED <<vendor, view, block>> /\ vendor = "codex" /\ writing = <<>>
        /\ writing' \in {<<>>, <<HostedEvent>>} /\ item[x] # "done"
    BY <1>6 DEF CodexItemAdded
  <2>2. CASE x \in Calls
    <3>1. toolCalls' = MergeToolCall(toolCalls, x, "part")
      BY <1>6, <2>2 DEF CodexItemAdded
    <3>2. /\ toolCalls' \in Merged /\ Distinct(toolCalls')
          /\ \A i \in DOMAIN toolCalls : toolCalls[i].id # x =>
               i \in DOMAIN toolCalls' /\ toolCalls'[i] = toolCalls[i]
      BY <2>2, <3>1, MergeOne
    <3>3. \A i \in DOMAIN toolCalls :
            item[toolCalls[i].id] = "done" /\ toolCalls[i].args = "full" =>
              i \in DOMAIN toolCalls' /\ toolCalls'[i] = toolCalls[i]
      BY <2>1, <3>2
    <3> QED BY <2>1, <3>2, <3>3, CalledKept
  <2>3. CASE x \notin Calls
    <3>1. toolCalls' = toolCalls
      BY <1>6, <2>3 DEF CodexItemAdded
    <3> QED BY <2>1, <3>1, CalledKept
  <2> QED BY <2>2, <2>3
<1>7. ASSUME NEW x \in Calls \cup Hosted, CodexItemDone(x) PROVE Called'
  <2>1. CASE x \in Calls
    BY <1>7, <2>1, CalledOnce DEF CodexItemDone
  <2>2. CASE x \in Hosted
    <3>1. /\ \A c \in Calls : item'[c] = item[c]
          /\ writing = <<>> /\ writing' = <<HostedEvent>>
          /\ UNCHANGED <<vendor, view, toolCalls, block>> /\ vendor = "codex"
      BY <1>7, <2>2 DEF CodexItemDone
    <3> QED BY <3>1, CalledKept
  <2> QED BY <2>1, <2>2
<1>8. CASE BlockDelta
  BY <1>8 DEF BlockDelta, SayDelta
<1>9. CASE BlockStop
  <2>1. CASE block \in Calls
    BY <1>9, <2>1, CalledOnce DEF BlockStop
  <2>2. CASE block \notin Calls
    <3>1. UNCHANGED <<vendor, view, toolCalls, writing, item>> /\ block' = "none"
      BY <1>9, <2>2 DEF BlockStop
    <3> QED BY <3>1, CalledKept
  <2> QED BY <2>1, <2>2
<1>10. CASE MessageStop
  BY <1>10 DEF MessageStop
<1>11. CASE ErrorEvent
  BY <1>11 DEF ErrorEvent
<1>12. ASSUME NEW x \in Calls \cup Hosted \cup {"text"}, BlockStart(x) PROVE Called'
  <2>1. /\ \A c \in Calls : item'[c] = "done" <=> item[c] = "done"
        /\ UNCHANGED <<vendor, view, toolCalls>> /\ vendor = "claude" /\ writing = <<>>
        /\ writing' \in {<<>>, <<HostedEvent>>}
        /\ block' \in Calls => item'[block'] = "started"
    BY <1>12 DEF BlockStart
  <2> QED BY <2>1, CalledKept
<1>13. ASSUME NEW x \in Hosted, SearchResult(x) PROVE Called'
  <2>1. /\ \A c \in Calls : item'[c] = item[c]
        /\ UNCHANGED <<vendor, view, toolCalls, block>>
        /\ writing = <<>> /\ writing' = <<HostedEvent>>
    BY <1>13 DEF SearchResult
  <2> QED BY <2>1, CalledKept
<1>14. CASE StreamEnds
  <2>1. UNCHANGED <<vendor, item, toolCalls, view, block>> /\ writing = <<>>
    BY <1>14 DEF StreamEnds
  <2>2. \A t \in Deltas : writing' # <<t>>
    BY <1>14, Finale
  <2> QED BY <2>1, <2>2
<1>15. CASE StreamBreaks
  BY <1>15 DEF StreamBreaks
<1>16. CASE BridgeEnds
  BY <1>16 DEF BridgeEnds
<1>17. CASE Take
  <2>1. UNCHANGED <<vendor, item, toolCalls, block>>
    BY <1>17, Taken
  <2>2. CASE \E d \in Deltas : writing = <<d>> /\ view' = [view EXCEPT !.calls = Append(@, d)]
    <3>1. writing' = <<>>
      BY <1>17, <2>2, Taken
    <3> QED BY <2>1, <2>2, <3>1, CalledTaken
  <2>3. CASE ~\E d \in Deltas : writing = <<d>> /\ view' = [view EXCEPT !.calls = Append(@, d)]
    <3>1. ASSUME writing' = <<>>, (writing = <<Content(1)>> \/ writing = <<HostedEvent>>
                                  \/ writing = <<Done>>)
          PROVE  \A t \in Deltas : writing # <<t>> /\ writing' # <<t>>
      BY <1>t, <3>1
    <3>2. ASSUME writing = <<Finish(FinishReason), Done>>, writing' = <<Done>>
          PROVE  \A t \in Deltas : writing # <<t>> /\ writing' # <<t>>
      BY <1>t, <3>2
    <3>3. ASSUME writing = <<Content(text), Finish(FinishReason), Done>>,
                 writing' = <<Finish(FinishReason), Done>>
          PROVE  \A t \in Deltas : writing # <<t>> /\ writing' # <<t>>
      BY <1>t, <3>3
    <3>4. view \in Views
      BY <1>0 DEF Typed
    <3>5. view'.calls = view.calls
      BY <1>17, <2>3, <3>4, Taken DEF Views
    <3>6. \A t \in Deltas : writing # <<t>> /\ writing' # <<t>>
      BY <1>17, <2>3, <3>1, <3>2, <3>3, Taken
    <3> QED BY <2>1, <3>5, <3>6, CalledKept DEF Called, Streamed
  <2> QED BY <2>2, <2>3
<1>18. CASE EndSeen
  BY <1>18 DEF EndSeen
<1>19. CASE HangUp
  BY <1>19 DEF HangUp
<1>20. CASE Close
  BY <1>20 DEF Close
<1>21. CASE UNCHANGED vars
  BY <1>21 DEF vars
<1> QED
  BY <1>1, <1>2, <1>3, <1>4, <1>5, <1>6, <1>7, <1>8, <1>9, <1>10, <1>11, <1>12,
     <1>13, <1>14, <1>15, <1>16, <1>17, <1>18, <1>19, <1>20, <1>21
  DEF Next, Codex, Claude, Bridge, Reader

LEMMA StreamedNext == Streamed /\ [Next]_vars => Streamed'
  BY TypedStep, PipedStep, SpokeStep, PeekedStep, CalledStep DEF Streamed

LEMMA StreamedAlways == Spec => []Streamed
  BY StreamedInit, StreamedNext, PTL DEF Spec

\* "Stream clients match aggregate", save for a final text that differs from the
\* deltas: whatever the vendor sends, in whatever order, and however the reader
\* and the bridge interleave.
THEOREM StreamAlwaysAggregate == Spec => []StreamIsAggregate
<1>1. Streamed => StreamIsAggregate
  <2> SUFFICES ASSUME Streamed, answer = "whole" PROVE StreamIsAggregate
    BY DEF StreamIsAggregate
  <2>1. pipe = "eof" /\ writing = <<>> /\ bridge = "ended" /\ Len(writing) = 0
    BY Tuples DEF Streamed, Piped, Typed
  <2>2. /\ view.text = IF vendor = "codex" /\ said > 0 THEN said ELSE text
        /\ view.finish = FinishReason
    BY <2>1 DEF Streamed, Spoke, Typed, Vendors
  <2>3. \A i \in DOMAIN view.calls :
          /\ toolCalls[view.calls[i].index + 1] = Call(view.calls[i].id, view.calls[i].args)
          /\ view.calls[i].args = "full"
    BY DEF Streamed, Called, Told
  <2>4. ASSUME NEW i \in DOMAIN view.calls, NEW j \in DOMAIN view.calls,
               view.calls[j].index = view.calls[i].index
        PROVE  i = j
    <3>1. Call(view.calls[i].id, "full") = Call(view.calls[j].id, "full")
      BY <2>3, <2>4
    <3>2. view.calls[i].id = view.calls[j].id
      BY <3>1 DEF Call
    <3> QED BY <3>2 DEF Streamed, Called
  <2>5. \A c \in Calls : item[c] = "done" =>
          \E i \in DOMAIN view.calls : view.calls[i].id = c
    BY <2>1, Tuples DEF Streamed, Called
  <2> QED BY <2>2, <2>3, <2>4, <2>5 DEF StreamIsAggregate, Completion
<1> QED BY <1>1, StreamedAlways, PTL

\* A cut stream is never passed off as whole nor a whole one as cut, wherever
\* the reader was, and only a client that saw nothing is moved to another seat.
THEOREM CutAlwaysTold == Spec => []CutIsTold
<1>1. Streamed => CutIsTold
  BY DEF Streamed, Typed, Piped, Peeked, Ended, Cut, CutIsTold
<1> QED BY <1>1, StreamedAlways, PTL

-----------------------------------------------------------------------------
(***************************************************************************)
(* The request.                                                            *)
(***************************************************************************)
Wished == vendor \in Vendors /\ wish \in Wishes

LEMMA NoToolsWished == NoTools \in Wishes
  BY DEF NoTools, Wishes, ToolChoices, Tools

LEMMA WishedInit == Init => Wished
  BY NoToolsWished DEF Init, InitRequest, Wished

LEMMA WishedNext == Wished /\ [Next]_vars => Wished'
<1> SUFFICES ASSUME Wished, [Next]_vars PROVE Wished'
  OBVIOUS
<1>1. CASE NextRequest
  BY <1>1 DEF NextRequest, SystemMessage, CodexMessage, AnthropicMessage, Walk, Refuse,
    Send, Wished
<1>2. CASE Begin
  BY <1>2, NoToolsWished DEF Begin, Wished
<1>3. CASE UNCHANGED request
  BY <1>3 DEF request, Wished
<1>4. CASE Codex
  BY <1>3, <1>4 DEF Codex, CodexDelta, CodexCompleted, CodexFailed, CodexItemAdded,
    CodexItemDone
<1>5. CASE Claude
  BY <1>3, <1>5 DEF Claude, BlockDelta, BlockStop, MessageStop, ErrorEvent, BlockStart,
    SearchResult
<1>6. CASE Bridge \/ Reader
  BY <1>3, <1>6 DEF Bridge, Reader, StreamEnds, StreamBreaks, BridgeEnds, Take, EndSeen,
    HangUp, Close
<1>7. CASE UNCHANGED vars
  BY <1>3, <1>7 DEF vars, request
<1> QED BY <1>1, <1>2, <1>4, <1>5, <1>6, <1>7 DEF Next

\* The tool choice that goes upstream names a tool that does, but for a forced
\* search that is disabled: for every wish, of both vendors.
THEOREM ChoiceAlwaysOffered == Spec => []ChoiceIsOffered
<1>1. ASSUME Wished PROVE ChoiceIsOffered
  <2>1. /\ wish.choice \in ToolChoices /\ wish.tools \in SUBSET Tools
        /\ wish.search \in {"live", "disabled"}
        /\ wish.choice \in Tools => wish.choice \in wish.tools
    BY <1>1 DEF Wished, Wishes
  <2>2. CASE vendor = "codex"
    <3>1. SentTools = CodexTools(wish) /\ SentChoice = CodexChoice(wish, CodexTools(wish))
      BY <2>2 DEF SentTools, SentChoice
    <3> QED BY <2>1, <3>1 DEF ChoiceIsOffered, CodexTools, CodexChoice, Tools, ToolChoices
  <2>3. CASE vendor # "codex"
    <3>1. /\ SentTools = AnthropicTools(wish)
          /\ SentChoice = AnthropicChoice(wish, AnthropicTools(wish))
      BY <2>3 DEF SentTools, SentChoice
    <3> QED BY <2>1, <3>1 DEF ChoiceIsOffered, AnthropicTools, AnthropicChoice, Tools,
                              ToolChoices
  <2> QED BY <2>2, <2>3
<1> QED BY <1>1, WishedInit, WishedNext, PTL DEF Spec

\* The turns of a conversation with Claude, whatever they hold.
Alternating == vendor = "claude" => (\E S : turns \in Seq(S)) /\ TurnsAlternate

\* What one side says is added to its last turn or becomes a new one.
LEMMA AppendAlternates ==
  ASSUME NEW S, NEW ts \in Seq(S), NEW role, NEW blocks,
         \A i \in 1..(Len(ts) - 1) : ts[i].role # ts[i + 1].role
  PROVE  LET more == AppendMessage(ts, role, blocks)
         IN  /\ \E R : more \in Seq(R)
             /\ \A i \in 1..(Len(more) - 1) : more[i].role # more[i + 1].role
<1> DEFINE more == AppendMessage(ts, role, blocks)
<1>1. CASE blocks = <<>>
  BY <1>1 DEF AppendMessage
<1>2. ASSUME NEW R, NEW kept \in Seq(R), NEW turn \in R, more = Append(kept, turn),
             \A i \in 1..(Len(kept) - 1) : kept[i].role # kept[i + 1].role,
             kept # <<>> => kept[Len(kept)].role # turn.role
      PROVE  /\ \E Q : more \in Seq(Q)
             /\ \A i \in 1..(Len(more) - 1) : more[i].role # more[i + 1].role
  <2> HIDE DEF more
  <2>1. /\ more \in Seq(R) /\ Len(kept) \in Nat /\ Len(more) = Len(kept) + 1
        /\ more[Len(kept) + 1] = turn
        /\ \A i \in 1..Len(kept) : more[i] = kept[i]
        /\ kept = <<>> <=> Len(kept) = 0
    BY <1>2, AppendProperties, LenProperties, EmptySeq
  <2>2. ASSUME NEW i \in 1..Len(kept) PROVE more[i].role # more[i + 1].role
    <3>1. CASE i < Len(kept)
      BY <1>2, <2>1, <3>1
    <3>2. CASE i = Len(kept)
      BY <1>2, <2>1, <3>2
    <3> QED BY <2>1, <3>1, <3>2
  <2> QED BY <2>1, <2>2
<1>3. CASE blocks # <<>> /\ ts # <<>> /\ Last(ts).role = role
  <2> DEFINE turn == Turn(role, Last(ts).blocks \o blocks)
             R == S \cup {turn}
  <2>1. more = Append(Front(ts), turn)
    BY <1>3 DEF AppendMessage
  <2>2. /\ Len(ts) \in Nat \ {0} /\ Last(ts) = ts[Len(ts)]
        /\ \A i \in 1..Len(ts) : ts[i] \in S
    BY <1>3, EmptySeq, ElementOfSeq DEF Last
  <2>3. /\ Front(ts) \in Seq(S) /\ Len(Front(ts)) = Len(ts) - 1
        /\ \A i \in 1..(Len(ts) - 1) : Front(ts)[i] = ts[i]
    <3> DEFINE n == Len(ts) - 1
    <3>1. n \in Nat /\ \A i \in 1..n : ts[i] \in S
      BY <2>2
    <3> HIDE DEF n
    <3>2. /\ SubSeq(ts, 1, n) \in Seq(S)
          /\ Len(SubSeq(ts, 1, n)) = IF 1 <= n THEN n - 1 + 1 ELSE 0
          /\ \A i \in 1..(n - 1 + 1) : SubSeq(ts, 1, n)[i] = ts[1 + i - 1]
      BY <3>1, SubSeqProperties
    <3>3. Len(SubSeq(ts, 1, n)) = n
      BY <3>1, <3>2
    <3>4. \A i \in 1..n : SubSeq(ts, 1, n)[i] = ts[i]
      BY <3>1, <3>2
    <3> QED BY <3>2, <3>3, <3>4 DEF n, Front
  <2>4. Front(ts) \in Seq(R) /\ turn \in R /\ turn.role = role
    BY <2>3, SeqMonotonic DEF Turn
  <2> HIDE DEF turn, R, more
  <2>5. \A i \in 1..(Len(Front(ts)) - 1) : Front(ts)[i].role # Front(ts)[i + 1].role
    BY <2>2, <2>3
  <2>6. Front(ts) # <<>> => Front(ts)[Len(Front(ts))].role # turn.role
    <3> SUFFICES ASSUME Front(ts) # <<>>
                 PROVE  Front(ts)[Len(Front(ts))].role # turn.role
      OBVIOUS
    <3>1. Len(ts) - 1 \in 1..(Len(ts) - 1)
      BY <2>2, <2>3, EmptySeq
    <3>2. ts[Len(ts) - 1].role # ts[Len(ts)].role
      BY <2>2, <3>1
    <3> QED BY <1>3, <2>2, <2>3, <2>4, <3>1, <3>2
  <2> QED BY <1>2, <2>1, <2>4, <2>5, <2>6 DEF more
<1>4. CASE blocks # <<>> /\ ~(ts # <<>> /\ Last(ts).role = role)
  <2> DEFINE turn == Turn(role, blocks)
             R == S \cup {turn}
  <2>1. more = Append(ts, turn)
    BY <1>4 DEF AppendMessage
  <2>2. ts \in Seq(R) /\ turn \in R /\ turn.role = role
    BY SeqMonotonic DEF Turn
  <2> HIDE DEF turn, R, more
  <2>3. ts # <<>> => ts[Len(ts)].role # turn.role
    BY <1>4, <2>2 DEF Last
  <2> QED BY <1>2, <2>1, <2>2, <2>3 DEF more
<1> QED BY <1>1, <1>3, <1>4

LEMMA AlternatingInit == Init => Alternating
<1>1. <<>> \in Seq({}) /\ Len(<<>>) = 0
  BY EmptySeq
<1> QED BY <1>1 DEF Init, InitRequest, Alternating, TurnsAlternate

LEMMA AlternatingNext == Alternating /\ [Next]_vars => Alternating'
<1> SUFFICES ASSUME Alternating, [Next]_vars PROVE Alternating'
  OBVIOUS
<1>1. CASE UNCHANGED <<vendor, turns>>
  BY <1>1 DEF Alternating, TurnsAlternate
<1>2. CASE AnthropicMessage
  <2>1. PICK role, blocks : turns' = AppendMessage(turns, role, blocks)
    BY <1>2 DEF AnthropicMessage
  <2>2. vendor = "claude" /\ UNCHANGED vendor
    BY <1>2 DEF AnthropicMessage, Walk
  <2>3. PICK S : turns \in Seq(S)
    BY <2>2 DEF Alternating
  <2>4. LET more == AppendMessage(turns, role, blocks)
        IN  /\ \E R : more \in Seq(R)
            /\ \A i \in 1..(Len(more) - 1) : more[i].role # more[i + 1].role
    BY <2>2, <2>3, AppendAlternates DEF Alternating, TurnsAlternate
  <2> QED BY <2>1, <2>2, <2>4 DEF Alternating, TurnsAlternate
<1>3. CASE Send
  <2>1. turns' = <<>> /\ <<>> \in Seq({}) /\ Len(<<>>) = 0
    BY <1>3, EmptySeq DEF Send
  <2> QED BY <2>1 DEF Alternating, TurnsAlternate
<1>4. CASE CodexMessage
  BY <1>4 DEF CodexMessage, Walk, Alternating
<1>5. CASE SystemMessage \/ Refuse
  BY <1>1, <1>5 DEF SystemMessage, Walk, Refuse
<1>6. CASE Begin
  BY <1>1, <1>6 DEF Begin
<1>7. CASE Codex
  BY <1>1, <1>7 DEF Codex, CodexDelta, CodexCompleted, CodexFailed, CodexItemAdded,
    CodexItemDone, request
<1>8. CASE Claude
  BY <1>1, <1>8 DEF Claude, BlockDelta, BlockStop, MessageStop, ErrorEvent, BlockStart,
    SearchResult, request
<1>9. CASE Bridge \/ Reader
  BY <1>1, <1>9 DEF Bridge, Reader, StreamEnds, StreamBreaks, BridgeEnds, Take, EndSeen,
    HangUp, Close, request
<1>10. CASE UNCHANGED vars
  BY <1>1, <1>10 DEF vars
<1> QED BY <1>2, <1>3, <1>4, <1>5, <1>6, <1>7, <1>8, <1>9, <1>10 DEF Next, NextRequest

\* Claude refuses two turns of one side in a row: it is never sent them,
\* whatever the client's messages.
THEOREM TurnsAlwaysAlternate == Spec => []TurnsAlternate
<1>1. Alternating => TurnsAlternate
  BY DEF Alternating, TurnsAlternate
<1> QED BY <1>1, AlternatingInit, AlternatingNext, PTL DEF Spec

-----------------------------------------------------------------------------
(***************************************************************************)
(* The lists of a conversation.  Only and FlattenSeq are recursive         *)
(* functions; what they make of a list that grows by one element follows   *)
(* by taking the least position where two such functions would differ.     *)
(***************************************************************************)

\* A set of naturals has a least one: what the inductions below rest on.
LEMMA Least ==
  ASSUME NEW T \in SUBSET Nat, T # {}
  PROVE  \E n \in T : \A m \in T : n <= m
<1>1. IsWellFoundedOn(OpToRel(<, Nat), Nat)
  BY NatLessThanWellFounded
<1>2. PICK n \in T : \A m \in T : <<m, n>> \notin OpToRel(<, Nat)
  BY <1>1, WFMin
<1>3. \A m \in T : ~(m < n)
  BY <1>2 DEF OpToRel
<1>4. \A m \in T : m \in Nat
  OBVIOUS
<1> QED BY <1>3, <1>4

\* The list the loop of Only builds, element by element.
Loop(s, S, n, f) ==
  f = [i \in 0..n |-> IF i = 0 THEN <<>>
                      ELSE IF s[i] \in S THEN Append(f[i - 1], s[i]) ELSE f[i - 1]]

LEMMA LoopExists ==
  ASSUME NEW s, NEW S, NEW len \in Nat
  PROVE  \E f : Loop(s, S, len, f)
<1> DEFINE T == {n \in Nat : ~\E f : Loop(s, S, n, f)}
<1>1. SUFFICES ASSUME T # {} PROVE FALSE
  OBVIOUS
<1>2. PICK n \in T : \A m \in T : n <= m
  <2>1. T \in SUBSET Nat
    OBVIOUS
  <2> HIDE DEF T
  <2> QED BY <1>1, <2>1, Least
<1>3. CASE n = 0
  <2> DEFINE f == [i \in 0..0 |-> <<>>]
  <2>1. Loop(s, S, 0, f)
    BY DEF Loop
  <2> QED BY <1>2, <1>3, <2>1
<1>4. CASE n # 0
  <2>1. n \in Nat /\ n - 1 \in Nat /\ n - 1 \notin T
    BY <1>2, <1>4
  <2>2. PICK g : Loop(s, S, n - 1, g)
    BY <2>1
  <2> DEFINE f == [i \in 0..n |->
                     IF i < n THEN g[i]
                     ELSE IF s[n] \in S THEN Append(g[n - 1], s[n]) ELSE g[n - 1]]
  <2>3. \A i \in 0..(n - 1) :
          g[i] = IF i = 0 THEN <<>>
                 ELSE IF s[i] \in S THEN Append(g[i - 1], s[i]) ELSE g[i - 1]
    BY <2>2 DEF Loop
  <2>4. \A i \in 0..n :
          f[i] = IF i = 0 THEN <<>>
                 ELSE IF s[i] \in S THEN Append(f[i - 1], s[i]) ELSE f[i - 1]
    <3> TAKE i \in 0..n
    <3>1. CASE i < n
      <4>1. f[i] = g[i] /\ (i > 0 => f[i - 1] = g[i - 1])
        BY <2>1, <3>1
      <4> QED BY <2>1, <2>3, <3>1, <4>1
    <3>2. CASE i = n
      <4>1. f[n - 1] = g[n - 1]
        BY <2>1
      <4> QED BY <1>4, <2>1, <3>2, <4>1
    <3> QED BY <2>1, <3>1, <3>2
  <2>5. Loop(s, S, n, f)
    BY <2>4 DEF Loop
  <2> QED BY <1>2, <2>5
<1> QED BY <1>3, <1>4


LEMMA LoopPrefix ==
  ASSUME NEW s, NEW t, NEW S, NEW n \in Nat, NEW k \in Nat, NEW f, NEW g, n <= k,
         Loop(s, S, n, f), Loop(t, S, k, g), \A i \in 1..n : s[i] = t[i]
  PROVE  f[n] = g[n]
<1> DEFINE T == {i \in 0..n : f[i] # g[i]}
<1>1. SUFFICES ASSUME T # {} PROVE FALSE
  OBVIOUS
<1>2. PICK i \in T : \A j \in T : i <= j
  <2>1. T \in SUBSET Nat
    OBVIOUS
  <2> HIDE DEF T
  <2> QED BY <1>1, <2>1, Least
<1>3. /\ \A j \in 0..n :
           f[j] = IF j = 0 THEN <<>>
                  ELSE IF s[j] \in S THEN Append(f[j - 1], s[j]) ELSE f[j - 1]
      /\ \A j \in 0..k :
           g[j] = IF j = 0 THEN <<>>
                  ELSE IF t[j] \in S THEN Append(g[j - 1], t[j]) ELSE g[j - 1]
  BY DEF Loop
<1>4. CASE i = 0
  <2>1. 0 \in 0..n /\ 0 \in 0..k
    OBVIOUS
  <2>2. f[0] = <<>> /\ g[0] = <<>>
    BY <1>3, <2>1
  <2> QED BY <1>2, <1>4, <2>2
<1>5. CASE i # 0
  <2>1. i \in 1..n /\ i \in 0..n /\ i \in 0..k /\ i - 1 \in 0..n /\ i - 1 \notin T
    BY <1>2, <1>5
  <2>2. f[i - 1] = g[i - 1] /\ s[i] = t[i] /\ f[i] # g[i]
    BY <1>2, <2>1
  <2>3. /\ f[i] = IF s[i] \in S THEN Append(f[i - 1], s[i]) ELSE f[i - 1]
        /\ g[i] = IF t[i] \in S THEN Append(g[i - 1], t[i]) ELSE g[i - 1]
    BY <1>3, <1>5, <2>1
  <2> QED BY <2>2, <2>3
<1> QED BY <1>4, <1>5

LEMMA OnlyEmpty ==
  ASSUME NEW S
  PROVE  Only(<<>>, S) = <<>>
<1> DEFINE h == CHOOSE u : Loop(<<>>, S, 0, u)
<1>1. Loop(<<>>, S, 0, h)
  <2>1. \E u : Loop(<<>>, S, 0, u)
    BY LoopExists
  <2> QED BY <2>1
<1>2. Only(<<>>, S) = h[0]
  <2>1. Len(<<>>) = 0
    OBVIOUS
  <2> QED BY <2>1 DEF Only, Loop
<1> QED BY <1>1, <1>2 DEF Loop

\* What Only makes of a list, element by element.
LEMMA OnlyAppend ==
  ASSUME NEW X, NEW s \in Seq(X), NEW x \in X, NEW S
  PROVE  Only(Append(s, x), S) = IF x \in S THEN Append(Only(s, S), x) ELSE Only(s, S)
<1> DEFINE t == Append(s, x)
           n == Len(s)
           f == CHOOSE h : Loop(s, S, n, h)
           g == CHOOSE h : Loop(t, S, n + 1, h)
<1>1. /\ n \in Nat /\ Len(t) = n + 1 /\ t[n + 1] = x
      /\ \A i \in 1..n : s[i] = t[i]
  BY LenProperties, AppendProperties
<1> HIDE DEF n
<1>2. Loop(s, S, n, f) /\ Loop(t, S, n + 1, g)
  <2>1. n + 1 \in Nat
    BY <1>1
  <2> QED BY <1>1, <2>1, LoopExists
<1>3. Only(s, S) = f[n] /\ Only(t, S) = g[n + 1]
  <2>1. Only(s, S) = f[n]
    BY DEF Only, Loop, n
  <2>2. Only(t, S) = (CHOOSE h : Loop(t, S, Len(t), h))[Len(t)]
    BY DEF Only, Loop
  <2> HIDE DEF t, f
  <2>3. Only(t, S) = g[n + 1]
    BY <1>1, <2>2
  <2> QED BY <2>1, <2>3
<1> HIDE DEF f, g, t
<1>4. f[n] = g[n]
  <2>1. n + 1 \in Nat /\ n <= n + 1
    BY <1>1
  <2> QED BY <1>1, <1>2, <2>1, LoopPrefix
<1>5. g[n + 1] = IF x \in S THEN Append(g[n], x) ELSE g[n]
  <2>1. \A j \in 0..(n + 1) :
           g[j] = IF j = 0 THEN <<>>
                  ELSE IF t[j] \in S THEN Append(g[j - 1], t[j]) ELSE g[j - 1]
    BY <1>2 DEF Loop
  <2>2. n + 1 \in 0..(n + 1) /\ n + 1 # 0 /\ (n + 1) - 1 = n
    BY <1>1
  <2> QED BY <1>1, <2>1, <2>2
<1> QED BY <1>3, <1>4, <1>5 DEF t

\* The list FlattenSeq builds, one list after the other.
Joining(ss, n, f) ==
  f = [i \in 1..n |-> IF i = 1 THEN ss[i] ELSE f[i - 1] \o ss[i]]

LEMMA JoiningExists ==
  ASSUME NEW ss, NEW len \in Nat
  PROVE  \E f : Joining(ss, len, f)
<1> DEFINE T == {n \in Nat : ~\E f : Joining(ss, n, f)}
<1>1. SUFFICES ASSUME T # {} PROVE FALSE
  OBVIOUS
<1>2. PICK n \in T : \A m \in T : n <= m
  <2>1. T \in SUBSET Nat
    OBVIOUS
  <2> HIDE DEF T
  <2> QED BY <1>1, <2>1, Least
<1>3. CASE n = 0
  <2> DEFINE f == [i \in 1..0 |-> ss[1]]
  <2>1. Joining(ss, 0, f)
    BY DEF Joining
  <2> QED BY <1>2, <1>3, <2>1
<1>4. CASE n # 0
  <2>1. n \in Nat /\ n - 1 \in Nat /\ n - 1 \notin T
    BY <1>2, <1>4
  <2>2. PICK g : Joining(ss, n - 1, g)
    BY <2>1
  <2> DEFINE f == [i \in 1..n |-> IF i < n THEN g[i]
                                  ELSE IF n = 1 THEN ss[n] ELSE g[n - 1] \o ss[n]]
  <2>3. \A i \in 1..(n - 1) : g[i] = IF i = 1 THEN ss[i] ELSE g[i - 1] \o ss[i]
    BY <2>2 DEF Joining
  <2>4. \A i \in 1..n : f[i] = IF i = 1 THEN ss[i] ELSE f[i - 1] \o ss[i]
    <3> TAKE i \in 1..n
    <3>1. CASE i < n
      <4>1. i \in 1..(n - 1) /\ f[i] = g[i] /\ (i # 1 => f[i - 1] = g[i - 1])
        BY <2>1, <3>1
      <4> HIDE DEF f
      <4> QED BY <2>3, <4>1
    <3>2. CASE i = n
      <4>1. n # 1 => n - 1 \in 1..n /\ f[n - 1] = g[n - 1]
        BY <1>4, <2>1
      <4>2. f[n] = IF n = 1 THEN ss[n] ELSE g[n - 1] \o ss[n]
        BY <2>1, <3>2
      <4> HIDE DEF f
      <4> QED BY <3>2, <4>1, <4>2
    <3> QED BY <2>1, <3>1, <3>2
  <2>5. Joining(ss, n, f)
    BY <2>4 DEF Joining
  <2> QED BY <1>2, <2>5
<1> QED BY <1>3, <1>4

LEMMA JoiningPrefix ==
  ASSUME NEW s, NEW t, NEW n \in Nat \ {0}, NEW k \in Nat, NEW f, NEW g, n <= k,
         Joining(s, n, f), Joining(t, k, g), \A i \in 1..n : s[i] = t[i]
  PROVE  f[n] = g[n]
<1> DEFINE T == {i \in 1..n : f[i] # g[i]}
<1>1. SUFFICES ASSUME T # {} PROVE FALSE
  OBVIOUS
<1>2. PICK i \in T : \A j \in T : i <= j
  <2>1. T \in SUBSET Nat
    OBVIOUS
  <2> HIDE DEF T
  <2> QED BY <1>1, <2>1, Least
<1>3. /\ \A j \in 1..n : f[j] = IF j = 1 THEN s[j] ELSE f[j - 1] \o s[j]
      /\ \A j \in 1..k : g[j] = IF j = 1 THEN t[j] ELSE g[j - 1] \o t[j]
  BY DEF Joining
<1>4. i \in 1..n /\ i \in 1..k /\ f[i] # g[i] /\ s[i] = t[i]
  BY <1>2
<1>5. i # 1
  BY <1>3, <1>4
<1>6. i - 1 \in 1..n /\ i - 1 \notin T
  BY <1>2, <1>4, <1>5
<1>7. f[i - 1] = g[i - 1]
  BY <1>6
<1> HIDE DEF T
<1> QED BY <1>3, <1>4, <1>5, <1>7

\* What FlattenSeq makes of a list of lists that grows at its end.
LEMMA FlattenAppend ==
  ASSUME NEW X, NEW ss \in Seq(Seq(X)), NEW x \in Seq(X), FlattenSeq(ss) \in Seq(X)
  PROVE  /\ FlattenSeq(Append(ss, x)) = FlattenSeq(ss) \o x
         /\ FlattenSeq(Append(ss, x)) \in Seq(X)
<1> DEFINE t == Append(ss, x)
           n == Len(ss)
           f == CHOOSE h : Joining(ss, n, h)
           g == CHOOSE h : Joining(t, n + 1, h)
<1>1. /\ n \in Nat /\ Len(t) = n + 1 /\ t[n + 1] = x
      /\ \A i \in 1..n : ss[i] = t[i]
  BY LenProperties, AppendProperties
<1>2. Joining(ss, n, f) /\ Joining(t, n + 1, g)
  <2> HIDE DEF n
  <2>1. n + 1 \in Nat
    BY <1>1
  <2> QED BY <1>1, <2>1, JoiningExists
<1>3. FlattenSeq(t) = g[n + 1]
  <2>1. FlattenSeq(t) = IF Len(t) = 0 THEN t
                        ELSE (CHOOSE h : Joining(t, Len(t), h))[Len(t)]
    BY DEF FlattenSeq, Joining
  <2> HIDE DEF t, n
  <2> QED BY <1>1, <2>1
<1>4. \A j \in 1..(n + 1) : g[j] = IF j = 1 THEN t[j] ELSE g[j - 1] \o t[j]
  BY <1>2 DEF Joining
<1>5. CASE n = 0
  <2>1. ss = <<>> /\ FlattenSeq(ss) = <<>>
    <3>1. ss = <<>>
      BY <1>5, EmptySeq
    <3> QED BY <3>1, <1>5 DEF FlattenSeq
  <2> HIDE DEF g, t, n
  <2>2. g[n + 1] = x
    BY <1>1, <1>4, <1>5
  <2>3. <<>> \o x = x
    BY ConcatEmptySeq
  <2> QED BY <1>3, <2>1, <2>2, <2>3 DEF t
<1>6. CASE n # 0
  <2>1. FlattenSeq(ss) = f[n]
    BY <1>6 DEF FlattenSeq, Joining
  <2> HIDE DEF f, g, t, n
  <2>2. f[n] = g[n]
    <3>1. n \in Nat \ {0} /\ n + 1 \in Nat /\ n <= n + 1
      BY <1>1, <1>6
    <3> QED BY <1>1, <1>2, <3>1, JoiningPrefix
  <2>3. g[n + 1] = g[n] \o x
    <3>1. n + 1 \in 1..(n + 1) /\ n + 1 # 1 /\ (n + 1) - 1 = n
      BY <1>1, <1>6
    <3>2. g[n + 1] = g[(n + 1) - 1] \o t[n + 1]
      BY <1>4, <3>1
    <3> QED BY <1>1, <3>1, <3>2
  <2>4. FlattenSeq(ss) \o x \in Seq(X)
    BY ConcatProperties
  <2> QED BY <1>3, <2>1, <2>2, <2>3, <2>4 DEF t
<1> QED BY <1>5, <1>6

LEMMA FlattenType ==
  ASSUME NEW X, NEW ss \in Seq(Seq(X))
  PROVE  FlattenSeq(ss) \in Seq(X)
<1> DEFINE T == {n \in Nat : \E s \in Seq(Seq(X)) : Len(s) = n /\ FlattenSeq(s) \notin Seq(X)}
<1>1. SUFFICES ASSUME FlattenSeq(ss) \notin Seq(X) PROVE FALSE
  OBVIOUS
<1>2. PICK n \in T : \A m \in T : n <= m
  <2>1. T \in SUBSET Nat
    OBVIOUS
  <2>2. Len(ss) \in T
    BY <1>1, LenProperties
  <2> HIDE DEF T
  <2> QED BY <2>1, <2>2, Least
<1>3. PICK s \in Seq(Seq(X)) : Len(s) = n /\ FlattenSeq(s) \notin Seq(X)
  BY <1>2
<1>4. s # <<>>
  <2>1. FlattenSeq(<<>>) = <<>>
    BY DEF FlattenSeq
  <2> QED BY <1>3, <2>1, EmptySeq
<1>5. PICK front \in Seq(Seq(X)), x \in Seq(X) : s = Append(front, x)
  BY <1>4, SequenceEmptyOrAppend
<1>6. Len(front) \in Nat /\ Len(front) = n - 1 /\ n \in Nat
  BY <1>2, <1>3, <1>5, LenProperties, AppendProperties
<1>7. Len(front) \notin T
  BY <1>2, <1>6
<1>8. FlattenSeq(front) \in Seq(X)
  BY <1>6, <1>7
<1> QED BY <1>3, <1>5, <1>8, FlattenAppend

-----------------------------------------------------------------------------
(***************************************************************************)
(* The conversation: what the turns say, and what a protocol carries of    *)
(* the messages.                                                           *)
(***************************************************************************)

AllBlocks == Blocks({"text", "image", "call", "answer"})

Sides == {"user", "assistant", "tool"}

Turned == [role : Sides, blocks : Seq(AllBlocks) \ {<<>>}]

\* What the turns say, and what the protocol carries of the messages.
Flat(ts) == FlattenSeq([i \in 1..Len(ts) |-> ts[i].blocks])

Talk == {m \in Messages : m.role # "system"}

CarriedOf(ms) == FlattenSeq([i \in 1..Len(ms) |-> Carried(ms[i])])

LEMMA Appended ==
  ASSUME NEW X, NEW s \in Seq(X), NEW x \in X
  PROVE  Append(s, x) = [i \in 1..(Len(s) + 1) |-> IF i = Len(s) + 1 THEN x ELSE s[i]]
<1> DEFINE n == Len(s)
           more == Append(s, x)
<1>1. n \in Nat /\ n + 1 \in Nat
  BY LenProperties
<1>2. /\ more \in Seq(X) /\ Len(more) = n + 1 /\ more[n + 1] = x
      /\ \A i \in 1..n : more[i] = s[i]
  BY AppendProperties
<1> HIDE DEF more, n
<1>3. more \in [1..(n + 1) -> X]
  BY <1>2, LenProperties
<1>4. \A i \in 1..(n + 1) : more[i] = IF i = n + 1 THEN x ELSE s[i]
  BY <1>1, <1>2
<1>5. more = [i \in 1..(n + 1) |-> IF i = n + 1 THEN x ELSE s[i]]
  BY <1>3, <1>4
<1> QED BY <1>5 DEF more, n

LEMMA FlatTurns ==
  ASSUME NEW ts \in Seq(Turned)
  PROVE  /\ Flat(ts) \in Seq(AllBlocks)
         /\ \A t \in Turned : /\ Append(ts, t) \in Seq(Turned)
                              /\ Flat(Append(ts, t)) = Flat(ts) \o t.blocks
<1> DEFINE ss == [i \in 1..Len(ts) |-> ts[i].blocks]
<1>1. ss \in Seq(Seq(AllBlocks)) /\ Len(ts) \in Nat /\ Len(ss) = Len(ts)
  <2>0. Len(ts) \in Nat /\ \A i \in 1..Len(ts) : ts[i] \in Turned
    BY LenProperties, ElementOfSeq
  <2>1. Len(ts) \in Nat /\ \A i \in 1..Len(ts) : ts[i].blocks \in Seq(AllBlocks)
    BY <2>0 DEF Turned
  <2>2. ss \in [1..Len(ts) -> Seq(AllBlocks)]
    BY <2>1
  <2> QED BY <2>1, <2>2
<1>2. FlattenSeq(ss) \in Seq(AllBlocks)
  <2> HIDE DEF ss
  <2> QED BY <1>1, FlattenType
<1>3. ASSUME NEW t \in Turned
      PROVE  /\ Append(ts, t) \in Seq(Turned)
             /\ Flat(Append(ts, t)) = Flat(ts) \o t.blocks
  <2> DEFINE more == Append(ts, t)
             tt == [i \in 1..Len(more) |-> more[i].blocks]
  <2>1. /\ more \in Seq(Turned) /\ Len(more) = Len(ts) + 1 /\ more[Len(ts) + 1] = t
        /\ \A i \in 1..Len(ts) : more[i] = ts[i]
    BY AppendProperties
  <2>2. t.blocks \in Seq(AllBlocks)
    BY DEF Turned
  <2> HIDE DEF more
  <2>3. tt = Append(ss, t.blocks)
    <3>1. Append(ss, t.blocks) = [i \in 1..(Len(ss) + 1) |-> IF i = Len(ss) + 1 THEN t.blocks ELSE ss[i]]
      <4> HIDE DEF ss
      <4> QED BY <1>1, <2>2, Appended
    <3>2. \A i \in 1..(Len(ts) + 1) : more[i].blocks = IF i = Len(ts) + 1 THEN t.blocks ELSE ss[i]
      BY <1>1, <2>1
    <3> HIDE DEF ss
    <3> QED BY <1>1, <2>1, <3>1, <3>2
  <2>4. FlattenSeq(Append(ss, t.blocks)) = FlattenSeq(ss) \o t.blocks
    <3> HIDE DEF ss
    <3> QED BY <1>1, <1>2, <2>2, FlattenAppend
  <2> QED BY <2>1, <2>3, <2>4 DEF Flat, more
<1> QED BY <1>2, <1>3 DEF Flat

LEMMA FlatCarried ==
  ASSUME NEW ms \in Seq(Talk), NEW m \in Talk,
         \A k \in Talk : Carried(k) \in Seq(AllBlocks)
  PROVE  CarriedOf(Append(ms, m)) = CarriedOf(ms) \o Carried(m)
<1> DEFINE ss == [i \in 1..Len(ms) |-> Carried(ms[i])]
<1>1. ss \in Seq(Seq(AllBlocks)) /\ Len(ms) \in Nat /\ Len(ss) = Len(ms)
  <2>1. Len(ms) \in Nat /\ \A i \in 1..Len(ms) : Carried(ms[i]) \in Seq(AllBlocks)
    BY LenProperties, ElementOfSeq
  <2>2. ss \in [1..Len(ms) -> Seq(AllBlocks)]
    BY <2>1
  <2> QED BY <2>1, <2>2
<1>2. FlattenSeq(ss) \in Seq(AllBlocks)
  <2> HIDE DEF ss
  <2> QED BY <1>1, FlattenType
<1> DEFINE more == Append(ms, m)
           tt == [i \in 1..Len(more) |-> Carried(more[i])]
<1>3. /\ Len(more) = Len(ms) + 1 /\ more[Len(ms) + 1] = m
      /\ \A i \in 1..Len(ms) : more[i] = ms[i]
  BY AppendProperties
<1> HIDE DEF more
<1>4. tt = Append(ss, Carried(m))
  <2>1. Append(ss, Carried(m)) =
          [i \in 1..(Len(ss) + 1) |-> IF i = Len(ss) + 1 THEN Carried(m) ELSE ss[i]]
    <3> DEFINE c == Carried(m)
    <3>1. c \in Seq(AllBlocks)
      OBVIOUS
    <3> HIDE DEF ss, c
    <3>2. Append(ss, c) = [i \in 1..(Len(ss) + 1) |-> IF i = Len(ss) + 1 THEN c ELSE ss[i]]
      BY <1>1, <3>1, Appended
    <3> QED BY <3>2 DEF c
  <2>2. \A i \in 1..(Len(ms) + 1) :
          Carried(more[i]) = IF i = Len(ms) + 1 THEN Carried(m) ELSE ss[i]
    BY <1>1, <1>3
  <2> HIDE DEF ss
  <2> QED BY <1>1, <1>3, <2>1, <2>2
<1>5. FlattenSeq(Append(ss, Carried(m))) = FlattenSeq(ss) \o Carried(m)
  <2> HIDE DEF ss
  <2> QED BY <1>1, <1>2, FlattenAppend
<1> QED BY <1>4, <1>5 DEF CarriedOf, more

\* What one side says more is all that the turns say more.
LEMMA MessageAppended ==
  ASSUME NEW ts \in Seq(Turned), NEW role \in Sides, NEW blocks \in Seq(AllBlocks)
  PROVE  /\ AppendMessage(ts, role, blocks) \in Seq(Turned)
         /\ Flat(AppendMessage(ts, role, blocks)) = Flat(ts) \o blocks
<1> DEFINE more == AppendMessage(ts, role, blocks)
<1>1. CASE blocks = <<>>
  <2>1. Flat(ts) \o <<>> = Flat(ts)
    BY FlatTurns, ConcatEmptySeq
  <2> QED BY <1>1, <2>1 DEF AppendMessage
<1>2. CASE blocks # <<>> /\ ~(ts # <<>> /\ Last(ts).role = role)
  <2>1. more = Append(ts, Turn(role, blocks))
    BY <1>2 DEF AppendMessage
  <2>2. Turn(role, blocks) \in Turned /\ Turn(role, blocks).blocks = blocks
    BY <1>2 DEF Turned, Turn
  <2> QED BY <2>1, <2>2, FlatTurns
<1>3. CASE blocks # <<>> /\ ts # <<>> /\ Last(ts).role = role
  <2>1. PICK front \in Seq(Turned), last \in Turned : ts = Append(front, last)
    BY <1>3, SequenceEmptyOrAppend
  <2>2. Last(ts) = last /\ Front(ts) = front
    <3>1. /\ Len(ts) = Len(front) + 1 /\ ts[Len(front) + 1] = last /\ Len(front) \in Nat
          /\ \A i \in 1..Len(front) : ts[i] = front[i]
      BY <2>1, AppendProperties, LenProperties
    <3> DEFINE n == Len(front)
               cut == SubSeq(ts, 1, n)
    <3>2. Front(ts) = cut
      <4>1. Len(ts) - 1 = n
        BY <3>1
      <4> QED BY <4>1 DEF Front
    <3>3. \A i \in 1..n : ts[i] \in Turned
      BY <3>1, ElementOfSeq
    <3>4. cut \in Seq(Turned) /\ Len(cut) = n /\ \A i \in 1..n : cut[i] = ts[i]
      <4> HIDE DEF n
      <4>0. n \in Nat
        BY <3>1 DEF n
      <4>1. /\ SubSeq(ts, 1, n) \in Seq(Turned)
            /\ Len(SubSeq(ts, 1, n)) = IF 1 <= n THEN n - 1 + 1 ELSE 0
            /\ \A i \in 1..(n - 1 + 1) : SubSeq(ts, 1, n)[i] = ts[1 + i - 1]
        BY <3>3, <4>0, SubSeqProperties
      <4>2. Len(cut) = n
        BY <4>0, <4>1
      <4>3. \A i \in 1..n : cut[i] = ts[i]
        BY <4>0, <4>1
      <4> QED BY <4>1, <4>2, <4>3
    <3> HIDE DEF cut
    <3>5. cut = front
      BY <3>1, <3>4, SeqEqual
    <3> QED BY <3>1, <3>2, <3>5 DEF Last
  <2>3. /\ last.blocks \in Seq(AllBlocks) /\ last.blocks # <<>> /\ Flat(front) \in Seq(AllBlocks)
        /\ Flat(ts) = Flat(front) \o last.blocks
    BY <2>1, FlatTurns DEF Turned
  <2> DEFINE both == last.blocks \o blocks
  <2>4. both \in Seq(AllBlocks) /\ both # <<>>
    BY <2>3, ConcatProperties, ConcatEqualIffEmpty
  <2>5. more = Append(front, Turn(role, both))
    BY <1>3, <2>2 DEF AppendMessage
  <2>6. Turn(role, both) \in Turned /\ Turn(role, both).blocks = both
    BY <2>4 DEF Turned, Turn
  <2> HIDE DEF both
  <2> DEFINE turn == Turn(role, both)
  <2>7. more \in Seq(Turned) /\ Flat(more) = Flat(front) \o both
    <3>1. more = Append(front, turn) /\ turn \in Turned /\ turn.blocks = both
      BY <2>5, <2>6
    <3> HIDE DEF more, turn
    <3> QED BY <3>1, FlatTurns
  <2>8. (Flat(front) \o last.blocks) \o blocks = Flat(front) \o (last.blocks \o blocks)
    <3> DEFINE kept == Flat(front)
               late == last.blocks
    <3>1. kept \in Seq(AllBlocks) /\ late \in Seq(AllBlocks)
      BY <2>3
    <3> HIDE DEF kept, late
    <3>2. (kept \o late) \o blocks = kept \o (late \o blocks)
      BY <3>1, ConcatAssociative
    <3> QED BY <3>2 DEF kept, late
  <2> QED BY <2>3, <2>7, <2>8 DEF both
<1> QED BY <1>1, <1>2, <1>3

\* Only of the short lists a message is made of.
LEMMA OnlyOne ==
  ASSUME NEW a, NEW S
  PROVE  Only(<<a>>, S) = (IF a \in S THEN <<a>> ELSE <<>>)
<1>1. Only(Append(<<>>, a), S) = (IF a \in S THEN Append(Only(<<>>, S), a) ELSE Only(<<>>, S))
  <2>1. <<>> \in Seq({a}) /\ a \in {a}
    OBVIOUS
  <2> QED BY <2>1, OnlyAppend
<1>2. <<a>> = Append(<<>>, a)
  OBVIOUS
<1> QED BY <1>1, <1>2, OnlyEmpty

LEMMA OnlyTwo ==
  ASSUME NEW a, NEW b, NEW S
  PROVE  Only(<<a, b>>, S) = (IF b \in S THEN Append(Only(<<a>>, S), b) ELSE Only(<<a>>, S))
<1>1. Only(Append(<<a>>, b), S) = (IF b \in S THEN Append(Only(<<a>>, S), b) ELSE Only(<<a>>, S))
  <2>1. <<a>> \in Seq({a, b}) /\ b \in {a, b}
    OBVIOUS
  <2> QED BY <2>1, OnlyAppend
<1>2. <<a, b>> = Append(<<a>>, b)
  OBVIOUS
<1> QED BY <1>1, <1>2

LEMMA Pairs ==
  ASSUME NEW a, NEW b
  PROVE  /\ Append(<<a>>, b) = <<a, b>> /\ <<a>> \o <<b>> = <<a, b>>
         /\ <<a>> \o <<>> = <<a>> /\ <<>> \o <<a>> = <<a>> /\ <<>> \o <<>> = <<>>
<1>1. <<>> \in Seq({a, b}) /\ <<a>> \in Seq({a, b}) /\ b \in {a, b}
  OBVIOUS
<1>2. <<a, b>> = Append(<<a>>, b)
  OBVIOUS
<1>3. <<a>> \o <<b>> = <<a, b>>
  BY <1>1, <1>2, AppendIsConcat
<1>4. <<a>> \o <<>> = <<a>> /\ <<>> \o <<a>> = <<a>> /\ <<>> \o <<>> = <<>>
  BY <1>1, ConcatEmptySeq
<1> QED BY <1>2, <1>3, <1>4

LEMMA Mapped ==
  /\ \A f : f = [i \in 1..0 |-> f[i]] => f = <<>>
  /\ \A f : f = [i \in 1..1 |-> f[i]] => f = <<f[1]>>
  /\ \A f : f = [i \in 1..2 |-> f[i]] => f = <<f[1], f[2]>>
<1>1. ASSUME NEW f, f = [i \in 1..0 |-> f[i]] PROVE f = <<>>
  <2>1. f \in [1..0 -> {}]
    BY <1>1
  <2>2. f \in Seq({})
    BY <2>1
  <2> QED BY <1>1, <2>2, EmptySeq
<1>2. ASSUME NEW f, f = [i \in 1..1 |-> f[i]] PROVE f = <<f[1]>>
  BY <1>2
<1>3. ASSUME NEW f, f = [i \in 1..2 |-> f[i]] PROVE f = <<f[1], f[2]>>
  BY <1>3
<1> QED BY <1>1, <1>2, <1>3

LEMMA TwoAdded ==
  ASSUME NEW S, NEW s \in Seq(S), NEW a \in S, NEW b \in S
  PROVE  s \o <<a, b>> = Append(Append(s, a), b)
<1>0. <<a>> \in Seq(S) /\ <<b>> \in Seq(S)
  OBVIOUS
<1>1. <<a, b>> = <<a>> \o <<b>>
  BY Pairs
<1>2. s \o (<<a>> \o <<b>>) = (s \o <<a>>) \o <<b>>
  BY <1>0, ConcatAssociative
<1>3. s \o <<a>> \in Seq(S)
  BY <1>0, ConcatProperties
<1>4. (s \o <<a>>) \o <<b>> = Append(s \o <<a>>, b)
  BY <1>3, AppendIsConcat
<1>5. s \o <<a>> = Append(s, a)
  BY AppendIsConcat
<1> QED BY <1>1, <1>2, <1>4, <1>5

\* A list that two more members were added to.
LEMMA OnlyAfter ==
  ASSUME NEW S, NEW s \in Seq(AllBlocks), Only(s, S) \in Seq(AllBlocks),
         NEW a \in AllBlocks, NEW b \in AllBlocks, NEW t \in {<<>>, <<a>>, <<a, b>>}
  PROVE  Only(s \o t, S) = Only(s, S) \o Only(t, S)
<1> DEFINE kept == Only(s, S)
<1>0. <<>> \in Seq(AllBlocks) /\ <<a>> \in Seq(AllBlocks) /\ <<b>> \in Seq(AllBlocks) /\ kept \in Seq(AllBlocks)
  OBVIOUS
<1> HIDE DEF kept
<1>1. s \o <<>> = s /\ kept \o <<>> = kept
  BY <1>0, ConcatEmptySeq
<1>2. Only(Append(s, a), S) = IF a \in S THEN Append(kept, a) ELSE kept
  BY OnlyAppend DEF kept
<1>3. s \o <<a>> = Append(s, a) /\ kept \o <<a>> = Append(kept, a)
  BY <1>0, AppendIsConcat
<1>4. Only(s \o <<a>>, S) = kept \o Only(<<a>>, S)
  BY <1>1, <1>2, <1>3, OnlyOne
<1>5. s \o <<a>> \in Seq(AllBlocks) /\ kept \o <<a>> \in Seq(AllBlocks)
  BY <1>0, ConcatProperties
<1>6. s \o <<a, b>> = Append(s \o <<a>>, b)
  BY <1>3, TwoAdded
<1> DEFINE more == s \o <<a>>
           ofA == Only(<<a>>, S)
<1>7. Only(Append(more, b), S) = IF b \in S THEN Append(Only(more, S), b) ELSE Only(more, S)
  <2>1. more \in Seq(AllBlocks)
    BY <1>5
  <2> HIDE DEF more
  <2> QED BY <2>1, OnlyAppend
<1>8. Only(<<a, b>>, S) = IF b \in S THEN Append(ofA, b) ELSE ofA
  BY OnlyTwo
<1>9. ofA \in Seq(AllBlocks)
  BY <1>0, OnlyOne
<1> HIDE DEF more, ofA
<1>10. Append(kept \o ofA, b) = kept \o Append(ofA, b)
  <2>1. kept \o ofA \in Seq(AllBlocks)
    BY <1>0, <1>9, ConcatProperties
  <2>2. Append(kept \o ofA, b) = (kept \o ofA) \o <<b>> /\ Append(ofA, b) = ofA \o <<b>>
    BY <1>9, <2>1, AppendIsConcat
  <2>3. (kept \o ofA) \o <<b>> = kept \o (ofA \o <<b>>)
    BY <1>0, <1>9, ConcatAssociative
  <2> QED BY <2>2, <2>3
<1>11. Only(s \o <<a, b>>, S) = kept \o Only(<<a, b>>, S)
  <2>1. Only(more, S) = kept \o ofA
    BY <1>4 DEF more, ofA
  <2> QED BY <1>6, <1>7, <1>8, <1>10, <2>1 DEF more
<1> QED BY <1>1, <1>4, <1>11, OnlyEmpty DEF kept

\* A message of the client's: what it is made of.
LEMMA MessageIs ==
  ASSUME NEW m \in Messages
  PROVE  /\ m.role \in {"system", "user", "tool", "assistant"}
         /\ m.parts \in Contents /\ m.id \in AnyId
         /\ \/ m.calls = <<>>
            \/ \E i \in AnyId : m.calls = <<i>>
            \/ \E i, j \in AnyId : m.calls = <<i, j>>
         /\ m.role = "system" => m.parts \in {<<>>, <<"text">>}
         /\ m.role # "assistant" => m.calls = <<>>
<1>1. \A role, c, calls, id :
        /\ Message(role, c, calls, id).role = role /\ Message(role, c, calls, id).parts = c
        /\ Message(role, c, calls, id).calls = calls /\ Message(role, c, calls, id).id = id
  BY DEF Message
<1>2. NoId \in AnyId /\ <<>> \in Contents /\ <<"text">> \in Contents
  BY DEF AnyId, Contents
<1>3. \A calls \in CallLists :
        \/ calls = <<>>
        \/ \E i \in AnyId : calls = <<i>>
        \/ \E i, j \in AnyId : calls = <<i, j>>
  BY DEF CallLists
<1>4. CASE \E c \in {<<>>, <<"text">>} : m = Message("system", c, <<>>, NoId)
  BY <1>1, <1>2, <1>4
<1>5. CASE \E c \in Contents : m = Message("user", c, <<>>, NoId)
  BY <1>1, <1>2, <1>5
<1>6. CASE \E i \in AnyId : m = Message("tool", <<"text">>, <<>>, i)
  BY <1>1, <1>2, <1>6
<1>7. CASE \E c \in Contents, calls \in CallLists : m = Message("assistant", c, calls, NoId)
  BY <1>1, <1>2, <1>3, <1>7
<1> QED BY <1>4, <1>5, <1>6, <1>7 DEF Messages

Text == Block("text", NoId)
Image == Block("image", NoId)

\* The client's parts, rearranged.
LEMMA OrderedIs ==
  /\ Ordered(<<>>) = <<>>
  /\ Ordered(<<"text">>) = <<"text">> /\ Ordered(<<"image">>) = <<"image">>
  /\ Ordered(<<"text", "image">>) = <<"text", "image">>
  /\ Ordered(<<"image", "text">>) = <<"text", "image">>
<1>1. /\ Only(<<>>, {"text"}) = <<>> /\ Only(<<>>, {"image"}) = <<>>
  BY OnlyEmpty
<1>2. /\ Only(<<"text">>, {"text"}) = <<"text">> /\ Only(<<"text">>, {"image"}) = <<>>
      /\ Only(<<"image">>, {"image"}) = <<"image">> /\ Only(<<"image">>, {"text"}) = <<>>
  BY OnlyOne
<1>3. /\ <<"text">> \o <<"image">> = <<"text", "image">>
      /\ <<"text">> \o <<>> = <<"text">> /\ <<>> \o <<"image">> = <<"image">> /\ <<>> \o <<>> = <<>>
  BY Pairs
<1>9. /\ Only(<<"text", "image">>, {"text"}) = <<"text">>
      /\ Only(<<"image", "text">>, {"image"}) = <<"image">>
  <2>1. Only(<<"text", "image">>, {"text"}) = Only(<<"text">>, {"text"})
    BY OnlyTwo
  <2>2. Only(<<"image", "text">>, {"image"}) = Only(<<"image">>, {"image"})
    BY OnlyTwo
  <2> QED BY <1>2, <2>1, <2>2
<1>10. /\ Only(<<"text", "image">>, {"image"}) = <<"image">>
       /\ Only(<<"image", "text">>, {"text"}) = <<"text">>
  <2>1. Only(<<"text", "image">>, {"image"}) = Append(Only(<<"text">>, {"image"}), "image")
    BY OnlyTwo
  <2>2. Only(<<"image", "text">>, {"text"}) = Append(Only(<<"image">>, {"text"}), "text")
    BY OnlyTwo
  <2>3. Append(<<>>, "image") = <<"image">> /\ Append(<<>>, "text") = <<"text">>
    OBVIOUS
  <2> QED BY <1>2, <2>1, <2>2, <2>3
<1>4. Ordered(<<>>) = <<>>
  BY <1>1, <1>3 DEF Ordered
<1>5. Ordered(<<"text">>) = <<"text">>
  BY <1>2, <1>3 DEF Ordered
<1>6. Ordered(<<"image">>) = <<"image">>
  BY <1>2, <1>3 DEF Ordered
<1>7. Ordered(<<"text", "image">>) = <<"text", "image">>
  BY <1>3, <1>9, <1>10 DEF Ordered
<1>8. Ordered(<<"image", "text">>) = <<"text", "image">>
  BY <1>3, <1>9, <1>10 DEF Ordered
<1> QED BY <1>4, <1>5, <1>6, <1>7, <1>8

\* The blocks of a short list of parts.
LEMMA ShortBlocks ==
  ASSUME NEW parts, NEW f, f = [i \in 1..Len(parts) |-> Block(parts[i], NoId)]
  PROVE  /\ parts = <<>> => f = <<>>
         /\ \A k : parts = <<k>> => f = <<Block(k, NoId)>>
         /\ \A k, l : parts = <<k, l>> => f = <<Block(k, NoId), Block(l, NoId)>>
<1>2. ASSUME parts = <<>> PROVE f = <<>>
  <2>1. Len(parts) = 0
    BY <1>2
  <2>2. f = [i \in 1..0 |-> f[i]]
    BY <2>1
  <2> QED BY <2>2, Mapped
<1>3. ASSUME NEW k, parts = <<k>> PROVE f = <<Block(k, NoId)>>
  <2>1. Len(parts) = 1 /\ parts[1] = k
    BY <1>3
  <2>2. f = [i \in 1..1 |-> f[i]] /\ f[1] = Block(k, NoId)
    BY <2>1
  <2> QED BY <2>2, Mapped
<1>4. ASSUME NEW k, NEW l, parts = <<k, l>> PROVE f = <<Block(k, NoId), Block(l, NoId)>>
  <2>1. Len(parts) = 2 /\ parts[1] = k /\ parts[2] = l
    BY <1>4
  <2>2. f = [i \in 1..2 |-> f[i]] /\ f[1] = Block(k, NoId) /\ f[2] = Block(l, NoId)
    BY <2>1
  <2> QED BY <2>2, Mapped
<1> QED BY <1>2, <1>3, <1>4

LEMMA PartBlocksAre ==
  ASSUME NEW m
  PROVE  /\ m.parts = <<>> => PartBlocks(m) = <<>> /\ Written(m) = <<>>
         /\ m.parts = <<"text">> => PartBlocks(m) = <<Text>> /\ Written(m) = <<Text>>
         /\ m.parts = <<"image">> => PartBlocks(m) = <<Image>> /\ Written(m) = <<Image>>
         /\ m.parts = <<"text", "image">> =>
              PartBlocks(m) = <<Text, Image>> /\ Written(m) = <<Text, Image>>
         /\ m.parts = <<"image", "text">> =>
              PartBlocks(m) = <<Text, Image>> /\ Written(m) = <<Image, Text>>
<1> DEFINE f == PartBlocks(m)
           g == Written(m)
           raw == m.parts
           parts == Ordered(raw)
<1>1. f = [i \in 1..Len(parts) |-> Block(parts[i], NoId)]
  BY DEF PartBlocks
<1>2. g = [i \in 1..Len(raw) |-> Block(raw[i], NoId)]
  BY DEF Written
<1> HIDE DEF f, g
<1>5. /\ raw = <<>> => parts = <<>>
      /\ raw = <<"text">> => parts = <<"text">>
      /\ raw = <<"image">> => parts = <<"image">>
      /\ raw \in {<<"text", "image">>, <<"image", "text">>} => parts = <<"text", "image">>
  BY OrderedIs
<1> HIDE DEF raw
<1>3. /\ raw = <<>> => g = <<>>
      /\ \A k : raw = <<k>> => g = <<Block(k, NoId)>>
      /\ \A k, l : raw = <<k, l>> => g = <<Block(k, NoId), Block(l, NoId)>>
  BY <1>2, ShortBlocks
<1> HIDE DEF parts
<1>4. /\ parts = <<>> => f = <<>>
      /\ \A k : parts = <<k>> => f = <<Block(k, NoId)>>
      /\ \A k, l : parts = <<k, l>> => f = <<Block(k, NoId), Block(l, NoId)>>
  BY <1>1, ShortBlocks
<1> QED BY <1>3, <1>4, <1>5 DEF f, g, raw, Text, Image

LEMMA CallBlocksAre ==
  /\ ToolUseBlocks(<<>>) = <<>>
  /\ \A i : ToolUseBlocks(<<i>>) = <<Block("call", i)>>
  /\ \A i, j : ToolUseBlocks(<<i, j>>) = <<Block("call", i), Block("call", j)>>
  /\ \A calls : FunctionCalls(calls) = ToolUseBlocks(Only(calls, Ids))
<1>1. ToolUseBlocks(<<>>) = <<>>
  <2> DEFINE f == ToolUseBlocks(<<>>)
  <2>1. f = [i \in 1..0 |-> Block("call", <<>>[i])]
    <3>1. Len(<<>>) = 0
      OBVIOUS
    <3> QED BY <3>1 DEF ToolUseBlocks
  <2> HIDE DEF f
  <2>2. f = [i \in 1..0 |-> f[i]]
    BY <2>1
  <2> QED BY <2>2, Mapped DEF f
<1>2. ASSUME NEW c PROVE ToolUseBlocks(<<c>>) = <<Block("call", c)>>
  <2> DEFINE f == ToolUseBlocks(<<c>>)
  <2>1. f = [i \in 1..1 |-> Block("call", <<c>>[i])]
    <3>1. Len(<<c>>) = 1
      OBVIOUS
    <3> QED BY <3>1 DEF ToolUseBlocks
  <2> HIDE DEF f
  <2>2. f = [i \in 1..1 |-> f[i]] /\ f[1] = Block("call", c)
    BY <2>1
  <2> QED BY <2>2, Mapped DEF f
<1>3. ASSUME NEW c, NEW d PROVE ToolUseBlocks(<<c, d>>) = <<Block("call", c), Block("call", d)>>
  <2> DEFINE f == ToolUseBlocks(<<c, d>>)
  <2>1. f = [i \in 1..2 |-> Block("call", <<c, d>>[i])]
    <3>1. Len(<<c, d>>) = 2
      OBVIOUS
    <3> QED BY <3>1 DEF ToolUseBlocks
  <2> HIDE DEF f
  <2>2. f = [i \in 1..2 |-> f[i]] /\ f[1] = Block("call", c) /\ f[2] = Block("call", d)
    BY <2>1
  <2> QED BY <2>2, Mapped DEF f
<1>4. \A calls : FunctionCalls(calls) = ToolUseBlocks(Only(calls, Ids))
  BY DEF FunctionCalls, ToolUseBlocks
<1> QED BY <1>1, <1>2, <1>3, <1>4

\* The calls that a protocol carries: all, or those with an id.
LEMMA CallsOnly ==
  ASSUME NEW m \in Messages, NEW K
  PROVE  /\ (\A i \in AnyId : Block("call", i) \in K) =>
              Only(ToolUseBlocks(m.calls), K) = ToolUseBlocks(m.calls)
         /\ (\A i \in AnyId : Block("call", i) \in K <=> i \in Ids) =>
              Only(ToolUseBlocks(m.calls), K) = FunctionCalls(m.calls)
<1>0. /\ \A a, b : Append(<<a>>, b) = <<a, b>>
      /\ \A a : Append(<<>>, a) = <<a>>
  <2>1. ASSUME NEW a, NEW b PROVE Append(<<a>>, b) = <<a, b>>
    BY Pairs
  <2>2. \A a : Append(<<>>, a) = <<a>>
    OBVIOUS
  <2> QED BY <2>1, <2>2
<1>1. CASE m.calls = <<>>
  <2>1. ToolUseBlocks(m.calls) = <<>> /\ FunctionCalls(m.calls) = <<>>
    BY <1>1, CallBlocksAre, OnlyEmpty
  <2> QED BY <2>1, OnlyEmpty
<1>2. ASSUME NEW i \in AnyId, m.calls = <<i>>
      PROVE  /\ (\A k \in AnyId : Block("call", k) \in K) =>
                  Only(ToolUseBlocks(m.calls), K) = ToolUseBlocks(m.calls)
             /\ (\A k \in AnyId : Block("call", k) \in K <=> k \in Ids) =>
                  Only(ToolUseBlocks(m.calls), K) = FunctionCalls(m.calls)
  <2> DEFINE b == Block("call", i)
  <2>1. /\ ToolUseBlocks(m.calls) = <<b>>
        /\ FunctionCalls(m.calls) = IF i \in Ids THEN <<b>> ELSE <<>>
    <3>1. Only(<<i>>, Ids) = IF i \in Ids THEN <<i>> ELSE <<>>
      BY OnlyOne
    <3> QED BY <1>2, <3>1, CallBlocksAre
  <2> HIDE DEF b
  <2>2. Only(<<b>>, K) = IF b \in K THEN <<b>> ELSE <<>>
    BY OnlyOne
  <2> QED BY <2>1, <2>2 DEF b
<1>3. ASSUME NEW i \in AnyId, NEW j \in AnyId, m.calls = <<i, j>>
      PROVE  /\ (\A k \in AnyId : Block("call", k) \in K) =>
                  Only(ToolUseBlocks(m.calls), K) = ToolUseBlocks(m.calls)
             /\ (\A k \in AnyId : Block("call", k) \in K <=> k \in Ids) =>
                  Only(ToolUseBlocks(m.calls), K) = FunctionCalls(m.calls)
  <2> DEFINE b == Block("call", i)
             c == Block("call", j)
             both == <<i, j>>
  <2>1. ToolUseBlocks(m.calls) = <<b, c>>
    BY <1>3, CallBlocksAre
  <2>2. Only(both, Ids) = IF j \in Ids THEN (IF i \in Ids THEN <<i, j>> ELSE <<j>>)
                          ELSE (IF i \in Ids THEN <<i>> ELSE <<>>)
    <3>1. Only(<<i, j>>, Ids) = IF j \in Ids THEN Append(Only(<<i>>, Ids), j) ELSE Only(<<i>>, Ids)
      BY OnlyTwo
    <3>2. Only(<<i>>, Ids) = IF i \in Ids THEN <<i>> ELSE <<>>
      BY OnlyOne
    <3> QED BY <1>0, <3>1, <3>2
  <2>3. FunctionCalls(m.calls) = ToolUseBlocks(Only(both, Ids))
    BY <1>3, CallBlocksAre
  <2>4. FunctionCalls(m.calls) =
          IF j \in Ids THEN (IF i \in Ids THEN <<b, c>> ELSE <<c>>)
          ELSE (IF i \in Ids THEN <<b>> ELSE <<>>)
    <3> HIDE DEF both
    <3>1. CASE i \in Ids /\ j \in Ids
      BY <2>2, <2>3, <3>1, CallBlocksAre
    <3>2. CASE i \in Ids /\ j \notin Ids
      BY <2>2, <2>3, <3>2, CallBlocksAre
    <3>3. CASE i \notin Ids /\ j \in Ids
      BY <2>2, <2>3, <3>3, CallBlocksAre
    <3>4. CASE i \notin Ids /\ j \notin Ids
      BY <2>2, <2>3, <3>4, CallBlocksAre
    <3> QED BY <3>1, <3>2, <3>3, <3>4
  <2> HIDE DEF b, c
  <2>5. Only(<<b, c>>, K) = IF c \in K THEN (IF b \in K THEN <<b, c>> ELSE <<c>>)
                            ELSE (IF b \in K THEN <<b>> ELSE <<>>)
    <3>1. Only(<<b, c>>, K) = IF c \in K THEN Append(Only(<<b>>, K), c) ELSE Only(<<b>>, K)
      BY OnlyTwo
    <3>2. Only(<<b>>, K) = IF b \in K THEN <<b>> ELSE <<>>
      BY OnlyOne
    <3> QED BY <1>0, <3>1, <3>2
  <2>6. ASSUME \A k \in AnyId : Block("call", k) \in K
        PROVE  Only(ToolUseBlocks(m.calls), K) = ToolUseBlocks(m.calls)
    <3>1. b \in K /\ c \in K
      BY <2>6 DEF b, c
    <3> QED BY <2>1, <2>5, <3>1
  <2>7. ASSUME \A k \in AnyId : Block("call", k) \in K <=> k \in Ids
        PROVE  Only(ToolUseBlocks(m.calls), K) = FunctionCalls(m.calls)
    <3>1. (b \in K <=> i \in Ids) /\ (c \in K <=> j \in Ids)
      BY <2>7 DEF b, c
    <3> QED BY <2>1, <2>4, <2>5, <3>1
  <2> QED BY <2>6, <2>7
<1> QED BY <1>1, <1>2, <1>3, MessageIs

LEMMA BlockIs ==
  \A i \in AnyId :
    /\ \A k : Block(k, i).kind = k /\ Block(k, i).id = i
    /\ \A k, K : Block(k, i) \in Blocks(K) <=> k \in K
<1> TAKE i \in AnyId
<1>1. \A k : Block(k, i).kind = k /\ Block(k, i).id = i
  BY DEF Block
<1>2. ASSUME NEW k, NEW K PROVE Block(k, i) \in Blocks(K) <=> k \in K
  <2>1. k \in K => Block(k, i) \in Blocks(K)
    BY DEF Blocks, AnyId
  <2>2. ASSUME Block(k, i) \in Blocks(K) PROVE k \in K
    <3>1. PICK l \in K, j \in AnyId : Block(k, i) = Block(l, j)
      BY <2>2 DEF Blocks
    <3>2. Block(l, j).kind = l
      BY DEF Block
    <3> QED BY <1>1, <3>1, <3>2
  <2> QED BY <2>1, <2>2
<1> QED BY <1>1, <1>2

\* What a message's calls become: at most two blocks.
Short(s) ==
  \/ s = <<>>
  \/ \E b \in AllBlocks : s = <<b>>
  \/ \E b, c \in AllBlocks : s = <<b, c>>

LEMMA ShortIs ==
  ASSUME NEW s, Short(s)
  PROVE  s \in Seq(AllBlocks)
<1>1. <<>> \in Seq(AllBlocks) /\ \A b \in AllBlocks : <<b>> \in Seq(AllBlocks)
  OBVIOUS
<1>2. \A b, c \in AllBlocks : <<b, c>> \in Seq(AllBlocks)
  OBVIOUS
<1> QED BY <1>1, <1>2 DEF Short

LEMMA CallsShort ==
  ASSUME NEW m \in Messages
  PROVE  Short(ToolUseBlocks(m.calls)) /\ Short(FunctionCalls(m.calls))
<1>1. \A i \in AnyId : Block("call", i) \in AllBlocks
  BY BlockIs DEF AllBlocks
<1>2. /\ Short(ToolUseBlocks(<<>>))
      /\ \A i \in AnyId : Short(ToolUseBlocks(<<i>>))
      /\ \A i, j \in AnyId : Short(ToolUseBlocks(<<i, j>>))
  BY <1>1, CallBlocksAre DEF Short
<1>3. FunctionCalls(m.calls) = ToolUseBlocks(Only(m.calls, Ids))
  BY CallBlocksAre
<1>4. CASE m.calls = <<>>
  BY <1>2, <1>3, <1>4, OnlyEmpty
<1>5. ASSUME NEW i \in AnyId, m.calls = <<i>>
      PROVE  Short(ToolUseBlocks(m.calls)) /\ Short(FunctionCalls(m.calls))
  <2>1. Only(<<i>>, Ids) = IF i \in Ids THEN <<i>> ELSE <<>>
    BY OnlyOne
  <2> QED BY <1>2, <1>3, <1>5, <2>1
<1>6. ASSUME NEW i \in AnyId, NEW j \in AnyId, m.calls = <<i, j>>
      PROVE  Short(ToolUseBlocks(m.calls)) /\ Short(FunctionCalls(m.calls))
  <2>1. Only(<<i, j>>, Ids) = IF j \in Ids THEN Append(Only(<<i>>, Ids), j) ELSE Only(<<i>>, Ids)
    BY OnlyTwo
  <2>2. Only(<<i>>, Ids) = IF i \in Ids THEN <<i>> ELSE <<>>
    BY OnlyOne
  <2>3. Append(<<i>>, j) = <<i, j>> /\ Append(<<>>, j) = <<j>>
    <3>1. Append(<<i>>, j) = <<i, j>>
      BY Pairs
    <3>2. Append(<<>>, j) = <<j>>
      OBVIOUS
    <3> QED BY <3>1, <3>2
  <2>4. Only(<<i, j>>, Ids) \in {<<>>, <<i>>, <<j>>, <<i, j>>}
    BY <2>1, <2>2, <2>3
  <2> DEFINE kept == Only(<<i, j>>, Ids)
  <2>5. FunctionCalls(m.calls) = ToolUseBlocks(kept)
    BY <1>3, <1>6
  <2> HIDE DEF kept
  <2>6. Short(ToolUseBlocks(kept))
    BY <1>2, <2>4 DEF kept
  <2> QED BY <1>2, <1>6, <2>5, <2>6
<1> QED BY <1>4, <1>5, <1>6, MessageIs

LEMMA PartsOnly ==
  ASSUME NEW m \in Messages
  PROVE  /\ PartBlocks(m) \in Seq({Text, Image})
         /\ \A K : Text \in K /\ Image \in K => Only(PartBlocks(m), K) = PartBlocks(m)
         /\ \A K : Text \in K /\ Image \notin K =>
              Only(PartBlocks(m), K) =
                IF m.parts \in {<<>>, <<"image">>} THEN <<>> ELSE <<Text>>
<1>1. /\ <<>> \in Seq({Text, Image}) /\ <<Text>> \in Seq({Text, Image})
      /\ <<Image>> \in Seq({Text, Image}) /\ <<Text, Image>> \in Seq({Text, Image})
  OBVIOUS
<1>2. ASSUME NEW K
      PROVE  /\ Only(<<>>, K) = <<>>
             /\ Only(<<Text>>, K) = IF Text \in K THEN <<Text>> ELSE <<>>
             /\ Only(<<Image>>, K) = IF Image \in K THEN <<Image>> ELSE <<>>
             /\ Text \in K => Only(<<Text, Image>>, K) = IF Image \in K THEN <<Text, Image>> ELSE <<Text>>
  <2>1. Only(<<>>, K) = <<>>
    BY OnlyEmpty
  <2>2. Only(<<Text>>, K) = IF Text \in K THEN <<Text>> ELSE <<>>
    BY OnlyOne
  <2>3. Only(<<Image>>, K) = IF Image \in K THEN <<Image>> ELSE <<>>
    BY OnlyOne
  <2>4. Only(<<Text, Image>>, K) =
          IF Image \in K THEN Append(Only(<<Text>>, K), Image) ELSE Only(<<Text>>, K)
    BY OnlyTwo
  <2>5. Append(<<Text>>, Image) = <<Text, Image>>
    BY Pairs
  <2> QED BY <2>1, <2>2, <2>3, <2>4, <2>5
<1>3. CASE m.parts = <<>>
  <2>1. PartBlocks(m) = <<>>
    BY <1>3, PartBlocksAre
  <2> QED BY <1>1, <1>2, <1>3, <2>1
<1>4. CASE m.parts = <<"text">>
  <2>1. PartBlocks(m) = <<Text>>
    BY <1>4, PartBlocksAre
  <2>2. m.parts \notin {<<>>, <<"image">>}
    BY <1>4
  <2> QED BY <1>1, <1>2, <2>1, <2>2
<1>5. CASE m.parts = <<"image">>
  <2>1. PartBlocks(m) = <<Image>>
    BY <1>5, PartBlocksAre
  <2> QED BY <1>1, <1>2, <1>5, <2>1
<1>6. CASE m.parts \in {<<"text", "image">>, <<"image", "text">>}
  <2>1. PartBlocks(m) = <<Text, Image>>
    BY <1>6, PartBlocksAre
  <2>2. m.parts \notin {<<>>, <<"image">>}
    BY <1>6
  <2> QED BY <1>1, <1>2, <2>1, <2>2
<1>7. m.parts \in Contents
  BY MessageIs
<1> QED BY <1>3, <1>4, <1>5, <1>6, <1>7 DEF Contents

\* An image before a text is moved behind it; every other part stays.
LEMMA SaidIs ==
  ASSUME NEW m \in Messages, m.role # "tool"
  PROVE  Said(m) = PartBlocks(m) \o ToolUseBlocks(m.calls)
<1> DEFINE moved == Only(Written(m), Blocks({"text"})) \o Only(Written(m), Blocks({"image"}))
           parts == IF ImageFirst(m) THEN moved ELSE Written(m)
<1>1. Said(m) = parts \o ToolUseBlocks(m.calls)
  BY DEF Said
<1>2. CASE m.parts = <<"image", "text">>
  <2>1. ImageFirst(m)
    <3>1. Len(m.parts) = 2 /\ m.parts[1] = "image" /\ m.parts[2] = "text" /\ 1 < 2
      BY <1>2
    <3> QED BY <3>1 DEF ImageFirst
  <2>2. Written(m) = <<Image, Text>> /\ PartBlocks(m) = <<Text, Image>>
    BY <1>2, PartBlocksAre
  <2>3. /\ Text \in Blocks({"text"}) /\ Text \notin Blocks({"image"})
        /\ Image \in Blocks({"image"}) /\ Image \notin Blocks({"text"})
    BY BlockIs DEF Text, Image, AnyId
  <2>4. Only(<<Image, Text>>, Blocks({"text"})) = <<Text>>
    <3>1. Only(<<Image>>, Blocks({"text"})) = <<>>
      BY <2>3, OnlyOne
    <3>2. Only(<<Image, Text>>, Blocks({"text"})) = Append(Only(<<Image>>, Blocks({"text"})), Text)
      BY <2>3, OnlyTwo
    <3>3. Append(<<>>, Text) = <<Text>>
      OBVIOUS
    <3> QED BY <3>1, <3>2, <3>3
  <2>5. Only(<<Image, Text>>, Blocks({"image"})) = <<Image>>
    <3>1. Only(<<Image>>, Blocks({"image"})) = <<Image>>
      BY <2>3, OnlyOne
    <3>2. Only(<<Image, Text>>, Blocks({"image"})) = Only(<<Image>>, Blocks({"image"}))
      BY <2>3, OnlyTwo
    <3> QED BY <3>1, <3>2
  <2>6. <<Text>> \o <<Image>> = <<Text, Image>>
    BY Pairs
  <2>7. moved = <<Text, Image>>
    BY <2>2, <2>4, <2>5, <2>6
  <2> QED BY <1>1, <2>1, <2>2, <2>7
<1>3. CASE m.parts # <<"image", "text">>
  <2>1. m.parts \in {<<>>, <<"text">>, <<"image">>, <<"text", "image">>}
    BY <1>3, MessageIs DEF Contents
  <2>2. Written(m) = PartBlocks(m)
    BY <2>1, PartBlocksAre
  <2>3. ~ImageFirst(m)
    <3>1. SUFFICES ASSUME NEW i \in 1..Len(m.parts), NEW j \in 1..Len(m.parts), i < j,
                          m.parts[i] = "image", m.parts[j] = "text"
                   PROVE  FALSE
      BY DEF ImageFirst
    <3>2. CASE m.parts = <<>>
      <4>1. Len(m.parts) = 0
        BY <3>2
      <4> QED BY <3>1, <4>1
    <3>3. CASE m.parts \in {<<"text">>, <<"image">>}
      <4>1. Len(m.parts) = 1
        BY <3>3
      <4> QED BY <3>1, <4>1
    <3>4. CASE m.parts = <<"text", "image">>
      <4>1. Len(m.parts) = 2 /\ m.parts[1] = "text"
        BY <3>4
      <4> QED BY <3>1, <4>1
    <3> QED BY <2>1, <3>2, <3>3, <3>4
  <2> QED BY <1>1, <2>2, <2>3
<1> QED BY <1>2, <1>3

\* What a protocol carries of a message, and what the bridge makes of it.
LEMMA CarriedIs ==
  ASSUME NEW m \in Messages, m.role # "system", vendor \in Vendors
  PROVE  /\ m.role = "tool" =>
              Carried(m) = IF vendor = "codex" /\ m.id = NoId THEN <<>> ELSE <<Block("answer", m.id)>>
         /\ m.role = "user" => Carried(m) = PartBlocks(m)
         /\ m.role = "assistant" /\ vendor = "codex" =>
              Carried(m) = CodexParts(m) \o FunctionCalls(m.calls)
         /\ m.role = "assistant" /\ vendor = "claude" =>
              Carried(m) = TextAndToolBlocks(PartBlocks(m)) \o ToolUseBlocks(m.calls)
<1> DEFINE K == AllBlocks \ Dropped(m)
<1>1. Carried(m) = Only(Said(m), K)
  BY DEF Carried, AllBlocks
<1>2. \A i \in AnyId :
        /\ Block("answer", i) \in K <=> ~(vendor = "codex" /\ i = NoId)
        /\ Block("call", i) \in K <=> ~(vendor = "codex" /\ i = NoId)
        /\ Block("text", i) \in K
        /\ Block("image", i) \in K <=> m.role # "assistant"
  <2> TAKE i \in AnyId
  <2>1. \A k \in {"text", "image", "call", "answer"} :
          /\ Block(k, i) \in AllBlocks
          /\ Block(k, i) \in Blocks({"image"}) <=> k = "image"
          /\ Block(k, i) \in {Block("call", NoId), Block("answer", NoId)} <=>
               k \in {"call", "answer"} /\ i = NoId
    BY BlockIs DEF AllBlocks, Block
  <2> QED BY <2>1 DEF Dropped
<1> HIDE DEF K
<1>3. NoId \in AnyId /\ NoId \notin Ids
  BY RequestAssumption DEF AnyId
<1>4. CASE m.role = "tool"
  <2> DEFINE b == Block("answer", m.id)
  <2>1. Said(m) = <<b>> /\ m.id \in AnyId
    BY <1>4, MessageIs DEF Said
  <2>2. b \in K <=> ~(vendor = "codex" /\ m.id = NoId)
    BY <1>2, <2>1
  <2> HIDE DEF b
  <2>3. Only(<<b>>, K) = IF b \in K THEN <<b>> ELSE <<>>
    BY OnlyOne
  <2>4. Carried(m) = IF vendor = "codex" /\ m.id = NoId THEN <<>> ELSE <<b>>
    BY <1>1, <2>1, <2>2, <2>3
  <2> QED BY <1>4, <2>4 DEF b
<1>5. ASSUME m.role # "tool"
      PROVE  Carried(m) = Only(PartBlocks(m), K) \o Only(ToolUseBlocks(m.calls), K)
  <2> DEFINE s == PartBlocks(m)
             calls == ToolUseBlocks(m.calls)
  <2>0. \A i \in AnyId : \A k \in {"text", "image", "call"} : Block(k, i) \in AllBlocks
    BY BlockIs DEF AllBlocks
  <2>1. s \in Seq(AllBlocks)
    <3>1. s \in Seq({Text, Image}) /\ {Text, Image} \subseteq AllBlocks
      BY <1>3, <2>0, PartsOnly DEF Text, Image
    <3> HIDE DEF s
    <3> QED BY <3>1, SeqMonotonic
  <2>2. Only(s, K) \in Seq(AllBlocks)
    <3>1. Text \in K /\ Text \in AllBlocks
      BY <1>2, <1>3, <2>0 DEF Text
    <3>2. Only(s, K) \in {s, <<>>, <<Text>>}
      BY <3>1, PartsOnly
    <3>3. <<Text>> \in Seq(AllBlocks) /\ <<>> \in Seq(AllBlocks)
      BY <3>1
    <3> QED BY <2>1, <3>2, <3>3
  <2>4. \E a, b \in AllBlocks : calls \in {<<>>, <<a>>, <<a, b>>}
    <3>1. CASE m.calls = <<>>
      BY <1>3, <2>0, <3>1, CallBlocksAre
    <3>2. ASSUME NEW i \in AnyId, m.calls = <<i>> PROVE \E a \in AllBlocks : calls = <<a>>
      BY <2>0, <3>2, CallBlocksAre
    <3>3. ASSUME NEW i \in AnyId, NEW j \in AnyId, m.calls = <<i, j>>
          PROVE  \E a, b \in AllBlocks : calls = <<a, b>>
      BY <2>0, <3>3, CallBlocksAre
    <3> HIDE DEF calls
    <3> QED BY <3>1, <3>2, <3>3, MessageIs
  <2>5. Said(m) = s \o calls
    BY <1>5, SaidIs
  <2> HIDE DEF s, calls
  <2>7. Only(s \o calls, K) = Only(s, K) \o Only(calls, K)
    <3>1. PICK a \in AllBlocks, b \in AllBlocks : calls \in {<<>>, <<a>>, <<a, b>>}
      BY <2>4
    <3> QED BY <2>1, <2>2, <3>1, OnlyAfter
  <2> QED BY <1>1, <2>5, <2>7 DEF s, calls
<1>6. CASE m.role = "user"
  <2>1. m.calls = <<>> /\ m.role # "tool"
    BY <1>6, MessageIs
  <2>2. Text \in K /\ Image \in K
    BY <1>2, <1>3, <1>6 DEF Text, Image
  <2>3. Only(PartBlocks(m), K) = PartBlocks(m) /\ Only(ToolUseBlocks(m.calls), K) = <<>>
    BY <2>1, <2>2, PartsOnly, CallBlocksAre, OnlyEmpty
  <2>4. PartBlocks(m) \o <<>> = PartBlocks(m)
    BY PartsOnly, ConcatEmptySeq
  <2> QED BY <1>5, <1>6, <2>1, <2>3, <2>4
<1>7. CASE m.role = "assistant"
  <2> DEFINE kept == Only(PartBlocks(m), K)
  <2>1. /\ Text \in K /\ Image \notin K
        /\ Text \in Blocks({"text"}) /\ Text \in Blocks({"text", "call"})
        /\ Image \notin Blocks({"text"}) /\ Image \notin Blocks({"text", "call"})
    BY <1>2, <1>3, <1>7, BlockIs DEF Text, Image
  <2>2. /\ CodexParts(m) = Only(PartBlocks(m), Blocks({"text"}))
        /\ TextAndToolBlocks(PartBlocks(m)) = Only(PartBlocks(m), Blocks({"text", "call"}))
    BY <1>7 DEF CodexParts, TextAndToolBlocks
  <2>3. CodexParts(m) = kept /\ TextAndToolBlocks(PartBlocks(m)) = kept
    BY <2>1, <2>2, PartsOnly
  <2>4. Carried(m) = kept \o Only(ToolUseBlocks(m.calls), K)
    BY <1>5, <1>7
  <2>5. ASSUME vendor = "codex"
        PROVE  Only(ToolUseBlocks(m.calls), K) = FunctionCalls(m.calls)
    <3>1. \A i \in AnyId : Block("call", i) \in K <=> i \in Ids
      BY <1>2, <1>3, <2>5 DEF AnyId
    <3> QED BY <3>1, CallsOnly
  <2>6. ASSUME vendor = "claude"
        PROVE  Only(ToolUseBlocks(m.calls), K) = ToolUseBlocks(m.calls)
    <3>1. \A i \in AnyId : Block("call", i) \in K
      BY <1>2, <2>6
    <3> QED BY <3>1, CallsOnly
  <2> HIDE DEF kept
  <2> QED BY <1>7, <2>3, <2>4, <2>5, <2>6
<1> QED BY <1>4, <1>6, <1>7, MessageIs

LEMMA BlocksTyped ==
  ASSUME NEW m \in Talk, vendor \in Vendors
  PROVE  /\ PartBlocks(m) \in Seq(AllBlocks) /\ ToolUseBlocks(m.calls) \in Seq(AllBlocks)
         /\ m.role = "user" => CodexParts(m) = PartBlocks(m)
         /\ m.role = "assistant" =>
              /\ CodexParts(m) \in Seq(AllBlocks)
              /\ TextAndToolBlocks(PartBlocks(m)) \in Seq(AllBlocks)
              /\ Short(FunctionCalls(m.calls))
         /\ Block("answer", m.id) \in AllBlocks
         /\ Carried(m) \in Seq(AllBlocks)
<1>0. m \in Messages /\ m.role # "system" /\ NoId \in AnyId
  BY DEF Talk, AnyId
<1>1. \A i \in AnyId : \A k \in {"text", "image", "call", "answer"} : Block(k, i) \in AllBlocks
  BY BlockIs DEF AllBlocks
<1>2. Text \in AllBlocks /\ Image \in AllBlocks
  BY <1>0, <1>1 DEF Text, Image
<1>3. PartBlocks(m) \in Seq(AllBlocks)
  <2>1. PartBlocks(m) \in Seq({Text, Image}) /\ {Text, Image} \subseteq AllBlocks
    BY <1>0, <1>2, PartsOnly
  <2> QED BY <2>1, SeqMonotonic
<1>5. ToolUseBlocks(m.calls) \in Seq(AllBlocks)
  BY <1>0, CallsShort, ShortIs
<1>6. Short(FunctionCalls(m.calls))
  BY <1>0, CallsShort
<1>7. FunctionCalls(m.calls) \in Seq(AllBlocks)
  BY <1>6, ShortIs
<1>8. m.role = "user" => CodexParts(m) = PartBlocks(m)
  BY DEF CodexParts
<1>9. ASSUME m.role = "assistant"
      PROVE  /\ CodexParts(m) \in Seq(AllBlocks)
             /\ TextAndToolBlocks(PartBlocks(m)) \in Seq(AllBlocks)
  <2>1. /\ CodexParts(m) = Only(PartBlocks(m), Blocks({"text"}))
        /\ TextAndToolBlocks(PartBlocks(m)) = Only(PartBlocks(m), Blocks({"text", "call"}))
    BY <1>9 DEF CodexParts, TextAndToolBlocks
  <2>2. /\ Text \in Blocks({"text"}) /\ Text \in Blocks({"text", "call"})
        /\ Image \notin Blocks({"text"}) /\ Image \notin Blocks({"text", "call"})
    BY <1>0, BlockIs DEF Text, Image
  <2>3. CodexParts(m) \in {<<>>, <<Text>>}
    BY <1>0, <2>1, <2>2, PartsOnly
  <2>4. TextAndToolBlocks(PartBlocks(m)) \in {<<>>, <<Text>>}
    BY <1>0, <2>1, <2>2, PartsOnly
  <2>5. <<>> \in Seq(AllBlocks) /\ <<Text>> \in Seq(AllBlocks)
    BY <1>2
  <2> QED BY <2>3, <2>4, <2>5
<1>10. Block("answer", m.id) \in AllBlocks
  BY <1>0, <1>1, MessageIs
<1>11. Carried(m) \in Seq(AllBlocks)
  <2>1. CASE m.role = "tool"
    <3> DEFINE b == Block("answer", m.id)
    <3>1. Carried(m) \in {<<>>, <<b>>}
      BY <1>0, <2>1, CarriedIs
    <3>2. b \in AllBlocks
      BY <1>10
    <3> HIDE DEF b
    <3>3. <<>> \in Seq(AllBlocks) /\ <<b>> \in Seq(AllBlocks)
      BY <3>2
    <3> QED BY <3>1, <3>3
  <2>2. CASE m.role = "user"
    BY <1>0, <1>3, <2>2, CarriedIs
  <2>3. CASE m.role = "assistant" /\ vendor = "codex"
    <3>1. Carried(m) = CodexParts(m) \o FunctionCalls(m.calls)
      BY <1>0, <2>3, CarriedIs
    <3> QED BY <1>7, <1>9, <2>3, <3>1, ConcatProperties
  <2>4. CASE m.role = "assistant" /\ vendor = "claude"
    <3>1. Carried(m) = TextAndToolBlocks(PartBlocks(m)) \o ToolUseBlocks(m.calls)
      BY <1>0, <2>4, CarriedIs
    <3> QED BY <1>5, <1>9, <2>4, <3>1, ConcatProperties
  <2> QED BY <1>0, <2>1, <2>2, <2>3, <2>4, MessageIs DEF Vendors
<1> QED BY <1>3, <1>5, <1>6, <1>8, <1>9, <1>10, <1>11

LEMMA TurnAdded ==
  ASSUME NEW ts \in Seq(Turned), NEW role \in Sides, NEW blocks \in Seq(AllBlocks)
  PROVE  LET more == IF blocks = <<>> THEN ts ELSE Append(ts, Turn(role, blocks))
         IN  more \in Seq(Turned) /\ Flat(more) = Flat(ts) \o blocks
<1>1. CASE blocks = <<>>
  <2>1. Flat(ts) \o <<>> = Flat(ts)
    BY FlatTurns, ConcatEmptySeq
  <2> QED BY <1>1, <2>1
<1>2. CASE blocks # <<>>
  <2> DEFINE turn == Turn(role, blocks)
  <2>1. turn \in Turned /\ turn.blocks = blocks
    BY <1>2 DEF Turned, Turn
  <2> HIDE DEF turn
  <2>2. Append(ts, turn) \in Seq(Turned) /\ Flat(Append(ts, turn)) = Flat(ts) \o blocks
    BY <2>1, FlatTurns
  <2> QED BY <1>2, <2>2 DEF turn
<1> QED BY <1>1, <1>2

LEMMA CodexSays ==
  ASSUME turns \in Seq(Turned), NEW m \in Talk, vendor = "codex",
         turns' =
         CASE m.role = "tool" ->
                IF m.id = NoId THEN turns
                ELSE Append(turns, Turn("tool", <<Block("answer", m.id)>>))
           [] m.role = "assistant" ->
                LET parts == CodexParts(m)
                    calls == FunctionCalls(m.calls)
                IN  (IF parts = <<>> THEN turns ELSE Append(turns, Turn("assistant", parts)))
                      \o [i \in 1..Len(calls) |-> Turn("assistant", <<calls[i]>>)]
           [] OTHER ->
                IF CodexParts(m) = <<>> THEN turns
                ELSE Append(turns, Turn("user", CodexParts(m)))
  PROVE  turns' \in Seq(Turned) /\ Flat(turns') = Flat(turns) \o Carried(m)
<1>0. m \in Messages /\ m.role # "system" /\ vendor \in Vendors
  BY DEF Talk, Vendors
<1>1. CASE m.role = "tool"
  <2>1. CASE m.id = NoId
    <3>1. Carried(m) = <<>> /\ turns' = turns
      BY <1>0, <1>1, <2>1, CarriedIs
    <3>2. Flat(turns) \o <<>> = Flat(turns)
      BY FlatTurns, ConcatEmptySeq
    <3> QED BY <3>1, <3>2
  <2>2. CASE m.id # NoId
    <3> DEFINE b == Block("answer", m.id)
    <3>1. Carried(m) = <<b>> /\ turns' = Append(turns, Turn("tool", <<b>>)) /\ b \in AllBlocks
      BY <1>0, <1>1, <2>2, CarriedIs, BlocksTyped
    <3> HIDE DEF b
    <3>2. <<b>> \in Seq(AllBlocks) /\ <<b>> # <<>> /\ "tool" \in Sides
      BY <3>1 DEF Sides
    <3> QED BY <3>1, <3>2, TurnAdded
  <2> QED BY <2>1, <2>2
<1>2. CASE m.role = "assistant"
  <2> DEFINE parts == CodexParts(m)
             calls == FunctionCalls(m.calls)
             base == IF parts = <<>> THEN turns ELSE Append(turns, Turn("assistant", parts))
             rest == [i \in 1..Len(calls) |-> Turn("assistant", <<calls[i]>>)]
  <2>1. turns' = base \o rest
    BY <1>2
  <2>2. Carried(m) = parts \o calls
    BY <1>0, <1>2, CarriedIs
  <2>3. parts \in Seq(AllBlocks) /\ Short(calls)
    BY <1>0, <1>2, BlocksTyped
  <2> HIDE DEF parts, calls
  <2>4. base \in Seq(Turned) /\ Flat(base) = Flat(turns) \o parts
    <3>1. "assistant" \in Sides
      BY DEF Sides
    <3> QED BY <2>3, <3>1, TurnAdded
  <2>5. CASE calls = <<>>
    <3>1. rest = <<>>
      <4>1. Len(calls) = 0
        BY <2>5
      <4>2. rest = [i \in 1..0 |-> rest[i]]
        BY <4>1
      <4> QED BY <4>2, Mapped
    <3> HIDE DEF base, rest
    <3>2. base \o <<>> = base /\ parts \o <<>> = parts
      BY <2>3, <2>4, ConcatEmptySeq
    <3> QED BY <2>1, <2>2, <2>4, <2>5, <3>1, <3>2
  <2>6. ASSUME NEW b \in AllBlocks, calls = <<b>>
        PROVE  turns' \in Seq(Turned) /\ Flat(turns') = Flat(turns) \o Carried(m)
    <3> DEFINE turn == Turn("assistant", <<b>>)
    <3>1. rest = <<turn>>
      <4>1. Len(calls) = 1 /\ calls[1] = b
        BY <2>6
      <4>2. rest = [i \in 1..1 |-> rest[i]] /\ rest[1] = turn
        BY <4>1
      <4> QED BY <4>2, Mapped
    <3>2. turn \in Turned /\ turn.blocks = <<b>>
      <4>1. <<b>> \in Seq(AllBlocks) /\ <<b>> # <<>>
        OBVIOUS
      <4> QED BY <4>1 DEF Turned, Turn, Sides
    <3> HIDE DEF base, rest, turn
    <3>3. turns' = Append(base, turn)
      BY <2>1, <2>4, <3>1, <3>2, AppendIsConcat
    <3>4. turns' \in Seq(Turned) /\ Flat(turns') = Flat(base) \o <<b>>
      BY <2>4, <3>2, <3>3, FlatTurns
    <3>5. (Flat(turns) \o parts) \o <<b>> = Flat(turns) \o (parts \o <<b>>)
      <4> DEFINE told == Flat(turns)
      <4>1. told \in Seq(AllBlocks) /\ <<b>> \in Seq(AllBlocks)
        BY FlatTurns
      <4> HIDE DEF told
      <4>2. (told \o parts) \o <<b>> = told \o (parts \o <<b>>)
        BY <2>3, <4>1, ConcatAssociative
      <4> QED BY <4>2 DEF told
    <3> QED BY <2>2, <2>4, <2>6, <3>4, <3>5
  <2>7. ASSUME NEW b \in AllBlocks, NEW c \in AllBlocks, calls = <<b, c>>
        PROVE  turns' \in Seq(Turned) /\ Flat(turns') = Flat(turns) \o Carried(m)
    <3> DEFINE first == Turn("assistant", <<b>>)
               second == Turn("assistant", <<c>>)
               longer == Append(base, first)
    <3>1. rest = <<first, second>>
      <4>1. Len(calls) = 2 /\ calls[1] = b /\ calls[2] = c
        BY <2>7
      <4>2. rest = [i \in 1..2 |-> rest[i]] /\ rest[1] = first /\ rest[2] = second
        BY <4>1
      <4> QED BY <4>2, Mapped
    <3>2. /\ first \in Turned /\ first.blocks = <<b>>
          /\ second \in Turned /\ second.blocks = <<c>>
      <4>1. /\ <<b>> \in Seq(AllBlocks) /\ <<b>> # <<>>
            /\ <<c>> \in Seq(AllBlocks) /\ <<c>> # <<>>
        OBVIOUS
      <4> QED BY <4>1 DEF Turned, Turn, Sides
    <3> HIDE DEF base, rest, first, second
    <3>3. longer \in Seq(Turned) /\ Flat(longer) = Flat(base) \o <<b>>
      BY <2>4, <3>2, FlatTurns
    <3>4. turns' = Append(longer, second)
      <4>1. base \o <<first, second>> = Append(Append(base, first), second)
        BY <2>4, <3>2, TwoAdded
      <4> QED BY <2>1, <3>1, <4>1
    <3> HIDE DEF longer
    <3>5. turns' \in Seq(Turned) /\ Flat(turns') = Flat(longer) \o <<c>>
      BY <3>2, <3>3, <3>4, FlatTurns
    <3>6. ((Flat(turns) \o parts) \o <<b>>) \o <<c>> = Flat(turns) \o (parts \o <<b, c>>)
      <4> DEFINE told == Flat(turns)
                 before == told \o parts
      <4>1. told \in Seq(AllBlocks) /\ before \in Seq(AllBlocks)
        BY <2>3, FlatTurns, ConcatProperties
      <4>2. <<b>> \in Seq(AllBlocks) /\ <<c>> \in Seq(AllBlocks) /\ <<b, c>> \in Seq(AllBlocks)
        OBVIOUS
      <4>3. <<b>> \o <<c>> = <<b, c>>
        BY Pairs
      <4> HIDE DEF told, before
      <4>4. (before \o <<b>>) \o <<c>> = before \o <<b, c>>
        <5>1. (before \o <<b>>) \o <<c>> = before \o (<<b>> \o <<c>>)
          BY <4>1, <4>2, ConcatAssociative
        <5> QED BY <4>3, <5>1
      <4>5. (told \o parts) \o <<b, c>> = told \o (parts \o <<b, c>>)
        BY <2>3, <4>1, <4>2, ConcatAssociative
      <4> QED BY <4>4, <4>5 DEF before, told
    <3> QED BY <2>2, <2>4, <2>7, <3>3, <3>5, <3>6
  <2> QED BY <2>3, <2>5, <2>6, <2>7 DEF Short
<1>3. CASE m.role = "user"
  <2> DEFINE blocks == PartBlocks(m)
  <2>1. Carried(m) = blocks /\ CodexParts(m) = blocks /\ blocks \in Seq(AllBlocks)
    BY <1>0, <1>3, CarriedIs, BlocksTyped
  <2>2. turns' = IF blocks = <<>> THEN turns ELSE Append(turns, Turn("user", blocks))
    BY <1>3, <2>1
  <2> HIDE DEF blocks
  <2>3. "user" \in Sides
    BY DEF Sides
  <2> QED BY <2>1, <2>2, <2>3, TurnAdded
<1> QED BY <1>0, <1>1, <1>2, <1>3, MessageIs

LEMMA ClaudeHears ==
  ASSUME turns \in Seq(Turned), NEW m \in Talk, vendor = "claude",
         turns' =
         CASE m.role = "tool" ->
                AppendMessage(turns, "user", <<Block("answer", m.id)>>)
           [] m.role = "assistant" ->
                AppendMessage(turns, "assistant",
                  TextAndToolBlocks(AnthropicBlocks(m)) \o ToolUseBlocks(m.calls))
           [] OTHER -> AppendMessage(turns, "user", AnthropicBlocks(m))
  PROVE  turns' \in Seq(Turned) /\ Flat(turns') = Flat(turns) \o Carried(m)
<1>0. m \in Messages /\ m.role # "system" /\ vendor \in Vendors /\ vendor # "codex"
  BY DEF Talk, Vendors
<1>1. "user" \in Sides /\ "assistant" \in Sides
  BY DEF Sides
<1>2. Carried(m) \in Seq(AllBlocks)
  BY <1>0, BlocksTyped
<1>3. \E role \in Sides : turns' = AppendMessage(turns, role, Carried(m))
  <2>1. CASE m.role = "tool"
    <3>1. Carried(m) = <<Block("answer", m.id)>>
      BY <1>0, <2>1, CarriedIs
    <3> QED BY <1>1, <2>1, <3>1
  <2>2. CASE m.role = "assistant"
    <3>1. Carried(m) = TextAndToolBlocks(PartBlocks(m)) \o ToolUseBlocks(m.calls)
      BY <1>0, <2>2, CarriedIs
    <3> QED BY <1>1, <2>2, <3>1 DEF AnthropicBlocks
  <2>3. CASE m.role = "user"
    <3>1. Carried(m) = PartBlocks(m)
      BY <1>0, <2>3, CarriedIs
    <3> QED BY <1>1, <2>3, <3>1 DEF AnthropicBlocks
  <2> QED BY <1>0, <2>1, <2>2, <2>3, MessageIs
<1> QED BY <1>2, <1>3, MessageAppended

-----------------------------------------------------------------------------
(***************************************************************************)
(* The walk over the client's messages.                                    *)
(***************************************************************************)

\* What the request's invariants rest on: the walk's own bounds, and that the
\* turns say what the messages did.
Walked ==
  /\ vendor \in Vendors
  /\ asked \in Seq(Messages) /\ Len(asked) <= MaxMessages
  /\ system \in 0..Len(asked)
  /\ turns \in Seq(Turned)
  /\ outcome \in {"open", "sent", "refused"}

Remembered == Spoken \in Seq(Talk) /\ Flat(turns) = CarriedOf(Spoken)

LEMMA NothingFlat == Flat(<<>>) = CarriedOf(<<>>) /\ Only(<<>>, Talk) = <<>>
<1>1. ASSUME NEW f, f = [i \in 1..0 |-> f[i]] PROVE FlattenSeq(f) = <<>>
  <2>1. f = <<>> /\ Len(<<>>) = 0
    BY <1>1, Mapped
  <2> QED BY <2>1 DEF FlattenSeq
<1> DEFINE f == [i \in 1..0 |-> <<>>[i].blocks]
           g == [i \in 1..0 |-> Carried(<<>>[i])]
<1>2. Flat(<<>>) = FlattenSeq(f) /\ CarriedOf(<<>>) = FlattenSeq(g)
  <2>1. Len(<<>>) = 0
    OBVIOUS
  <2> QED BY <2>1 DEF Flat, CarriedOf
<1>3. f = [i \in 1..0 |-> f[i]] /\ g = [i \in 1..0 |-> g[i]]
  OBVIOUS
<1> HIDE DEF f, g
<1> QED BY <1>1, <1>2, <1>3, OnlyEmpty

LEMMA RememberedInit == Init => Walked /\ Remembered
<1> SUFFICES ASSUME Init PROVE Walked /\ Remembered
  OBVIOUS
<1>1. asked = <<>> /\ turns = <<>> /\ system = 0 /\ vendor \in Vendors /\ outcome = "open"
  BY DEF Init, InitRequest
<1>2. Spoken = <<>>
  BY <1>1, NothingFlat DEF Spoken, Talk
<1>3. Remembered
  BY <1>1, <1>2, NothingFlat DEF Remembered
<1>4. Walked
  BY <1>1, RequestAssumption DEF Walked
<1> QED BY <1>3, <1>4

\* One more message of the client's.
LEMMA Walks ==
  ASSUME Walked, NEW m \in Messages, Walk(m)
  PROVE  /\ asked' \in Seq(Messages) /\ Len(asked') <= MaxMessages /\ Len(asked') = Len(asked) + 1
         /\ UNCHANGED <<vendor, outcome>>
         /\ Spoken' = IF m \in Talk THEN Append(Spoken, m) ELSE Spoken
<1>1. asked' = Append(asked, m) /\ Len(asked) < MaxMessages /\ UNCHANGED <<vendor, outcome>>
  BY DEF Walk
<1>2. asked \in Seq(Messages) /\ Len(asked) \in Nat /\ MaxMessages \in Nat
  BY RequestAssumption, LenProperties DEF Walked
<1>3. /\ asked' \in Seq(Messages) /\ Len(asked') = Len(asked) + 1
  BY <1>1, <1>2, AppendProperties
<1>4. Only(Append(asked, m), Talk) =
        IF m \in Talk THEN Append(Only(asked, Talk), m) ELSE Only(asked, Talk)
  BY <1>2, OnlyAppend
<1>5. Spoken = Only(asked, Talk) /\ Spoken' = Only(asked', Talk)
  BY DEF Spoken, Talk
<1> QED BY <1>1, <1>2, <1>3, <1>4, <1>5

LEMMA SpokenKept ==
  ASSUME Walked, Remembered, NEW m \in Talk, Walk(m), UNCHANGED system,
         turns' \in Seq(Turned), Flat(turns') = Flat(turns) \o Carried(m)
  PROVE  Walked' /\ Remembered'
<1>0. m \in Messages
  BY DEF Talk
<1>1. /\ asked' \in Seq(Messages) /\ Len(asked') <= MaxMessages /\ Len(asked') = Len(asked) + 1
      /\ UNCHANGED <<vendor, outcome>> /\ Spoken' = Append(Spoken, m)
  BY <1>0, Walks
<1>2. Walked'
  <2>1. system' \in 0..Len(asked')
    <3>1. Len(asked) \in Nat /\ system \in 0..Len(asked)
      BY LenProperties DEF Walked
    <3> QED BY <1>1, <3>1
  <2> QED BY <1>1, <2>1 DEF Walked
<1>3. CarriedOf(Spoken)' = CarriedOf(Append(Spoken, m))
  BY <1>1 DEF CarriedOf, Carried, Dropped
<1>5. \A k \in Talk : Carried(k) \in Seq(AllBlocks)
  BY BlocksTyped DEF Walked
<1>6. CarriedOf(Append(Spoken, m)) = CarriedOf(Spoken) \o Carried(m)
  BY <1>5, FlatCarried DEF Remembered
<1>7. Append(Spoken, m) \in Seq(Talk)
  BY AppendProperties DEF Remembered
<1> QED BY <1>1, <1>2, <1>3, <1>6, <1>7 DEF Remembered

LEMMA RequestStays ==
  ASSUME Walked, Remembered, UNCHANGED <<vendor, asked, system, turns>>,
         outcome' \in {"open", "sent", "refused"}
  PROVE  Walked' /\ Remembered'
  BY DEF Walked, Remembered, Spoken, CarriedOf, Carried, Dropped, Flat

LEMMA SystemHeard == Walked /\ Remembered /\ SystemMessage => Walked' /\ Remembered'
<1> SUFFICES ASSUME Walked, Remembered, SystemMessage PROVE Walked' /\ Remembered'
  OBVIOUS
<1>1. PICK m \in Messages :
        m.role = "system" /\ Walk(m) /\ system' = system + Len(m.parts) /\ UNCHANGED turns
  BY DEF SystemMessage
<1>2. /\ asked' \in Seq(Messages) /\ Len(asked') <= MaxMessages /\ Len(asked') = Len(asked) + 1
      /\ UNCHANGED <<vendor, outcome, Spoken>>
  BY <1>1, Walks DEF Talk
<1>3. Walked'
  <2>1. Len(m.parts) \in 0..1
    <3>1. m.parts \in {<<>>, <<"text">>}
      BY <1>1, MessageIs
    <3> QED BY <3>1, Tuples
  <2>2. Len(asked) \in Nat /\ system \in 0..Len(asked)
    BY LenProperties DEF Walked
  <2>3. system' \in 0..Len(asked')
    <3> DEFINE n == Len(m.parts)
    <3>1. system' = system + n /\ n \in 0..1 /\ Len(asked') = Len(asked) + 1
      BY <1>1, <1>2, <2>1
    <3> HIDE DEF n
    <3> QED BY <2>2, <3>1
  <2> QED BY <1>1, <1>2, <2>3 DEF Walked
<1>4. CarriedOf(Spoken)' = CarriedOf(Spoken)
  BY <1>2 DEF CarriedOf, Carried, Dropped
<1>5. Flat(turns') = Flat(turns)
  BY <1>1
<1> QED BY <1>2, <1>3, <1>4, <1>5 DEF Remembered

LEMMA CodexHeard == Walked /\ Remembered /\ CodexMessage => Walked' /\ Remembered'
<1> SUFFICES ASSUME Walked, Remembered, CodexMessage PROVE Walked' /\ Remembered'
  OBVIOUS
<1>1. PICK m \in Messages :
    /\ vendor = "codex" /\ m.role # "system" /\ Walk(m)
    /\ turns' =
         CASE m.role = "tool" ->
                IF m.id = NoId THEN turns
                ELSE Append(turns, Turn("tool", <<Block("answer", m.id)>>))
           [] m.role = "assistant" ->
                LET parts == CodexParts(m)
                    calls == FunctionCalls(m.calls)
                IN  (IF parts = <<>> THEN turns ELSE Append(turns, Turn("assistant", parts)))
                      \o [i \in 1..Len(calls) |-> Turn("assistant", <<calls[i]>>)]
           [] OTHER ->
                IF CodexParts(m) = <<>> THEN turns
                ELSE Append(turns, Turn("user", CodexParts(m)))
    /\ UNCHANGED system
  BY DEF CodexMessage
<1>2. m \in Talk /\ turns \in Seq(Turned)
  BY <1>1 DEF Talk, Walked
<1>3. turns' \in Seq(Turned) /\ Flat(turns') = Flat(turns) \o Carried(m)
  BY <1>1, <1>2, CodexSays
<1> QED BY <1>1, <1>2, <1>3, SpokenKept

LEMMA ClaudeHeard == Walked /\ Remembered /\ AnthropicMessage => Walked' /\ Remembered'
<1> SUFFICES ASSUME Walked, Remembered, AnthropicMessage PROVE Walked' /\ Remembered'
  OBVIOUS
<1>1. PICK m \in Messages :
    /\ vendor = "claude" /\ m.role # "system" /\ Walk(m)
    /\ turns' =
         CASE m.role = "tool" ->
                AppendMessage(turns, "user", <<Block("answer", m.id)>>)
           [] m.role = "assistant" ->
                AppendMessage(turns, "assistant",
                  TextAndToolBlocks(AnthropicBlocks(m)) \o ToolUseBlocks(m.calls))
           [] OTHER -> AppendMessage(turns, "user", AnthropicBlocks(m))
    /\ UNCHANGED system
  BY DEF AnthropicMessage
<1>2. m \in Talk /\ turns \in Seq(Turned)
  BY <1>1 DEF Talk, Walked
<1>3. turns' \in Seq(Turned) /\ Flat(turns') = Flat(turns) \o Carried(m)
  BY <1>1, <1>2, ClaudeHears
<1> QED BY <1>1, <1>2, <1>3, SpokenKept

LEMMA RememberedNext == Walked /\ Remembered /\ [Next]_vars => Walked' /\ Remembered'
<1> SUFFICES ASSUME Walked, Remembered, [Next]_vars PROVE Walked' /\ Remembered'
  OBVIOUS
<1>1. ASSUME UNCHANGED <<vendor, asked, system, turns, outcome>>
      PROVE  Walked' /\ Remembered'
  BY <1>1, RequestStays DEF Walked
<1>2. CASE SystemMessage
  BY <1>2, SystemHeard
<1>3. CASE CodexMessage
  BY <1>3, CodexHeard
<1>4. CASE AnthropicMessage
  BY <1>4, ClaudeHeard
<1>5. CASE Refuse
  BY <1>5, RequestStays DEF Refuse
<1>6. CASE Send
  <2>1. /\ UNCHANGED vendor /\ asked' = <<>> /\ system' = 0 /\ turns' = <<>>
        /\ outcome' = "sent"
    BY <1>6 DEF Send
  <2>2. Spoken' = <<>>
    BY <2>1, NothingFlat DEF Spoken, Talk
  <2>3. CarriedOf(Spoken)' = CarriedOf(<<>>)
    BY <2>1, <2>2 DEF CarriedOf, Carried, Dropped
  <2>4. Walked'
    <3>1. <<>> \in Seq(Messages) /\ <<>> \in Seq(Turned) /\ Len(<<>>) = 0
      BY EmptySeq
    <3> QED BY <2>1, <3>1, RequestAssumption DEF Walked
  <2>5. Spoken' \in Seq(Talk)
    BY <2>2, EmptySeq
  <2>6. Flat(turns') = CarriedOf(Spoken)'
    BY <2>1, <2>3, NothingFlat
  <2> QED BY <2>4, <2>5, <2>6 DEF Remembered
<1>7. CASE Begin
  BY <1>1, <1>7 DEF Begin
<1>8. CASE Codex
  BY <1>1, <1>8 DEF Codex, CodexDelta, CodexCompleted, CodexFailed, CodexItemAdded,
    CodexItemDone, request
<1>9. CASE Claude
  BY <1>1, <1>9 DEF Claude, BlockDelta, BlockStop, MessageStop, ErrorEvent, BlockStart,
    SearchResult, request
<1>10. CASE Bridge \/ Reader
  BY <1>1, <1>10 DEF Bridge, Reader, StreamEnds, StreamBreaks, BridgeEnds, Take, EndSeen,
    HangUp, Close, request
<1>11. CASE UNCHANGED vars
  BY <1>1, <1>11 DEF vars
<1> QED BY <1>2, <1>3, <1>4, <1>5, <1>6, <1>7, <1>8, <1>9, <1>10, <1>11 DEF Next, NextRequest

LEMMA RememberedAlways == Spec => [](Walked /\ Remembered)
  BY RememberedInit, RememberedNext, PTL DEF Spec

\* The conversation that goes upstream is the client's: for a conversation of
\* any length, of any messages in any order, whichever of them are merged.
THEOREM HistoryAlwaysKept == Spec => []HistoryKept
<1>1. Walked /\ Remembered /\ TurnsAlternate => HistoryKept
  BY DEF HistoryKept, Remembered, Flat, CarriedOf
<1> QED BY <1>1, RememberedAlways, TurnsAlwaysAlternate, PTL

\* Every variable of the bridge, the conversation included, always holds a
\* value of its type.
THEOREM BridgeTypeCorrect == Spec => []TypeOK
<1>1. ASSUME Walked, Wished PROVE TypeOKRequest
  <2>1. system \in 0..MaxMessages
    <3>1. Len(asked) \in Nat /\ Len(asked) <= MaxMessages /\ system \in 0..Len(asked)
      BY <1>1, LenProperties DEF Walked
    <3> QED BY <3>1, RequestAssumption
  <2>2. ASSUME NEW i \in DOMAIN turns
        PROVE  /\ turns[i].role \in Sides /\ turns[i].blocks # <<>>
               /\ \A j \in DOMAIN turns[i].blocks : turns[i].blocks[j] \in AllBlocks
    <3>1. turns[i] \in Turned
      BY <1>1, <2>2, LenProperties, ElementOfSeq DEF Walked
    <3>2. turns[i].role \in Sides /\ turns[i].blocks \in Seq(AllBlocks) /\ turns[i].blocks # <<>>
      BY <3>1 DEF Turned
    <3> QED BY <3>2, LenProperties, ElementOfSeq
  <2> QED BY <1>1, <2>1, <2>2 DEF TypeOKRequest, Walked, Wished, Sides, AllBlocks
<1>2. ASSUME Typed, TypeOKRequest PROVE TypeOK
  BY <1>2 DEF Typed, TypeOK, Views
<1>3. Spec => []Wished
  BY WishedInit, WishedNext, PTL DEF Spec
<1>4. Streamed => Typed
  BY DEF Streamed
<1> QED BY <1>1, <1>2, <1>3, <1>4, StreamedAlways, RememberedAlways, PTL

=============================================================================

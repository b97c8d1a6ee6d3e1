----------------------------- MODULE ChatBridge -----------------------------
(***************************************************************************)
(* A chat completion through a protocol bridge of internal/proxy: the      *)
(* request is converted (ChatRequest), the vendor's event stream is read   *)
(* by a goroutine that rewrites it into chat completion chunks, and these  *)
(* pass an io.Pipe to the engine, which peeks for the first token          *)
(* (awaitCommit) and then relays them to the client.                       *)
(***************************************************************************)
EXTENDS ChatRequest, FiniteSets

CONSTANTS
  Calls,    \* function calls the vendor may make
  Hosted,   \* web searches or images of its own tools
  MaxText   \* bound on the pieces of text it says

ASSUME StreamAssumption ==
  /\ MaxText \in Nat /\ IsFiniteSet(Calls)
  /\ Calls \cap Hosted = {} /\ {"none", "text"} \cap (Calls \cup Hosted) = {}

(***************************************************************************)
(* The vendor's stream.                                                    *)
(***************************************************************************)
VARIABLES
  up,        \* "idle", "open", "completed", "failed", "errored", "ended", "broken"
  said,      \* pieces of text the vendor sent as it went
  item,      \* of each call or hosted tool: "none", "started", "done"
  block,     \* Claude's open content block
  stop       \* its stop_reason

(***************************************************************************)
(* The bridge and its reader.                                              *)
(***************************************************************************)
VARIABLES
  bridge,    \* "reading", "ending", "ended"
  text,      \* codexParseState.text, in pieces
  toolCalls, \* codexParseState.toolCalls
  emitted,   \* contentEmitted
  writing,   \* chunks the bridge is blocked on
  pipe,      \* "open", "eof", "error"
  reader,    \* "peek" in awaitCommit, "relay", "closing", "closed"
  view,      \* what the reader took: text, tool call deltas, finish reason
  gone,      \* the client hung up; its context is cancelled
  answer     \* what the client got: "whole", "broken", or "retried" elsewhere

upstream == <<up, said, item, block, stop>>
parsed == <<text, toolCalls, emitted>>
reading == <<reader, view, gone, answer>>
stream == <<up, said, item, block, stop, bridge, text, toolCalls, emitted,
            writing, pipe, reader, view, gone, answer>>
vars == <<vendor, wish, asked, system, turns, outcome, up, said, item,
          block, stop, bridge, text, toolCalls, emitted, writing, pipe, reader, view,
          gone, answer>>

Nothing == [text |-> 0, calls |-> <<>>, finish |-> "none"]

InitStream ==
  /\ up = "idle"
  /\ said = 0
  /\ item = [x \in Calls \cup Hosted |-> "none"]
  /\ block = "none"
  /\ stop = "none"
  /\ bridge = "reading"
  /\ text = 0
  /\ toolCalls = <<>>
  /\ emitted = FALSE
  /\ writing = <<>>
  /\ pipe = "open"
  /\ reader = "peek"
  /\ view = Nothing
  /\ gone = FALSE
  /\ answer = "none"

Init == InitRequest /\ InitStream

-----------------------------------------------------------------------------
(***************************************************************************)
(* Chunks.                                                                 *)
(***************************************************************************)
Content(n) == [kind |-> "content", text |-> n]
ToolDelta(i, c, args) == [kind |-> "call", index |-> i, id |-> c, args |-> args]
HostedEvent == [kind |-> "hosted"]
Finish(reason) == [kind |-> "finish", reason |-> reason]
Done == [kind |-> "done"]

Call(c, args) == [id |-> c, args |-> args]

Position(calls, c) == CHOOSE i \in DOMAIN calls : calls[i].id = c

\* mergeToolCall: a known id is replaced where it stands.
MergeToolCall(calls, c, args) ==
  IF \E i \in DOMAIN calls : calls[i].id = c
  THEN [calls EXCEPT ![Position(calls, c)] = Call(c, args)]
  ELSE Append(calls, Call(c, args))

\* toolCallStreamIndex: the position among the merged calls.
StreamIndex(calls, c) == Position(calls, c) - 1

\* The calls a final output lists merged one by one: S are those listed, new
\* those of them not known yet, in the order of the list.
MergeAll(calls, S, new) ==
  [i \in DOMAIN calls |-> IF calls[i].id \in S THEN Call(calls[i].id, "full") ELSE calls[i]]
    \o [i \in DOMAIN new |-> Call(new[i], "full")]

Known == {toolCalls[i].id : i \in DOMAIN toolCalls}

\* Codex: by the calls; Claude (anthropicFinishReason): by its stop reason.
FinishReason ==
  CASE stop = "tool_use" -> "tool_calls"
    [] stop = "max_tokens" -> "length"
    [] OTHER -> IF toolCalls # <<>> THEN "tool_calls" ELSE "stop"

\* The bridge handles the next event once its last chunk was taken.
Handles == bridge = "reading" /\ writing = <<>>
Emit(chunks) == writing' = chunks

\* A text delta, of either protocol.
SayDelta ==
  /\ said < MaxText /\ said' = said + 1
  /\ text' = text + 1 /\ emitted' = TRUE
  /\ Emit(<<Content(1)>>)

-----------------------------------------------------------------------------
(***************************************************************************)
(* Codex: parseCodexSSE.                                                   *)
(***************************************************************************)
CodexDelta ==
  /\ vendor = "codex" /\ up = "open" /\ Handles
  /\ SayDelta
  /\ UNCHANGED <<request, up, item, block, stop, bridge, toolCalls, pipe, reading>>

\* Mutant of CodexItemAdded: the call is streamed before its arguments are whole.
CodexItemAddedStreams(x) ==
  /\ vendor = "codex" /\ up = "open" /\ Handles /\ item[x] = "none"
  /\ item' = [item EXCEPT ![x] = "started"]
  /\ IF x \in Calls
     THEN /\ toolCalls' = MergeToolCall(toolCalls, x, "part")
          /\ Emit(<<ToolDelta(StreamIndex(toolCalls', x), x, "part")>>)
     ELSE toolCalls' = toolCalls /\ Emit(<<HostedEvent>>)
  /\ UNCHANGED <<request, up, said, block, stop, bridge, text, emitted, pipe, reading>>

\* response.output_item.added: kept, its arguments may be incomplete; only a
\* hosted tool is told to the client.
CodexItemAdded(x) ==
  /\ vendor = "codex" /\ up = "open" /\ Handles /\ item[x] = "none"
  /\ item' = [item EXCEPT ![x] = "started"]
  /\ IF x \in Calls
     THEN toolCalls' = MergeToolCall(toolCalls, x, "part") /\ UNCHANGED writing
     ELSE toolCalls' = toolCalls /\ Emit(<<HostedEvent>>)
  /\ UNCHANGED <<request, up, said, block, stop, bridge, text, emitted, pipe, reading>>

\* response.output_item.done, announced before or not.
CodexItemDone(x) ==
  /\ vendor = "codex" /\ up = "open" /\ Handles /\ item[x] # "done"
  /\ item' = [item EXCEPT ![x] = "done"]
  /\ IF x \in Calls
     THEN /\ toolCalls' = MergeToolCall(toolCalls, x, "full")
          /\ Emit(<<ToolDelta(StreamIndex(toolCalls', x), x, "full")>>)
     ELSE toolCalls' = toolCalls /\ Emit(<<HostedEvent>>)
  /\ UNCHANGED <<request, up, said, block, stop, bridge, text, emitted, pipe, reading>>

\* Mutant of CodexCompleted: the final text is added to the deltas.
CodexCompletedAppends ==
  /\ vendor = "codex" /\ up = "open" /\ Handles
  /\ up' = "completed"
  /\ \E final \in 0..MaxText : text' = text + final
  /\ \E S \in SUBSET Calls : \E new \in SetToSeqs(S \ Known) :
       toolCalls' = MergeAll(toolCalls, S, new)
  /\ UNCHANGED <<request, said, item, block, stop, bridge, emitted, writing, pipe, reading>>

\* response.completed or response.incomplete: the output it lists (all of it,
\* some or none) is merged without a chunk; its text, if it has any, replaces
\* what the deltas said, whatever that was.
CodexCompleted ==
  /\ vendor = "codex" /\ up = "open" /\ Handles
  /\ up' = "completed"
  /\ \E final \in 0..MaxText : text' = IF final > 0 THEN final ELSE text
  /\ \E S \in SUBSET Calls : \E new \in SetToSeqs(S \ Known) :
       toolCalls' = MergeAll(toolCalls, S, new)
  /\ UNCHANGED <<request, said, item, block, stop, bridge, emitted, writing, pipe, reading>>

\* response.failed and error have no item: nothing is done about them.
CodexFailed ==
  /\ vendor = "codex" /\ up = "open" /\ Handles
  /\ up' = "failed"
  /\ UNCHANGED <<request, said, item, block, stop, bridge, parsed, writing, pipe, reading>>

-----------------------------------------------------------------------------
(***************************************************************************)
(* Claude: parseAnthropicSSE.                                              *)
(***************************************************************************)

\* content_block_start; a hosted search is ingested and told at once.
BlockStart(x) ==
  /\ vendor = "claude" /\ up = "open" /\ Handles /\ block = "none"
  /\ x # "text" => item[x] = "none"
  /\ block' = x
  /\ item' = IF x = "text" THEN item ELSE [item EXCEPT ![x] = "started"]
  /\ IF x \in Hosted THEN Emit(<<HostedEvent>>) ELSE UNCHANGED writing
  /\ UNCHANGED <<request, up, said, stop, bridge, parsed, pipe, reading>>

BlockDelta ==
  /\ vendor = "claude" /\ up = "open" /\ block = "text" /\ Handles
  /\ SayDelta
  /\ UNCHANGED <<request, up, item, block, stop, bridge, toolCalls, pipe, reading>>

\* content_block_stop: the call is whole only now.
BlockStop ==
  /\ vendor = "claude" /\ up = "open" /\ block # "none" /\ Handles
  /\ block' = "none"
  /\ IF block \in Calls
     THEN /\ toolCalls' = MergeToolCall(toolCalls, block, "full")
          /\ Emit(<<ToolDelta(StreamIndex(toolCalls', block), block, "full")>>)
          /\ item' = [item EXCEPT ![block] = "done"]
     ELSE UNCHANGED <<toolCalls, writing, item>>
  /\ UNCHANGED <<request, up, said, stop, bridge, text, emitted, pipe, reading>>

\* web_search_tool_result, a block of its own.
SearchResult(x) ==
  /\ vendor = "claude" /\ up = "open" /\ Handles /\ block = "none"
  /\ x \in Hosted /\ item[x] = "started"
  /\ item' = [item EXCEPT ![x] = "done"]
  /\ Emit(<<HostedEvent>>)
  /\ UNCHANGED <<request, up, said, block, stop, bridge, parsed, pipe, reading>>

\* message_delta with a stop reason, message_stop.
MessageStop ==
  /\ vendor = "claude" /\ up = "open" /\ block = "none" /\ Handles
  /\ up' = "completed"
  /\ stop' \in {"max_tokens", IF toolCalls # <<>> THEN "tool_use" ELSE "end_turn"}
  /\ UNCHANGED <<request, said, item, block, bridge, parsed, writing, pipe, reading>>

\* Mutant of ErrorEvent: an error with a message is ignored too, as Codex's is.
ErrorEventIgnored ==
  /\ vendor = "claude" /\ up = "open" /\ Handles
  /\ up' \in {"errored", "failed"}
  /\ UNCHANGED <<request, said, item, block, stop, bridge, parsed, writing, pipe, reading>>

\* An error event with a message ends the conversion with an error; one without
\* is ignored, and the stream ends as if nothing had been.
ErrorEvent ==
  /\ vendor = "claude" /\ up = "open" /\ Handles
  /\ \/ /\ up' = "errored"
        /\ bridge' = "ended" /\ pipe' = "error"
     \/ up' = "failed" /\ UNCHANGED <<bridge, pipe>>
  /\ UNCHANGED <<request, said, item, block, stop, parsed, writing, reading>>

-----------------------------------------------------------------------------
(***************************************************************************)
(* The end of the stream.                                                  *)
(***************************************************************************)

\* The stream ends cleanly, finished or not: the finale.  Text that was never
\* streamed is sent as one chunk.
StreamEnds ==
  /\ up # "idle" /\ Handles
  /\ up' = IF up = "open" THEN "ended" ELSE up
  /\ bridge' = "ending"
  /\ Emit((IF ~emitted /\ text > 0 THEN <<Content(text)>> ELSE <<>>)
            \o <<Finish(FinishReason), Done>>)
  /\ UNCHANGED <<request, said, item, block, stop, parsed, pipe, reading>>

\* Mutant of StreamBreaks: the bridge returns without closing the pipe.
StreamBreaksOpen ==
  /\ up # "idle" /\ Handles
  /\ up' = "broken"
  /\ bridge' = "ended"
  /\ UNCHANGED <<request, said, item, block, stop, parsed, writing, pipe, reading>>

\* Reading fails: the connection broke, or the client's context is cancelled.
StreamBreaks ==
  /\ up # "idle" /\ Handles
  /\ up' = "broken"
  /\ bridge' = "ended" /\ pipe' = "error"
  /\ UNCHANGED <<request, said, item, block, stop, parsed, writing, reading>>

\* The finale was taken: the pipe is closed.
BridgeEnds ==
  /\ bridge = "ending" /\ writing = <<>>
  /\ bridge' = "ended" /\ pipe' = "eof"
  /\ UNCHANGED <<request, upstream, parsed, writing, reading>>

-----------------------------------------------------------------------------
(***************************************************************************)
(* The reader: awaitCommit, then the handler's copy loop.                  *)
(***************************************************************************)

\* inspectTTFT: content, a tool call, a finish reason or [DONE]; anything,
\* once it exceeds the peek buffer (a hosted image may).
Commits(chunk) ==
  IF chunk.kind = "hosted" THEN BOOLEAN ELSE {TRUE}

Seen(v, chunk) ==
  CASE chunk.kind = "content" -> [v EXCEPT !.text = @ + chunk.text]
    [] chunk.kind = "call" -> [v EXCEPT !.calls = Append(@, chunk)]
    [] chunk.kind = "finish" -> [v EXCEPT !.finish = chunk.reason]
    [] OTHER -> v

Take ==
  /\ reader \in {"peek", "relay"} /\ writing # <<>>
  /\ writing' = Tail(writing)
  /\ view' = Seen(view, Head(writing))
  /\ \E commit \in Commits(Head(writing)) :
       reader' = IF commit THEN "relay" ELSE reader
  /\ UNCHANGED <<request, upstream, bridge, parsed, pipe, gone, answer>>

\* Before the commit an error moves the request to another seat, an end does
\* not.
EndSeen ==
  /\ reader \in {"peek", "relay"} /\ writing = <<>> /\ pipe # "open"
  /\ reader' = "closing"
  /\ answer' = IF pipe = "eof" THEN "whole"
               ELSE IF reader = "peek" THEN "retried" ELSE "broken"
  /\ UNCHANGED <<request, upstream, bridge, parsed, writing, pipe, view, gone>>

\* The client leaves.  The copy loop drops the errors of its writes and reads
\* on; the cancelled context is what ends the stream.
HangUp ==
  /\ up # "idle" /\ ~gone /\ reader \in {"peek", "relay"}
  /\ gone' = TRUE
  /\ UNCHANGED <<request, upstream, bridge, parsed, writing, pipe, reader, view, answer>>

\* pipe.Close waits for the bridge to end.
Close ==
  /\ reader = "closing" /\ bridge = "ended"
  /\ reader' = "closed"
  /\ UNCHANGED <<request, upstream, bridge, parsed, writing, pipe, view, gone, answer>>

-----------------------------------------------------------------------------
\* callResponsesBridge, callAnthropicBridge: the vendor answers with a stream.
Begin ==
  /\ outcome = "sent" /\ up = "idle"
  /\ up' = "open"
  /\ wish' = NoTools
  /\ UNCHANGED <<vendor, asked, system, turns, outcome, said, item, block,
                 stop, bridge, parsed, writing, pipe, reading>>

Codex ==
  \/ CodexDelta \/ CodexCompleted \/ CodexFailed
  \/ \E x \in Calls \cup Hosted : CodexItemAdded(x) \/ CodexItemDone(x)

Claude ==
  \/ BlockDelta \/ BlockStop \/ MessageStop \/ ErrorEvent
  \/ \E x \in Calls \cup Hosted \cup {"text"} : BlockStart(x)
  \/ \E x \in Hosted : SearchResult(x)

Bridge == StreamEnds \/ StreamBreaks \/ BridgeEnds
Reader == Take \/ EndSeen \/ HangUp \/ Close

Next ==
  \/ NextRequest /\ UNCHANGED stream
  \/ Begin \/ Codex \/ Claude \/ Bridge \/ Reader

(***************************************************************************)
(* Goroutines are scheduled; a cancelled context fails the pending read.   *)
(***************************************************************************)
Fairness ==
  /\ WF_vars(gone /\ StreamBreaks)
  /\ WF_vars(BridgeEnds)
  /\ WF_vars(Take) /\ WF_vars(EndSeen) /\ WF_vars(Close)

Spec == Init /\ [][Next]_vars /\ Fairness

-----------------------------------------------------------------------------
(***************************************************************************)
(* Properties.                                                             *)
(***************************************************************************)
Args == {"part", "full"}

\* Every variable holds a value of its type.
TypeOK ==
  /\ TypeOKRequest
  /\ up \in {"idle", "open", "completed", "failed", "errored", "ended", "broken"}
  /\ said \in 0..MaxText /\ text \in 0..MaxText
  /\ item \in [Calls \cup Hosted -> {"none", "started", "done"}]
  /\ block \in Calls \cup Hosted \cup {"none", "text"}
  /\ bridge \in {"reading", "ending", "ended"}
  /\ toolCalls \in Seq([id : Calls, args : Args])
  /\ emitted \in BOOLEAN
  /\ pipe \in {"open", "eof", "error"}
  /\ reader \in {"peek", "relay", "closing", "closed"}
  /\ stop \in {"none", "tool_use", "max_tokens", "end_turn"}
  /\ view.finish \in {"none", "stop", "tool_calls", "length"}
  /\ gone \in BOOLEAN
  /\ answer \in {"none", "whole", "broken", "retried"}

\* buildCompletionJSON: what a client that did not ask for a stream gets.
Completion == [text |-> text, calls |-> toolCalls, finish |-> FinishReason]

\* "stream clients match aggregate": a whole stream carries the text and the
\* finish reason of the completion, and its tool calls once each, in full, at
\* their index; left out are only calls the vendor never closed itself.  Where
\* Codex lists a final text that differs from the deltas it sent, the stream has
\* the deltas, all of them and once, and the completion the final text.
StreamIsAggregate ==
  answer = "whole" =>
    /\ view.text = IF vendor = "codex" /\ said > 0 THEN said ELSE Completion.text
    /\ view.finish = Completion.finish
    /\ \A i \in DOMAIN view.calls :
         LET d == view.calls[i]
         IN  /\ Completion.calls[d.index + 1] = Call(d.id, d.args)
             /\ d.args = "full"
             /\ \A j \in DOMAIN view.calls : view.calls[j].index = d.index => i = j
    /\ \A c \in Calls :
         item[c] = "done" => \E i \in DOMAIN view.calls : view.calls[i].id = c

\* A stream that was cut or ended in an error the bridge understands (a Claude
\* error with a message) is never passed off as whole, and one that was not is
\* never called broken, wherever the reader was.  The client is moved to another
\* seat only while it has seen nothing of the first one's answer.
CutIsTold ==
  /\ answer = "whole" => up \notin {"broken", "errored"}
  /\ answer \in {"broken", "retried"} => up \in {"broken", "errored"}
  /\ answer = "retried" => view = Nothing

\* Once the client is gone the bridge and its connection end, wherever they
\* are, although nobody looks at the errors of the writes: nothing is left that
\* reads the vendor's stream or waits on the pipe.
Freed == gone ~> (bridge = "ended" /\ reader = "closed")

=============================================================================

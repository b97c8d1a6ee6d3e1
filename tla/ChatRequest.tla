----------------------------- MODULE ChatRequest -----------------------------
(***************************************************************************)
(* A chat completion rewritten for a seat that speaks another protocol:    *)
(* chatToCodexResponses and chatToAnthropicMessages of internal/proxy walk *)
(* the client's messages one by one.  A message is its role, the kinds of  *)
(* its content parts, the ids of its tool calls and the call it answers.   *)
(***************************************************************************)
EXTENDS Lists, SequencesExt

CONSTANTS
  Ids,          \* ids of tool calls
  NoId,         \* a blank id
  MaxMessages   \* bound on the conversation

ASSUME RequestAssumption == NoId \notin Ids /\ MaxMessages \in Nat

Vendors == {"codex", "claude"}

VARIABLES
  vendor,     \* whose protocol the picked seat speaks
  wish,       \* the request's tools, its tool_choice and llms.web_search
  asked,      \* the client's messages walked so far
  system,     \* how many texts went into instructions / system
  turns,      \* what goes upstream: items for Codex, turns for Claude
  outcome     \* of the conversion: "open", "sent", "refused" with a 400

request == <<vendor, wish, asked, system, turns, outcome>>

-----------------------------------------------------------------------------
(***************************************************************************)
(* parseChatContentParts and the two mappings of its parts.                *)
(***************************************************************************)
Contents == {<<>>, <<"text">>, <<"image">>, <<"text", "image">>, <<"image", "text">>}

Message(role, parts, calls, id) ==
  [role |-> role, parts |-> parts, calls |-> calls, id |-> id]

AnyId == Ids \cup {NoId}

\* The calls of one message: two of them have two ids.
CallLists == {<<>>} \cup {<<i>> : i \in AnyId} \cup {p \in AnyId \X AnyId : p[1] # p[2]}

\* What a client may send; every other role counts as the user's.
Messages ==
  {Message("system", c, <<>>, NoId) : c \in {<<>>, <<"text">>}}
    \cup {Message("user", c, <<>>, NoId) : c \in Contents}
    \cup {Message("tool", <<"text">>, <<>>, i) : i \in AnyId}
    \cup {Message("assistant", c, calls, NoId) : c \in Contents, calls \in CallLists}

Block(kind, id) == [kind |-> kind, id |-> id]

\* Every block of these kinds.
Blocks(kinds) == {Block(kind, id) : kind \in kinds, id \in AnyId}

\* The texts come first, then the images, however the client mixed them.
Ordered(parts) == Only(parts, {"text"}) \o Only(parts, {"image"})

PartBlocks(m) ==
  [i \in 1..Len(Ordered(m.parts)) |-> Block(Ordered(m.parts)[i], NoId)]

\* chatContentToCodexParts: an assistant's images are left out.
CodexParts(m) ==
  IF m.role = "assistant"
  THEN Only(PartBlocks(m), Blocks({"text"}))
  ELSE PartBlocks(m)

AnthropicBlocks(m) == PartBlocks(m)

\* filterAnthropicTextAndToolBlocks.
TextAndToolBlocks(blocks) ==
  Only(blocks, Blocks({"text", "call"}))

\* responsesFunctionCallsFromToolCalls: a call without an id is left out.
FunctionCalls(calls) ==
  LET named == Only(calls, Ids)
  IN  [i \in 1..Len(named) |-> Block("call", named[i])]

\* anthropicToolUseBlocks keeps it.
ToolUseBlocks(calls) == [i \in 1..Len(calls) |-> Block("call", calls[i])]

Turn(role, blocks) == [role |-> role, blocks |-> blocks]

\* Mutant of AppendMessage: the last turn is replaced, not extended.
AppendMessageReplaces(ts, role, blocks) ==
  IF blocks = <<>> THEN ts
  ELSE IF ts # <<>> /\ Last(ts).role = role
       THEN Append(Front(ts), Turn(role, blocks))
       ELSE Append(ts, Turn(role, blocks))

\* appendAnthropicMessage: one turn takes what one side says in a row.
AppendMessage(ts, role, blocks) ==
  IF blocks = <<>> THEN ts
  ELSE IF ts # <<>> /\ Last(ts).role = role
       THEN Append(Front(ts), Turn(role, Last(ts).blocks \o blocks))
       ELSE Append(ts, Turn(role, blocks))

-----------------------------------------------------------------------------
(***************************************************************************)
(* Tools.  "fn" stands for the client's own functions.                     *)
(***************************************************************************)
Tools == {"fn", "web_search", "generate_image"}
ToolChoices == {"absent", "none", "auto", "required"} \cup Tools

\* mapClientToolsToCodex.
CodexTools(w) == IF w.search = "disabled" THEN w.tools \ {"web_search"} ELSE w.tools

\* Mutant of AnthropicTools: an image tool is left out like a disabled search.
AnthropicToolsNoImages(w) == w.tools \ {"web_search", "generate_image"}

\* mapClientToolsToAnthropic.  An image tool is a custom tool there.
AnthropicTools(w) ==
  IF w.search = "disabled" THEN w.tools \ {"web_search"} ELSE w.tools

\* mapToolChoice; "auto" is left to the vendor.
CodexChoice(w, sent) ==
  CASE sent = {} -> "absent"
    [] w.choice = "required" ->
         IF {"web_search", "generate_image"} \subseteq sent THEN "required"
         ELSE IF "generate_image" \in sent THEN "generate_image"
         ELSE IF "web_search" \in sent THEN "web_search" ELSE "required"
    [] w.choice = "auto" -> "absent"
    [] OTHER -> w.choice

\* mapAnthropicToolChoice.
AnthropicChoice(w, sent) ==
  CASE sent = {} -> "absent"
    [] w.choice = "required" -> IF "web_search" \in sent THEN "web_search" ELSE "required"
    [] OTHER -> w.choice

SentTools == IF vendor = "codex" THEN CodexTools(wish) ELSE AnthropicTools(wish)
SentChoice ==
  IF vendor = "codex" THEN CodexChoice(wish, SentTools)
                      ELSE AnthropicChoice(wish, SentTools)

Wishes ==
  {w \in [tools : SUBSET Tools, choice : ToolChoices, search : {"live", "disabled"}] :
     w.choice \in Tools => w.choice \in w.tools}

NoTools == [tools |-> {}, choice |-> "absent", search |-> "live"]

-----------------------------------------------------------------------------
InitRequest ==
  /\ vendor \in Vendors
  /\ wish = NoTools
  /\ asked = <<>>
  /\ system = 0
  /\ turns = <<>>
  /\ outcome = "open"

Walk(m) ==
  /\ outcome = "open" /\ Len(asked) < MaxMessages
  /\ asked' = Append(asked, m)
  /\ UNCHANGED <<vendor, wish, outcome>>

\* An empty system text is skipped.
SystemMessage ==
  \E m \in Messages :
    /\ m.role = "system" /\ Walk(m)
    /\ system' = system + Len(m.parts)
    /\ UNCHANGED turns

\* Items of the Responses API: parts, then calls; an answer needs its id.
CodexMessage ==
  \E m \in Messages :
    /\ vendor = "codex" /\ m.role # "system" /\ Walk(m)
    /\ turns' =
         CASE m.role = "tool" ->
                IF m.id = NoId THEN turns
                ELSE Append(turns, Turn("tool", <<Block("answer", m.id)>>))
           [] m.role = "assistant" ->
                LET said == CodexParts(m)
                    calls == FunctionCalls(m.calls)
                IN  (IF said = <<>> THEN turns ELSE Append(turns, Turn("assistant", said)))
                      \o [i \in 1..Len(calls) |-> Turn("assistant", <<calls[i]>>)]
           [] OTHER ->
                IF CodexParts(m) = <<>> THEN turns
                ELSE Append(turns, Turn("user", CodexParts(m)))
    /\ UNCHANGED system

\* Turns of the Messages API: an answer is the user's, whatever its id.
AnthropicMessage ==
  \E m \in Messages :
    /\ vendor = "claude" /\ m.role # "system" /\ Walk(m)
    /\ turns' =
         CASE m.role = "tool" ->
                AppendMessage(turns, "user", <<Block("answer", m.id)>>)
           [] m.role = "assistant" ->
                AppendMessage(turns, "assistant",
                  TextAndToolBlocks(AnthropicBlocks(m)) \o ToolUseBlocks(m.calls))
           [] OTHER -> AppendMessage(turns, "user", AnthropicBlocks(m))
    /\ UNCHANGED system

\* A conversation without a turn is refused before anything is sent.
Refuse ==
  /\ outcome = "open" /\ turns = <<>>
  /\ outcome' = "refused"
  /\ UNCHANGED <<vendor, wish, asked, system, turns>>

\* The tools are mapped last; the request leaves, and with it all but them.
Send ==
  /\ outcome = "open" /\ turns # <<>>
  /\ outcome' = "sent"
  /\ wish' \in Wishes
  /\ asked' = <<>> /\ system' = 0 /\ turns' = <<>>
  /\ UNCHANGED vendor

NextRequest == SystemMessage \/ CodexMessage \/ AnthropicMessage \/ Refuse \/ Send

-----------------------------------------------------------------------------
(***************************************************************************)
(* Properties.                                                             *)
(***************************************************************************)
TypeOKRequest ==
  /\ vendor \in Vendors
  /\ wish \in Wishes
  /\ asked \in Seq(Messages) /\ Len(asked) <= MaxMessages
  /\ system \in 0..MaxMessages
  /\ \A i \in DOMAIN turns :
       /\ turns[i].role \in {"user", "assistant", "tool"}
       /\ turns[i].blocks # <<>>
       /\ \A j \in DOMAIN turns[i].blocks :
            turns[i].blocks[j] \in Blocks({"text", "image", "call", "answer"})
  /\ outcome \in {"open", "sent", "refused"}

\* A message's parts as the client wrote them.
Written(m) == [i \in 1..Len(m.parts) |-> Block(m.parts[i], NoId)]

ImageFirst(m) ==
  \E i, j \in 1..Len(m.parts) : i < j /\ m.parts[i] = "image" /\ m.parts[j] = "text"

\* What a message says, before a protocol leaves anything out: its parts as they
\* were written, then its calls; only an image before a text goes behind it.
Said(m) ==
  IF m.role = "tool" THEN <<Block("answer", m.id)>>
  ELSE (IF ImageFirst(m)
        THEN Only(Written(m), Blocks({"text"})) \o Only(Written(m), Blocks({"image"}))
        ELSE Written(m))
         \o ToolUseBlocks(m.calls)

\* What a protocol cannot carry: an assistant's images, and for Codex a call
\* or an answer without an id.
Dropped(m) ==
  (IF m.role = "assistant" THEN Blocks({"image"}) ELSE {})
    \cup (IF vendor = "codex" THEN {Block("call", NoId), Block("answer", NoId)} ELSE {})

Carried(m) ==
  Only(Said(m), Blocks({"text", "image", "call", "answer"}) \ Dropped(m))

Spoken == Only(asked, {m \in Messages : m.role # "system"})

\* Claude refuses two turns of one role in a row: whatever the client sent, the
\* merging of messages leaves user and assistant turns that alternate.
TurnsAlternate ==
  vendor = "claude" => \A i \in 1..(Len(turns) - 1) : turns[i].role # turns[i + 1].role

\* The upstream conversation is the client's: everything the protocol carries,
\* once and in order, whichever messages were merged, save that an image before a
\* text of its message is moved behind it; and Claude's turns alternate.
HistoryKept ==
  /\ FlattenSeq([i \in 1..Len(turns) |-> turns[i].blocks])
       = FlattenSeq([i \in 1..Len(Spoken) |-> Carried(Spoken[i])])
  /\ TurnsAlternate

\* A tool choice the vendor is sent names a tool it is sent, unless the client
\* forces the web search it disabled.
ChoiceIsOffered ==
  SentChoice \in Tools =>
    SentChoice \in SentTools \/ (wish.choice = "web_search" /\ wish.search = "disabled")

=============================================================================

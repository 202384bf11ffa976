------------------------- MODULE ProviderStreams -------------------------
(***************************************************************************)
(* The streams of the providers and the adapters that turn them into core  *)
(* events: Anthropic (protocol/anthropic/adapter.go, convertEvent), Chat   *)
(* Completions (protocol/chat/adapter.go, ToCoreStream), Gemini            *)
(* (protocol/google/adapter.go, ToCoreStream), and the streams made out of *)
(* a whole answer (adapter_dispatch.go: coreResponseToCoreStream, and      *)
(* coreResponseToStreamEvents for a request with an image). The events go  *)
(* to the loop of ResponsesStream.                                         *)
(*                                                                         *)
(* The provider sends when the events of its last chunk have been          *)
(* translated. The goroutines are joined by channels that keep the order   *)
(* and each of them is sequential, so what the client receives does not    *)
(* depend on how they are scheduled (StreamPipeline is about that).        *)
(*                                                                         *)
(* A provider numbers the pieces of text it sends; `given` is what it      *)
(* meant them for. `habits` collects what it did that the adapters are not *)
(* ready for: the properties say how far each of them still holds then.    *)
(***************************************************************************)
EXTENDS ResponsesStream, Flattening

CONSTANTS
    Protocols,    \* the protocols of this instance
    MaxChunks,    \* bound on the chunks of a stream
    MaxBlocks     \* bound on its blocks: content blocks, calls

ASSUME ProviderAssumption ==
    /\ Protocols \subseteq {"anthropic", "chat", "google", "whole", "image"}
    /\ MaxChunks \in Nat /\ MaxBlocks \in Nat \ {0}

VARIABLES
    protocol,   \* the provider's protocol
    provider,   \* where the provider is in its stream
    conv,       \* the adapter's state for this stream
    given,      \* ghost: what the provider sent, by what it is for
    habits      \* ghost: what it did out of the ordinary

providerVars == <<protocol, provider, conv, given, habits>>
vars == <<responseVars, providerVars>>

BlockKinds == {"text", "tool_use", "thinking", "server_tool_use", "web_search_tool_result"}
Habits == {"server_input", "status_in_text", "text_again", "late_reasoning", "unnamed_call", "same_snapshot",
           "call_with_image"}

\* A provider's progress: what it may send next, the block or call it is in,
\* how many chunks and pieces it has sent.
Provider == [phase : {"start", "open", "stopped", "closed", "broken"}, block : BlockKinds \cup {"none"},
             index : Nat, chunks : Nat, pieces : Nat]

AnthropicConv == [blockTypes |-> <<>>, suppressText |-> {}, blockSignatures |-> {}]
ChatConv == [started |-> FALSE, blockIndex |-> 0, hasReasoning |-> FALSE, reasonIndex |-> 0,
             toolCallIdx |-> 0, callStarted |-> {}, toolCallSlot |-> <<>>]
GoogleConv == [started |-> FALSE, prevText |-> <<>>]

Init ==
    /\ InitResponse
    /\ protocol \in Protocols
    /\ provider = [phase |-> "start", block |-> "none", index |-> 0, chunks |-> 0, pieces |-> 0]
    /\ conv = CASE protocol = "anthropic" -> AnthropicConv
                [] protocol = "chat" -> ChatConv
                [] OTHER -> GoogleConv
    /\ given = [text |-> <<>>, reasoning |-> <<>>, calls |-> <<>>, signed |-> {}]
    /\ habits = {}

Piece == <<provider.pieces + 1>>
Ready(p) == protocol = p /\ core = <<>> /\ provider.phase \notin {"closed", "broken"}
MoreChunks == provider.chunks < MaxChunks
Quiet == UNCHANGED <<output, maps, sent, protocol>>

Gave(field) == given' = [given EXCEPT ![field] = @ \o Piece]
GaveCall(n) == given' = [given EXCEPT !.calls[n] = @ \o Piece]

-----------------------------------------------------------------------------
(* Anthropic *)

Sends(phase, block, index, pieces) ==
    provider' = [provider EXCEPT !.phase = phase, !.block = block, !.index = index,
                                 !.chunks = @ + 1, !.pieces = @ + pieces]

MessageStart ==
    /\ Ready("anthropic") /\ provider.phase = "start"
    /\ Sends("open", "none", 0, 0)
    /\ core' = <<Core("created"), Core("item_added")>>
    /\ Quiet /\ UNCHANGED <<conv, given, habits>>

\* What a block of this kind is announced as. The two kinds of the server's own
\* tools are not forwarded.
Announced(kind, i) ==
    CASE kind = "text" -> <<BlockStarted(i, "text")>>
      [] kind = "tool_use" -> <<BlockStarted(i, "tool_use"), Core("item_added")>>
      [] kind = "thinking" -> <<BlockStarted(i, "reasoning")>>
      [] OTHER -> <<>>

ContentBlockStart ==
    /\ Ready("anthropic") /\ MoreChunks
    /\ provider.phase = "open" /\ provider.block = "none" /\ provider.index < MaxBlocks
    /\ \E kind \in BlockKinds :
         /\ Sends("open", kind, provider.index, 0)
         /\ conv' = [conv EXCEPT !.blockTypes = With(@, provider.index, kind)]
         /\ core' = Announced(kind, provider.index)
         /\ given' = IF kind = "tool_use" THEN [given EXCEPT !.calls = Append(@, <<>>)] ELSE given
    /\ Quiet /\ UNCHANGED habits

\* The deltas a provider sends in a block of a kind. "status" is a text that
\* says "Search results for query: ...".
DeltaTypes(kind) ==
    CASE kind = "text" -> {"text_delta", "status"}
      [] kind \in {"tool_use", "server_tool_use"} -> {"input_json_delta"}
      [] kind = "thinking" -> {"thinking_delta", "signature_delta"}
      [] OTHER -> {}

\* The switch on a delta, in its order. A signature comes in a thinking block,
\* so the third case takes it, with an empty text; a search status suppresses
\* the end of its block.
ContentBlockDelta ==
    /\ Ready("anthropic") /\ MoreChunks /\ provider.block # "none"
    /\ Sends("open", provider.block, provider.index, 1)
    /\ \E type \in DeltaTypes(provider.block) :
       LET i == provider.index
           kind == conv.blockTypes[i]
           hasText == i \in DOMAIN contentText /\ contentText[i] # <<>>
       IN /\ core' = IF type = "status" THEN <<>>
                     ELSE IF type = "text_delta" \/ kind = "text" THEN <<Delta("text_delta", i, Piece)>>
                     ELSE IF type = "input_json_delta" \/ kind = "tool_use"
                          THEN <<Delta("args_delta", i, Piece)>>
                     ELSE IF type = "thinking_delta" THEN <<Delta("text_delta", i, Piece)>>
                     ELSE IF kind = "thinking" THEN <<Delta("text_delta", i, <<>>)>>
                     ELSE <<>>
          /\ conv' = CASE type = "status" -> [conv EXCEPT !.suppressText = @ \cup {i}]
                       [] type = "signature_delta" /\ kind # "thinking"
                            -> [conv EXCEPT !.blockSignatures = @ \cup {i}]
                       [] OTHER -> conv
          /\ CASE type = "text_delta" -> Gave("text")
               [] type = "thinking_delta" -> Gave("reasoning")
               [] type = "input_json_delta" /\ kind = "tool_use" -> GaveCall(Len(given.calls))
               [] type = "signature_delta" -> given' = [given EXCEPT !.signed = @ \cup {provider.index}]
               [] OTHER -> UNCHANGED given
          /\ habits' = IF \/ type = "status" /\ hasText
                          \/ type = "text_delta" /\ i \in conv.suppressText
                       THEN habits \cup {"status_in_text"}
                       ELSE IF kind = "server_tool_use" THEN habits \cup {"server_input"} ELSE habits
    /\ Quiet

ContentBlockStop ==
    /\ Ready("anthropic") /\ provider.block # "none"
    /\ Sends("open", "none", provider.index + 1, 0)
    /\ IF provider.index \in conv.suppressText
       THEN /\ core' = <<>>
            /\ conv' = [conv EXCEPT !.suppressText = @ \ {provider.index}]
       ELSE /\ core' = IF provider.index \in conv.blockSignatures
                     THEN <<SignedBlockDone(provider.index)>> ELSE <<BlockDone(provider.index)>>
            /\ UNCHANGED conv
    /\ Quiet /\ UNCHANGED <<given, habits>>

MessageDelta ==
    /\ Ready("anthropic") /\ provider.phase = "open" /\ provider.block = "none"
    /\ Sends("stopped", "none", provider.index, 0)
    /\ core' = <<Core("in_progress")>>
    /\ Quiet /\ UNCHANGED <<conv, given, habits>>

MessageStop ==
    /\ Ready("anthropic") /\ provider.phase = "stopped"
    /\ Sends("closed", "none", provider.index, 0)
    /\ core' = <<Core("completed")>>
    /\ Quiet /\ UNCHANGED <<conv, given, habits>>

\* An error event, or a failure to read the stream.
Breaks ==
    /\ Ready("anthropic")
    /\ Sends("broken", provider.block, provider.index, 0)
    /\ core' = <<Core("failed")>>
    /\ Quiet /\ UNCHANGED <<conv, given, habits>>

-----------------------------------------------------------------------------
(* Chat Completions: one chunk goes through the same checks in order, each of
   which may change the state and emit events. *)

\* What the checks have come to so far: the state, the events, and the chunk.
Then(r, test, state, events) ==
    IF test THEN [r EXCEPT !.st = state, !.out = @ \o events] ELSE r

ChatStart(r) ==
    LET st == r.st
        thinks == r.chunk.reasoning # <<>>
    IN Then(r, ~st.started /\ r.chunk.role,
            [st EXCEPT !.started = TRUE, !.hasReasoning = @ \/ thinks,
                       !.reasonIndex = IF thinks THEN st.blockIndex ELSE @],
            <<BlockStarted(st.blockIndex, IF thinks THEN "reasoning" ELSE "text")>>)

\* Reasoning after a text block has begun: a new block. The block that is ended
\* is the new one, not the text block.
ChatLateReasoning(r) ==
    LET i == r.st.blockIndex + 1
    IN Then(r, r.chunk.reasoning # <<>> /\ ~r.st.hasReasoning,
            [r.st EXCEPT !.hasReasoning = TRUE, !.reasonIndex = i, !.blockIndex = i],
            <<BlockDone(i), BlockStarted(i, "reasoning")>>)

ChatReasoning(r) ==
    Then(r, r.chunk.reasoning # <<>>, r.st,
         <<Delta("text_delta", r.st.reasonIndex, r.chunk.reasoning)>>)

ChatTextAfterReasoning(r) ==
    LET i == r.st.reasonIndex + 1
    IN Then(r, r.chunk.content # <<>> /\ r.st.hasReasoning,
            [r.st EXCEPT !.hasReasoning = FALSE, !.blockIndex = i],
            <<BlockDone(r.st.reasonIndex), BlockStarted(i, "text")>>)

ChatContent(r) ==
    Then(r, r.chunk.content # <<>>, r.st,
         <<Delta("text_delta", r.st.blockIndex, r.chunk.content)>>)

\* Mutant: the next slot is always counted from the current block.
ChatSlotOfBlock(r) ==
    LET st == r.st
    IN Then(r, r.chunk.call # "none" /\ r.chunk.pos \notin DOMAIN st.toolCallSlot,
            [st EXCEPT !.toolCallSlot = With(@, r.chunk.pos, st.blockIndex + 1),
                       !.toolCallIdx = st.blockIndex + 2], <<>>)

\* A call gets the next slot when it is first seen; the first slot is the one
\* after the current block, wherever that moves later.
ChatSlot(r) ==
    LET st == r.st
        next == IF st.toolCallSlot = <<>> THEN st.blockIndex + 1 ELSE st.toolCallIdx
    IN Then(r, r.chunk.call # "none" /\ r.chunk.pos \notin DOMAIN st.toolCallSlot,
            [st EXCEPT !.toolCallSlot = With(@, r.chunk.pos, next), !.toolCallIdx = next + 1], <<>>)

ChatCallStart(r) ==
    LET slot == r.st.toolCallSlot[r.chunk.pos]
    IN Then(r, r.chunk.call = "named" /\ slot \notin r.st.callStarted,
            [r.st EXCEPT !.callStarted = @ \cup {slot}], <<BlockStarted(slot, "tool_use")>>)

\* Arguments of a call that has no name or ID yet are passed over.
ChatCallArgs(r) ==
    LET slot == r.st.toolCallSlot[r.chunk.pos]
    IN Then(r, r.chunk.call # "none" /\ slot \in r.st.callStarted /\ r.chunk.args # <<>>,
            r.st, <<Delta("args_delta", slot, r.chunk.args)>>)

\* The end of the current block and of the calls after it.
ChatFinish(r) ==
    LET st == r.st
        after == [n \in 1..(IF st.toolCallIdx > st.blockIndex + 1
                            THEN st.toolCallIdx - st.blockIndex - 1 ELSE 0) |-> st.blockIndex + n]
        Ends(i) == IF i \in st.callStarted THEN <<Delta("args_done", i, <<>>), BlockDone(i)>> ELSE <<>>
    IN Then(r, r.chunk.finish, st,
            <<BlockDone(st.blockIndex)>> \o Flat([n \in DOMAIN after |-> Ends(after[n])]))

ChatConvert(chunk) ==
    ChatFinish(ChatCallArgs(ChatCallStart(ChatSlot(ChatContent(ChatTextAfterReasoning(
        ChatReasoning(ChatLateReasoning(ChatStart([st |-> conv, out |-> <<>>, chunk |-> chunk])))))))))

Chunk(role, reasoning, content, pos, call, args, finish) ==
    [role |-> role, reasoning |-> reasoning, content |-> content, pos |-> pos, call |-> call,
     args |-> args, finish |-> finish]

\* The provider sends reasoning, then text, then calls; some send a part again
\* after a later one. A call comes with its name first, then its arguments.
ChatOrder(part) ==
    CASE part = "thinking" -> IF provider.block \in {"none", "thinking"} THEN {} ELSE {"late_reasoning"}
      [] part = "text" -> IF provider.block = "tool_use" THEN {"text_again"} ELSE {}
      [] OTHER -> {}

ChatReceives(chunk, kind, pieces, phase) ==
    /\ conv' = ChatConvert(chunk).st
    /\ core' = ChatConvert(chunk).out
    /\ provider' = [provider EXCEPT !.phase = phase, !.block = kind, !.chunks = @ + 1, !.pieces = @ + pieces]
    /\ Quiet

ChatRole ==
    /\ Ready("chat") /\ provider.phase = "start"
    /\ \/ /\ ChatReceives(Chunk(TRUE, <<>>, <<>>, 0, "none", <<>>, FALSE), "none", 0, "open")
          /\ UNCHANGED given
       \/ /\ ChatReceives(Chunk(TRUE, Piece, <<>>, 0, "none", <<>>, FALSE), "thinking", 1, "open")
          /\ Gave("reasoning")
       \/ /\ ChatReceives(Chunk(TRUE, <<>>, Piece, 0, "none", <<>>, FALSE), "text", 1, "open")
          /\ Gave("text")
    /\ UNCHANGED habits

ChatReasoningChunk ==
    /\ Ready("chat") /\ provider.phase = "open" /\ MoreChunks
    /\ ChatReceives(Chunk(FALSE, Piece, <<>>, 0, "none", <<>>, FALSE), "thinking", 1, "open")
    /\ Gave("reasoning")
    /\ habits' = habits \cup ChatOrder("thinking")

ChatTextChunk ==
    /\ Ready("chat") /\ provider.phase = "open" /\ MoreChunks
    /\ ChatReceives(Chunk(FALSE, <<>>, Piece, 0, "none", <<>>, FALSE), "text", 1, "open")
    /\ Gave("text")
    /\ habits' = habits \cup ChatOrder("text")

\* A new call, or more arguments of one; an unnamed call begins with arguments.
ChatCallChunk ==
    /\ Ready("chat") /\ provider.phase = "open" /\ MoreChunks
    /\ \/ \E call \in {"named", "unnamed"} :
            /\ Len(given.calls) < MaxBlocks
            /\ ChatReceives(Chunk(FALSE, <<>>, <<>>, Len(given.calls), call, Piece, FALSE), "tool_use", 1, "open")
            /\ given' = [given EXCEPT !.calls = Append(@, Piece)]
            /\ habits' = IF call = "unnamed" THEN habits \cup {"unnamed_call"} ELSE habits
       \/ \E n \in 1..Len(given.calls) :
            /\ ChatReceives(Chunk(FALSE, <<>>, <<>>, n - 1, "unnamed", Piece, FALSE), "tool_use", 1, "open")
            /\ GaveCall(n)
            /\ UNCHANGED habits

ChatFinishChunk ==
    /\ Ready("chat") /\ provider.phase = "open"
    /\ ChatReceives(Chunk(FALSE, <<>>, <<>>, 0, "none", <<>>, TRUE), provider.block, 0, "stopped")
    /\ UNCHANGED <<given, habits>>

-----------------------------------------------------------------------------
(* Gemini: a chunk carries the whole text so far; a function call in it is
   passed over. *)

\* The new suffix of the text, or all of it when it is not longer.
ComputeDelta(prev, current) ==
    IF Len(current) <= Len(prev) THEN current ELSE SubSeq(current, Len(prev) + 1, Len(current))

GoogleChunk ==
    /\ Ready("google") /\ MoreChunks /\ provider.phase \in {"start", "open"}
    /\ \E grows \in BOOLEAN, finish \in BOOLEAN :
       LET current == given.text \o (IF grows THEN Piece ELSE <<>>)
           delta == ComputeDelta(conv.prevText, current)
       IN /\ core' = (IF conv.started THEN <<>> ELSE <<BlockStarted(0, "text")>>)
                     \o (IF delta # <<>> THEN <<Delta("text_delta", 0, delta)>> ELSE <<>>)
                     \o (IF finish THEN <<BlockDone(0)>> ELSE <<>>)
          /\ conv' = [started |-> TRUE, prevText |-> current]
          /\ given' = [given EXCEPT !.text = current]
          /\ Sends(IF finish THEN "stopped" ELSE "open", "text", 0, IF grows THEN 1 ELSE 0)
          /\ habits' = IF ~grows /\ current # <<>> THEN habits \cup {"same_snapshot"} ELSE habits
    /\ Quiet

\* The channel of a Chat or Gemini provider is closed, at the end of the stream
\* or before it: the response is completed either way.
ChannelClosed ==
    /\ protocol \in {"chat", "google"} /\ Ready(protocol)
    /\ provider' = [provider EXCEPT !.phase = IF @ = "stopped" THEN "closed" ELSE "broken"]
    /\ core' = <<Core("completed")>>
    /\ Quiet /\ UNCHANGED <<conv, given, habits>>

-----------------------------------------------------------------------------
(* A whole answer, from the visual orchestrator, turned into a stream: by
   coreResponseToStreamEvents when the request had an image *)

Whole == {"whole", "image"}
ReadyWhole(phase) == protocol \in Whole /\ Ready(protocol) /\ provider.phase = phase

WholeBlock(kind, i, text) ==
    CASE kind = "reasoning" -> <<BlockStarted(i, "reasoning"), Delta("text_delta", i, text), SignedBlockDone(i)>>
      [] kind = "tool_use" -> <<BlockStarted(i, "tool_use"), Delta("args_done", i, text), BlockDone(i)>>
      [] kind = "text" -> <<BlockStarted(i, "text"), Delta("text_delta", i, text), BlockDone(i)>>
      [] kind = "empty" -> <<BlockStarted(i, "text"), BlockDone(i)>>

WholeStart ==
    /\ ReadyWhole("start")
    /\ Sends("open", "none", 0, 0)
    /\ core' = <<Core("created")>> \o (IF protocol = "whole" THEN <<Core("in_progress")>> ELSE <<>>)
    /\ Quiet /\ UNCHANGED <<conv, given, habits>>

\* With an image, only reasoning and text are passed on.
WholeNextBlock ==
    /\ ReadyWhole("open") /\ MoreChunks
    /\ \E kind \in {"reasoning", "tool_use", "text", "empty"} :
         /\ IF protocol = "image" /\ kind = "tool_use"
            THEN /\ core' = <<>>
                 /\ habits' = habits \cup {"call_with_image"}
                 /\ Sends("open", "none", provider.index, 1)
            ELSE /\ core' = WholeBlock(kind, provider.index, Piece)
                 /\ UNCHANGED habits
                 /\ Sends("open", "none", provider.index + 1, 1)
         /\ CASE kind = "tool_use" -> given' = [given EXCEPT !.calls = Append(@, Piece)]
              [] kind = "text" -> Gave("text")
              [] kind = "reasoning" -> given' = [given EXCEPT !.reasoning = @ \o Piece,
                                                              !.signed = @ \cup {provider.index}]
              [] OTHER -> UNCHANGED given
    /\ provider.index < MaxBlocks
    /\ Quiet /\ UNCHANGED conv

WholeEnd ==
    /\ ReadyWhole("open")
    /\ \E status \in {"completed", "incomplete", "failed"} : core' = <<Core(status)>>
    /\ Sends("closed", "none", provider.index, 0)
    /\ Quiet /\ UNCHANGED <<conv, given, habits>>

-----------------------------------------------------------------------------
Provide ==
    \/ MessageStart \/ ContentBlockStart \/ ContentBlockDelta \/ ContentBlockStop
    \/ MessageDelta \/ MessageStop \/ Breaks
    \/ ChatRole \/ ChatReasoningChunk \/ ChatTextChunk \/ ChatCallChunk \/ ChatFinishChunk
    \/ GoogleChunk \/ ChannelClosed
    \/ WholeStart \/ WholeNextBlock \/ WholeEnd

Next == Provide \/ (Translate /\ UNCHANGED providerVars)

Spec == Init /\ [][Next]_vars

-----------------------------------------------------------------------------
(* Properties *)

TypeOK ==
    /\ core \in Seq([type : CoreTypes, index : Nat, block : {"none", "text", "tool_use", "reasoning"},
                     delta : Pieces, signed : BOOLEAN])
    /\ output \in Seq([type : ItemTypes, status : {"in_progress", "completed"}, text : Pieces,
                       signed : BOOLEAN])
    /\ \A f \in {contentText, toolCallArgs} : \A i \in DOMAIN f : f[i] \in Pieces
    /\ \A i \in DOMAIN outputIndexes : outputIndexes[i] \in 0..(Len(output) - 1)
    /\ provider \in Provider
    /\ habits \subseteq Habits

AboutItems == {"part_added", "text_delta", "args_delta", "text_done", "args_done", "part_done", "item_done"}
Earlier(j, event) == \E k \in 1..(j - 1) : sent[k].event = event /\ sent[k].at = sent[j].at
Ended == provider.phase = "closed" /\ core = <<>>

\* The text that the client was told of an item in deltas; the texts of the items of
\* a type, put together; the arguments of the calls.
Said(at) ==
    Flat([k \in 1..Len(sent) |->
              IF sent[k].event = "text_delta" /\ sent[k].at = at THEN sent[k].text ELSE <<>>])
TextOf(type) ==
    Flat([n \in 1..Len(output) |-> IF output[n].type = type THEN output[n].text ELSE <<>>])
Calls ==
    Flat([n \in 1..Len(output) |->
              IF output[n].type = "function_call" THEN <<output[n].text>> ELSE <<>>])

\* The two habits with which an event goes astray, to output position 0 and so
\* into whatever item is there: the input of a tool of the server's own, and
\* the arguments of a call that reasoning has interrupted (see the README).
NothingGoesAstray == habits \cap {"server_input", "late_reasoning"} = {}

\* The client is never told anything more of an item after it was told that the
\* item is done, however else the provider orders its stream.
ClosedItemsStayClosed ==
    NothingGoesAstray =>
        \A j \in 1..Len(sent) : sent[j].event \in AboutItems => ~Earlier(j, "item_done")

\* What the client is told of an item comes after output_item.added for it, but
\* for a text that ends without a single delta: that item appears with its end.
ItemsAreAnnounced ==
    NothingGoesAstray =>
        \A j \in 1..Len(sent) :
            sent[j].event \in AboutItems =>
                \/ Earlier(j, "item_added")
                \/ /\ output[sent[j].at + 1].type = "message"
                   /\ ~ \E k \in 1..Len(sent) :
                         sent[k].event = "text_delta" /\ sent[k].at = sent[j].at

\* The text of a message that is done is what its deltas said, piece for piece
\* and in their order, whatever the provider did.
TextIsItsDeltas ==
    \A at \in 0..(Len(output) - 1) :
        output[at + 1].type = "message" /\ output[at + 1].status = "completed" =>
            Said(at) = output[at + 1].text

\* When a stream in the usual order has ended, the answer has all the provider
\* sent: the text, the reasoning and each call's arguments, in their order, and
\* no item is left in progress.
ContentArrivesWhole ==
    Ended /\ habits = {} =>
        /\ TextOf("message") = given.text
        /\ TextOf("reasoning") = given.reasoning
        /\ Calls = given.calls
        /\ \A n \in 1..Len(output) : output[n].status = "completed"

\* The calls of an answer reach the client, also when the request had an image
\* and the answer was made by the visual orchestrator. Does not hold:
\* coreResponseToStreamEvents passes over tool_use blocks.
CallsReachTheStream ==
    Ended => Len(Calls) = Len(given.calls)

\* A reasoning block the provider signed is a signed item of the answer: "content
\* index -> reasoning signature (from signature_delta)" (anthropic/adapter.go:421).
\* Does not hold: a signature_delta is taken for a thinking delta.
SignaturesAreKept ==
    Ended => Cardinality(given.signed) = Cardinality({n \in 1..Len(output) : output[n].signed})
=============================================================================

----------------------------- MODULE InputItems -----------------------------
(***************************************************************************)
(* A request's input array (protocol/openai/adapter.go, convertInput): the *)
(* items of a conversation, in the order the client kept them, become core *)
(* messages. Reasoning waits for the message it belongs to, consecutive    *)
(* calls are gathered into one message. A block is its type and a tag that *)
(* says where it comes from; of the Go slice in which reasoning waits, the *)
(* array it shares with messages is kept, for appending writes into it.    *)
(***************************************************************************)
EXTENDS Naturals, Sequences

Block(type, tag) == [type |-> type, tag |-> tag]
Blocks(type, tags) == [k \in DOMAIN tags |-> Block(type, tags[k])]
Message(role, content) == [role |-> role, content |-> content]

\* The elements of a list at some of its positions, in their order.
ElementsAt(list, positions) ==
    LET upTo[k \in 0..Len(list)] ==
            IF k = 0 THEN <<>>
            ELSE IF k \in positions THEN Append(upTo[k - 1], list[k]) ELSE upTo[k - 1]
    IN upTo[Len(list)]

OfType(content, type) == ElementsAt(content, {k \in DOMAIN content : content[k].type = type})

\* The items: a message of a role with the given texts, a reasoning with its
\* summary's parts, a call, the output of a call.
Item(kind, role, tags) == [kind |-> kind, role |-> role, tags |-> tags]
CallKinds == {"function_call", "custom_tool_call"}

\* What convertInput has at hand while it reads the items.
NoItems ==
    [messages  |-> <<>>,   \* core messages so far
     system    |-> <<>>,   \* blocks of system and developer messages
     reasoning |-> <<>>,   \* pendingReasoning
     calls     |-> <<>>,   \* pendingFCBlocks
     room      |-> 0,      \* capacity of the array of pendingReasoning
     sharers   |-> {}]     \* the messages whose content lies in that array

\* Go's append to a small slice: a new array has twice the room, or what is needed.
Grown(room, needed) == IF needed > 2 * room THEN needed ELSE 2 * room

\* Messages that lie in the array find the new blocks behind its first n.
Overwritten(c, n, blocks) ==
    [m \in DOMAIN c.messages |->
        IF m \in c.sharers
        THEN [c.messages[m] EXCEPT !.content =
                [k \in DOMAIN @ |-> IF k - n \in DOMAIN blocks THEN blocks[k - n] ELSE @[k]]]
        ELSE c.messages[m]]

Fits(c, blocks) == Len(c.reasoning) + Len(blocks) <= c.room

AppendReasoning(c, blocks) ==
    IF Fits(c, blocks)
    THEN [c EXCEPT !.messages = Overwritten(c, Len(c.reasoning), blocks),
                   !.reasoning = @ \o blocks]
    ELSE [c EXCEPT !.reasoning = @ \o blocks,
                   !.room = Grown(@, Len(c.reasoning) + Len(blocks)),
                   !.sharers = {}]

AddMessage(c, role, content) == [c EXCEPT !.messages = Append(@, Message(role, content))]

\* Mutant: the flushed calls go on waiting.
FlushCallsAgain(c) == IF c.calls = <<>> THEN c ELSE AddMessage(c, "assistant", c.calls)

FlushCalls(c) ==
    IF c.calls = <<>> THEN c
    ELSE [AddMessage(c, "assistant", c.calls) EXCEPT !.calls = <<>>]

FlushReasoning(c) ==
    IF c.reasoning = <<>> THEN c
    ELSE [AddMessage(c, "assistant", c.reasoning) EXCEPT !.reasoning = <<>>]

\* The reasoning goes behind the reasoning that leads the calls.
LeadingReasoning(calls) ==
    CHOOSE n \in 0..Len(calls) :
        /\ \A k \in 1..n : calls[k].type = "reasoning"
        /\ n < Len(calls) => calls[n + 1].type # "reasoning"

\* Mutant: the reasoning goes behind the calls there are.
MergeReasoningBehind(calls, blocks) == calls \o blocks

MergeReasoningBeforeToolUse(calls, blocks) ==
    LET n == LeadingReasoning(calls)
    IN SubSeq(calls, 1, n) \o blocks \o SubSeq(calls, n + 1, Len(calls))

TakeOutput(c, item) ==
    LET merged == IF c.calls # <<>> /\ c.reasoning # <<>>
                  THEN [c EXCEPT !.calls = MergeReasoningBeforeToolUse(@, c.reasoning),
                                 !.reasoning = <<>>]
                  ELSE c
    IN AddMessage(FlushReasoning(FlushCalls(merged)), "tool", Blocks("tool_result", item.tags))

TakeReasoning(c, item) ==
    IF c.calls # <<>>
    THEN [c EXCEPT !.calls = MergeReasoningBeforeToolUse(@, Blocks("reasoning", item.tags))]
    ELSE AppendReasoning(c, Blocks("reasoning", item.tags))

\* A model whose name says that it reasons gets an empty reasoning before a
\* function call that has none.
NoReasoning == 0
WithReasoning(c, item, reasoningModel) ==
    IF reasoningModel /\ item.kind = "function_call" /\ c.reasoning = <<>>
    THEN AppendReasoning(c, <<Block("reasoning", NoReasoning)>>)
    ELSE c

\* Mutant: the reasoning that a call has taken stays for the next message.
TakeCallAndKeep(c, item, reasoningModel) ==
    LET r == WithReasoning(c, item, reasoningModel)
    IN [r EXCEPT !.calls = @ \o r.reasoning \o Blocks("tool_use", item.tags)]

TakeCall(c, item, reasoningModel) ==
    LET r == WithReasoning(c, item, reasoningModel)
    IN [r EXCEPT !.calls = @ \o r.reasoning \o Blocks("tool_use", item.tags),
                 !.reasoning = <<>>]

TakeSystem(c, item) == [c EXCEPT !.system = @ \o Blocks("text", item.tags)]

\* The answer is appended to the waiting reasoning, in the same array if it has
\* room: the message then lies in the array that the next reasoning is put into.
TakeAnswer(c, item) ==
    LET texts == Blocks("text", item.tags)
        content == c.reasoning \o texts
        inPlace == c.reasoning # <<>> /\ Fits(c, texts)
        kept == IF inPlace
                THEN [c EXCEPT !.messages = Overwritten(c, Len(c.reasoning), texts),
                               !.sharers = @ \cup {Len(c.messages) + 1}]
                ELSE c
    IN IF content = <<>> THEN c
       ELSE [AddMessage(kept, "assistant", content) EXCEPT !.reasoning = <<>>]

TakeUser(c, item) ==
    IF item.tags = <<>> THEN c ELSE AddMessage(c, "user", Blocks("text", item.tags))

TakeMessage(c, item) ==
    CASE item.role = "system" -> TakeSystem(c, item)
      [] item.role = "assistant" -> TakeAnswer(c, item)
      [] OTHER -> TakeUser(c, item)

Take(c, item, reasoningModel) ==
    CASE item.kind = "output" -> TakeOutput(c, item)
      [] item.kind = "reasoning" -> TakeReasoning(c, item)
      [] item.kind \in CallKinds -> TakeCall(c, item, reasoningModel)
      [] OTHER -> TakeMessage(FlushCalls(c), item)

\* At the end what still waits is flushed, the reasoning first.
AllTaken(c) == FlushCalls(FlushReasoning(c))
=============================================================================

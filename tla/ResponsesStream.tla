------------------------- MODULE ResponsesStream -------------------------
(***************************************************************************)
(* The loop that turns the protocol-agnostic events of a provider's stream *)
(* into the events of the Responses API (internal/protocol/openai/         *)
(* adapter.go, streamLoop). It takes one core event at a time from `core`, *)
(* keeps maps from the index of a content block to what it knows of it,    *)
(* and appends to `sent` what it writes to the client. A text is the       *)
(* sequence of the pieces it was made of; an output position counts from 0 *)
(* as in the code, where a missing entry of a map reads as 0.              *)
(***************************************************************************)
EXTENDS Naturals, Sequences, FiniteSets

VARIABLES
    core,               \* core events the provider's adapter has emitted
    output,             \* response.Output: the items so far
    contentText,        \* block index -> text accumulated
    toolCallArgs,       \* block index -> arguments accumulated
    outputIndexes,      \* block index -> output position
    reasonIndexes,      \* blocks that are reasoning
    toolCallFinalized,  \* blocks whose arguments are complete
    sent                \* the Responses events written, oldest first

maps == <<contentText, toolCallArgs, outputIndexes, reasonIndexes, toolCallFinalized>>
responseVars == <<core, output, maps, sent>>

Pieces == Seq(Nat)
ItemTypes == {"message", "reasoning", "function_call"}

\* Core events: the types this loop acts on, and the two it ignores.
CoreTypes == {"created", "in_progress", "completed", "incomplete", "failed",
              "block_started", "block_done", "text_delta", "args_delta", "args_done", "item_added"}

Core(type) == [type |-> type, index |-> 0, block |-> "none", delta |-> <<>>, signed |-> FALSE]
BlockStarted(i, kind) == [Core("block_started") EXCEPT !.index = i, !.block = kind]
BlockDone(i) == [Core("block_done") EXCEPT !.index = i]
SignedBlockDone(i) == [BlockDone(i) EXCEPT !.signed = TRUE]
Delta(type, i, text) == [Core(type) EXCEPT !.index = i, !.delta = text]

Lookup(f, i, default) == IF i \in DOMAIN f THEN f[i] ELSE default
With(f, i, v) == [j \in DOMAIN f \cup {i} |-> IF j = i THEN v ELSE f[j]]
Without(f, i) == [j \in DOMAIN f \ {i} |-> f[j]]

InitResponse ==
    /\ core = <<>>
    /\ output = <<>>
    /\ contentText = <<>> /\ toolCallArgs = <<>> /\ outputIndexes = <<>>
    /\ reasonIndexes = {} /\ toolCallFinalized = {}
    /\ sent = <<>>

-----------------------------------------------------------------------------
Event == Head(core)
Text(i) == Lookup(contentText, i, <<>>)
At(i) == Lookup(outputIndexes, i, 0)
Consume(type) == core # <<>> /\ Event.type = type /\ core' = Tail(core)

Wire(event, at, text) == [event |-> event, at |-> at, text |-> text]
Send(events) == sent' = sent \o events

Item(type) == [type |-> type, status |-> "in_progress", text |-> <<>>, signed |-> FALSE]

\* The items with one of them completed; its text is put in if it is of the
\* type that has such a text, a signature if the block's end carries one.
Completed(items, at, type, text) ==
    [items EXCEPT ![at + 1].status = "completed",
                  ![at + 1].signed = @ \/ Event.signed,
                  ![at + 1].text = IF items[at + 1].type = type THEN text ELSE @]

Lifecycle(types) ==
    \E type \in types :
        /\ Consume(type)
        /\ Send(<<Wire(type, Len(output), <<>>)>>)
        /\ UNCHANGED <<output, maps>>

ResponseBegins == Lifecycle({"created", "in_progress"})
ResponseEnds == Lifecycle({"completed", "incomplete", "failed"})

\* An item is added when a reasoning block starts; a text block waits for
\* its first delta.
StartReasoning ==
    /\ Consume("block_started")
    /\ Event.block = "reasoning"
    /\ contentText' = With(contentText, Event.index, <<>>)
    /\ reasonIndexes' = reasonIndexes \cup {Event.index}
    /\ outputIndexes' = With(outputIndexes, Event.index, Len(output))
    /\ output' = Append(output, Item("reasoning"))
    /\ Send(<<Wire("item_added", Len(output), <<>>), Wire("part_added", Len(output), <<>>)>>)
    /\ UNCHANGED <<toolCallArgs, toolCallFinalized>>

StartText ==
    /\ Consume("block_started")
    /\ Event.block = "text"
    /\ contentText' = With(contentText, Event.index, <<>>)
    /\ UNCHANGED <<output, toolCallArgs, outputIndexes, reasonIndexes, toolCallFinalized, sent>>

StartToolUse ==
    /\ Consume("block_started")
    /\ Event.block = "tool_use"
    /\ outputIndexes' = With(outputIndexes, Event.index, Len(output))
    /\ output' = Append(output, Item("function_call"))
    /\ Send(<<Wire("item_added", Len(output), <<>>)>>)
    /\ UNCHANGED <<contentText, toolCallArgs, reasonIndexes, toolCallFinalized>>

\* Mutant: a delta replaces the text.
Replaced == contentText' = With(contentText, Event.index, Event.delta)

Grown == contentText' = With(contentText, Event.index, Text(Event.index) \o Event.delta)

ReasoningDelta ==
    /\ Consume("text_delta")
    /\ Event.index \in reasonIndexes
    /\ Grown
    /\ Send(<<Wire("text_delta", At(Event.index), Event.delta)>>)
    /\ UNCHANGED <<output, toolCallArgs, outputIndexes, reasonIndexes, toolCallFinalized>>

\* Mutant: only the content part is added.
FirstTextDeltaUnannounced ==
    /\ Consume("text_delta")
    /\ Event.index \notin reasonIndexes \cup DOMAIN outputIndexes
    /\ Grown
    /\ outputIndexes' = With(outputIndexes, Event.index, Len(output))
    /\ output' = Append(output, Item("message"))
    /\ Send(<<Wire("part_added", Len(output), <<>>), Wire("text_delta", Len(output), Event.delta)>>)
    /\ UNCHANGED <<toolCallArgs, reasonIndexes, toolCallFinalized>>

\* The first delta of a text adds its item and content part.
FirstTextDelta ==
    /\ Consume("text_delta")
    /\ Event.index \notin reasonIndexes \cup DOMAIN outputIndexes
    /\ Grown
    /\ outputIndexes' = With(outputIndexes, Event.index, Len(output))
    /\ output' = Append(output, Item("message"))
    /\ Send(<<Wire("item_added", Len(output), <<>>), Wire("part_added", Len(output), <<>>),
              Wire("text_delta", Len(output), Event.delta)>>)
    /\ UNCHANGED <<toolCallArgs, reasonIndexes, toolCallFinalized>>

TextDelta ==
    /\ Consume("text_delta")
    /\ Event.index \in DOMAIN outputIndexes \ reasonIndexes
    /\ Grown
    /\ Send(<<Wire("text_delta", At(Event.index), Event.delta)>>)
    /\ UNCHANGED <<output, toolCallArgs, outputIndexes, reasonIndexes, toolCallFinalized>>

\* Written for any index: for a block that was never started it names output
\* position 0.
ToolCallArgsDelta ==
    /\ Consume("args_delta")
    /\ toolCallArgs' = With(toolCallArgs, Event.index,
                            Lookup(toolCallArgs, Event.index, <<>>) \o Event.delta)
    /\ Send(<<Wire("args_delta", At(Event.index), Event.delta)>>)
    /\ UNCHANGED <<output, contentText, outputIndexes, reasonIndexes, toolCallFinalized>>

\* Mutant: toolCallFinalized is not set.
FinishCallAgain(args) ==
    /\ output' = IF Event.index \in DOMAIN outputIndexes
                 THEN Completed(output, At(Event.index), "function_call", args) ELSE output
    /\ Send(<<Wire("args_done", At(Event.index), args),
              Wire("item_done", At(Event.index), output'[At(Event.index) + 1].text)>>)
    /\ UNCHANGED toolCallFinalized

FinishCall(args) ==
    /\ output' = IF Event.index \in DOMAIN outputIndexes
                 THEN Completed(output, At(Event.index), "function_call", args) ELSE output
    /\ toolCallFinalized' = toolCallFinalized \cup {Event.index}
    /\ Send(<<Wire("args_done", At(Event.index), args),
              Wire("item_done", At(Event.index), output'[At(Event.index) + 1].text)>>)

ToolCallArgsDone ==
    /\ Consume("args_done")
    /\ IF Event.index \in toolCallFinalized
       THEN UNCHANGED <<output, toolCallFinalized, sent>>
       ELSE FinishCall(IF Event.delta # <<>> THEN Event.delta
                       ELSE Lookup(toolCallArgs, Event.index, <<>>))
    /\ UNCHANGED <<contentText, toolCallArgs, outputIndexes, reasonIndexes>>

\* A reasoning block that is done loses all its entries. No output_item.done
\* is written for it.
ReasoningDone ==
    /\ Consume("block_done")
    /\ Event.index \in reasonIndexes
    /\ output' = IF Event.index \in DOMAIN outputIndexes
                 THEN Completed(output, At(Event.index), "reasoning", Text(Event.index)) ELSE output
    /\ Send(<<Wire("part_done", At(Event.index), Text(Event.index))>>)
    /\ contentText' = Without(contentText, Event.index)
    /\ outputIndexes' = Without(outputIndexes, Event.index)
    /\ reasonIndexes' = reasonIndexes \ {Event.index}
    /\ UNCHANGED <<toolCallArgs, toolCallFinalized>>

\* A text block that is done. One that had no delta gets its item only now,
\* and without output_item.added.
TextBlockDone ==
    /\ Consume("block_done")
    /\ Event.index \in DOMAIN contentText \ reasonIndexes
    /\ LET known == Event.index \in DOMAIN outputIndexes
           at == IF known THEN At(Event.index) ELSE Len(output)
           items == IF known THEN output ELSE Append(output, Item("message"))
           text == Text(Event.index)
       IN /\ outputIndexes' = With(outputIndexes, Event.index, at)
          /\ output' = Completed(items, at, "message", text)
          /\ Send(<<Wire("text_done", at, text), Wire("part_done", at, <<>>),
                    Wire("item_done", at, output'[at + 1].text)>>)
    /\ contentText' = Without(contentText, Event.index)
    /\ UNCHANGED <<toolCallArgs, reasonIndexes, toolCallFinalized>>

\* Otherwise the block is taken for a tool call.
ToolBlockDone ==
    /\ Consume("block_done")
    /\ Event.index \in DOMAIN outputIndexes \ (reasonIndexes \cup DOMAIN contentText)
    /\ Event.index \notin toolCallFinalized
    /\ FinishCall(Lookup(toolCallArgs, Event.index, <<>>))
    /\ toolCallArgs' = Without(toolCallArgs, Event.index)
    /\ UNCHANGED <<contentText, outputIndexes, reasonIndexes>>

\* What the loop passes over: the end of a block it knows nothing of or of a
\* call that is complete, and item events.
Ignored ==
    /\ \/ Consume("item_added")
       \/ /\ Consume("block_done")
          /\ Event.index \notin reasonIndexes \cup DOMAIN contentText
          /\ Event.index \in DOMAIN outputIndexes => Event.index \in toolCallFinalized
    /\ UNCHANGED <<output, maps, sent>>

Translate ==
    \/ ResponseBegins \/ ResponseEnds \/ StartReasoning \/ StartText \/ StartToolUse
    \/ ReasoningDelta \/ FirstTextDelta \/ TextDelta \/ ToolCallArgsDelta \/ ToolCallArgsDone
    \/ ReasoningDone \/ TextBlockDone \/ ToolBlockDone \/ Ignored
=============================================================================

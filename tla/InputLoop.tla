----------------------------- MODULE InputLoop -----------------------------
(***************************************************************************)
(* The loop of convertInput over whatever items a client sends: one step   *)
(* takes one item. Tags are numbers of items, so that what becomes of each *)
(* item can be told.                                                       *)
(***************************************************************************)
EXTENDS InputItems, Flattening, FiniteSets

CONSTANTS
    MaxItems,       \* bound on the length of an input
    ReasoningModel  \* does the model's name say that it reasons?

ASSUME InputAssumption == MaxItems \in Nat /\ ReasoningModel \in BOOLEAN

VARIABLES
    input,  \* the items read so far
    conv    \* what has become of them

inputVars == <<input, conv>>

InputInit == input = <<>> /\ conv = NoItems

\* The tags of an item: its number and, for reasoning, the part of the summary.
Tag == 2 * (Len(input) + 1)

Read(item) ==
    /\ Len(input) < MaxItems
    /\ input' = Append(input, item)
    /\ conv' = Take(conv, item, ReasoningModel)

ReadMessage == \E role \in {"user", "assistant", "system"}, tags \in {<<>>, <<Tag>>} :
    Read(Item("message", role, tags))
ReadReasoning == \E tags \in {<<>>, <<Tag>>, <<Tag, Tag + 1>>} :
    Read(Item("reasoning", "none", tags))
ReadCall == \E kind \in CallKinds : Read(Item(kind, "none", <<Tag>>))
ReadOutput == Read(Item("output", "none", <<Tag>>))

InputNext == ReadMessage \/ ReadReasoning \/ ReadCall \/ ReadOutput

InputSpec == InputInit /\ [][InputNext]_inputVars

-----------------------------------------------------------------------------
(* Properties *)

BlockTypes == {"text", "reasoning", "tool_use", "tool_result"}
Content == Seq([type : BlockTypes, tag : Nat])

InputTypeOK ==
    /\ conv.messages \in Seq([role : {"user", "assistant", "tool"}, content : Content])
    /\ conv.system \in Content /\ conv.reasoning \in Content /\ conv.calls \in Content
    /\ conv.room \in Nat /\ Len(conv.reasoning) <= conv.room
    /\ conv.sharers \subseteq DOMAIN conv.messages

\* Reasoning and calls never wait side by side, so the order in which the end
\* of the input flushes them (reasoning first, though it may have come later)
\* and the merging at an output can put nothing in the wrong order.
OneWaits == conv.reasoning = <<>> \/ conv.calls = <<>>

\* The tags of the blocks of one type, in a content and in all of the messages and
\* the calls that wait.
TagsOf(content, type) ==
    Flat([k \in DOMAIN content |-> IF content[k].type = type THEN <<content[k].tag>> ELSE <<>>])

TagsIn(c, type) ==
    Flat([m \in DOMAIN c.messages |-> TagsOf(c.messages[m].content, type)]) \o TagsOf(c.calls, type)

ItemTags(kinds) ==
    Flat([n \in DOMAIN input |-> IF input[n].kind \in kinds THEN input[n].tags ELSE <<>>])

\* Every call and every output reaches the provider once, in the client's order,
\* whatever the order of the items around them.
CallsAndOutputsKept ==
    /\ TagsIn(conv, "tool_use") = ItemTags(CallKinds)
    /\ TagsIn(conv, "tool_result") = ItemTags({"output"})

\* Thinking leads: in a message the reasoning of the input is before all calls,
\* wherever between the calls of one turn its items stood, and although empty
\* reasoning is put in between the calls.
Contents == {conv.messages[m].content : m \in DOMAIN conv.messages} \cup {conv.calls}

ReasoningLeads ==
    \A content \in Contents : \A j, k \in DOMAIN content :
        /\ content[j].type = "reasoning" /\ content[j].tag # NoReasoning
        /\ content[k].type = "tool_use"
        => j < k

Place(content, type, tag) == {k \in DOMAIN content : content[k] = Block(type, tag)}

\* "This preserves the thinking text and optional signature for upstream replay"
\* (openai/adapter.go:1340, of reasoningBlocksFromSummary): the reasoning of the
\* input is in a message or waits for one. Does not hold: an answer may lie in the
\* array of the waiting reasoning, and what comes next is written over it.
ReasoningKept ==
    \A n \in DOMAIN input : input[n].kind = "reasoning" =>
        \A p \in DOMAIN input[n].tags :
            \E content \in Contents \cup {conv.reasoning} :
                Place(content, "reasoning", input[n].tags[p]) # {}

\* The same of what a message of the input says: a later answer may replace it.
TextKept ==
    \A n \in DOMAIN input : input[n].kind = "message" =>
        \A p \in DOMAIN input[n].tags :
            \E content \in Contents \cup {conv.system} :
                Place(content, "text", input[n].tags[p]) # {}
=============================================================================

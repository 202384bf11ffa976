-------------------------- MODULE ReasoningMemory --------------------------
(***************************************************************************)
(* What a session remembers of a model's reasoning (deepseek_v4/state.go), *)
(* and how the server puts it back before the calls it led to, where the   *)
(* client has not kept it (prependCachedThinking and                       *)
(* prependCachedReasoningForChat in adapter_dispatch.go).                  *)
(***************************************************************************)
EXTENDS ProviderMessages, TLC

\* A memory: the reasoning of calls, and the calls, the oldest first.
Nothing == [records |-> <<>>, order |-> <<>>]

\* Mutant: the newest calls are pruned.
PruneNewest(mem, limit) ==
    LET left == SubSeq(mem.order, 1, IF Len(mem.order) > limit THEN limit ELSE Len(mem.order))
    IN [records |-> [c \in Range(left) |-> mem.records[c]], order |-> left]

Prune(mem, limit) ==
    LET over == IF Len(mem.order) > limit THEN Len(mem.order) - limit ELSE 0
        gone == {mem.order[k] : k \in 1..over}
    IN [records |-> [c \in DOMAIN mem.records \ gone |-> mem.records[c]],
        order |-> SubSeq(mem.order, over + 1, Len(mem.order))]

\* A call that was known keeps its place among the oldest.
RememberCall(mem, call, reasoning) ==
    [records |-> (call :> reasoning) @@ mem.records,
     order |-> IF call \in DOMAIN mem.records THEN mem.order ELSE Append(mem.order, call)]

RememberForToolCalls(mem, calls, reasoning, limit) ==
    IF reasoning = NoReasoning THEN mem
    ELSE Prune(FoldLeft(LAMBDA m, call : RememberCall(m, call, reasoning), mem, calls), limit)

\* All calls of a content get its last reasoning.
RememberFromContent(mem, content, limit) ==
    LET reasonings == Tags(content, "reasoning")
    IN RememberForToolCalls(mem, Tags(content, "tool_use"),
           IF reasonings = <<>> THEN NoReasoning ELSE Last(reasonings), limit)

\* Of a stream's final response the items up to the next reasoning are one content.
Segments(content) ==
    LET starts == {1} \cup {k \in DOMAIN content : content[k].type = "reasoning"}
        ends(k) == {j \in starts : j > k}
    IN {<<k, IF ends(k) = {} THEN Len(content) ELSE Min(ends(k)) - 1>> : k \in starts}

RememberStream(mem, content, limit) ==
    FoldLeft(LAMBDA m, s : RememberFromContent(m, SubSeq(content, s[1], s[2]), limit),
             mem, SetToSortSeq(Segments(content), LAMBDA s, t : s[1] < t[1]))

\* The first call of a message that is remembered.
Remembered(mem, calls) ==
    ElementsAt(calls, {k \in DOMAIN calls : calls[k] \in DOMAIN mem.records})

\* Mutant: where no call is remembered, the newest reasoning is taken.
ThinkingOfNewest(mem, m) ==
    LET known == Remembered(mem, Tags(m.content, "tool_use"))
    IN IF known # <<>> THEN mem.records[known[1]]
       ELSE IF mem.order # <<>> THEN mem.records[Last(mem.order)] ELSE NoReasoning

\* An assistant's message with calls and no thinking gets the thinking of its
\* first remembered call, or else an empty one.
ThinkingFor(mem, m) ==
    LET known == Remembered(mem, Tags(m.content, "tool_use"))
    IN IF known = <<>> THEN NoReasoning ELSE mem.records[known[1]]

PrependCachedThinking(messages, mem) ==
    [n \in DOMAIN messages |->
        LET m == messages[n]
        IN IF /\ m.role = "assistant"
              /\ Tags(m.content, "tool_use") # <<>>
              /\ Tags(m.content, "reasoning") = <<>>
           THEN [m EXCEPT !.content = <<Block("reasoning", ThinkingFor(mem, m))>> \o @]
           ELSE m]

PrependCachedReasoningForChat(messages, mem) ==
    [n \in DOMAIN messages |->
        LET m == messages[n]
            known == Remembered(mem, m.calls)
        IN IF m.role = "assistant" /\ m.reasoning = NoReasoning /\ known # <<>>
           THEN [m EXCEPT !.reasoning = mem.records[known[1]]]
           ELSE m]
=============================================================================

---------------------------- MODULE Conversation ----------------------------
(***************************************************************************)
(* A conversation with tools through the server, which keeps no history:   *)
(* the client keeps the items and sends them all with every request; the   *)
(* server turns them into the provider's messages, puts reasoning back     *)
(* from its session, asks, remembers the answer's reasoning and returns    *)
(* the answer's items (handleWithAdapters). Tags are numbers, each given   *)
(* to one text, reasoning or call of the conversation.                     *)
(***************************************************************************)
EXTENDS ReasoningMemory, CachePlan

CONSTANTS
    Limit,     \* calls that a session remembers (1024 in the code)
    MaxTurns   \* bound on the answers of a conversation

ASSUME ConversationAssumption == Limit \in Nat \ {0} /\ MaxTurns \in Nat

VARIABLES
    protocol,    \* the provider's protocol
    echoes,      \* does the client keep the reasoning it was sent?
    reinforces,  \* does the DeepSeek plugin put its reminder in?
    prefix,      \* the sizes of the tools and the system prompt
    history,     \* the client's items
    memory,      \* the session's State
    phase,       \* whose turn it is
    open,        \* the calls the client has to answer
    sent,        \* the messages of the last request, as the provider gets them
    marked,      \* what of it is marked for Anthropic's cache
    turns,       \* answers given
    next,        \* the next tag
    answers,     \* ghost: the contents of the answers
    fresh        \* ghost: calls remembered since the session began, oldest first

habits == <<protocol, echoes, reinforces, prefix>>
vars == <<habits, history, memory, phase, open, sent, marked, turns, next, answers, fresh>>

\* Nothing that is marked, the system prompt only, or both.
PrefixSizes == {[tools |-> 0, system |-> 0], [tools |-> 1, system |-> 1], [tools |-> 2, system |-> 1]}

Init ==
    /\ protocol \in {"anthropic", "chat", "gemini"}
    /\ echoes \in BOOLEAN /\ reinforces \in BOOLEAN
    /\ prefix \in IF protocol = "anthropic" THEN PrefixSizes ELSE {[tools |-> 1, system |-> 1]}
    /\ history = <<>> /\ memory = Nothing
    /\ phase = "user" /\ open = <<>> /\ sent = <<>> /\ marked = NotPlanned
    /\ turns = 0 /\ next = 1
    /\ answers = <<>> /\ fresh = <<>>

UserSpeaks ==
    /\ phase = "user" /\ turns < MaxTurns
    /\ history' = Append(history, Item("message", "user", <<next>>))
    /\ next' = next + 1
    /\ phase' = "ready"
    /\ UNCHANGED <<habits, memory, open, sent, marked, turns, answers, fresh>>

\* The client's items as core messages, the same for all protocols.
ReadItems ==
    LET upTo[n \in 0..Len(history)] ==
            IF n = 0 THEN NoItems ELSE Take(upTo[n - 1], history[n], FALSE)
    IN upTo[Len(history)]

CoreMessages ==
    LET messages == AllTaken(ReadItems).messages
    IN IF reinforces THEN Reinforced(messages) ELSE messages

\* The adapter marks the messages before the session's reasoning is put in, which
\* moves no mark to another message.
PlanAndInject ==
    IF protocol = "anthropic" THEN Plan(prefix.tools, prefix.system, ToAnthropic(CoreMessages))
    ELSE NotPlanned

Ask ==
    /\ phase = "ready"
    /\ sent' = CASE protocol = "anthropic" -> PrependCachedThinking(ToAnthropic(CoreMessages), memory)
                 [] protocol = "chat" -> PrependCachedReasoningForChat(ToChat(CoreMessages), memory)
                 [] protocol = "gemini" -> ToGemini(CoreMessages)
    /\ marked' = PlanAndInject
    /\ phase' = "asked"
    /\ UNCHANGED <<habits, history, memory, open, turns, next, answers, fresh>>

\* What a provider answers: reasoning, text and calls. A model that reasons
\* between its steps is Anthropic's; Gemini's adapter is given no reasoning.
OneReasoning == {<<"reasoning", "text">>, <<"reasoning", "tool_use", "tool_use">>,
                 <<"reasoning", "text", "tool_use">>, <<"reasoning">>}
Shapes ==
    {<<"text">>, <<"tool_use", "tool_use">>}
        \cup (IF protocol = "gemini" THEN {} ELSE OneReasoning)
        \cup (IF protocol = "anthropic"
              THEN {<<"reasoning", "text", "reasoning", "tool_use">>,
                    <<"reasoning", "tool_use", "reasoning", "tool_use">>}
              ELSE {})

Kept(items) == IF echoes THEN items ELSE ElementsAt(items, {k \in DOMAIN items : items[k].kind # "reasoning"})

\* The answer, whole or as a stream, is remembered and returned to the client.
Answer ==
    /\ phase = "asked"
    /\ \E shape \in Shapes, streamed \in BOOLEAN :
         LET content == [k \in DOMAIN shape |-> Block(shape[k], next + k - 1)]
             calls == Tags(content, "tool_use")
         IN /\ memory' = IF streamed THEN RememberStream(memory, content, Limit)
                         ELSE RememberFromContent(memory, content, Limit)
            /\ history' = history \o Kept(IF streamed THEN FromCoreStream(content)
                                          ELSE FromCoreResponse(content))
            /\ answers' = Append(answers, content)
            /\ fresh' = IF Tags(content, "reasoning") = <<>> THEN fresh ELSE fresh \o calls
            /\ open' = calls
            /\ phase' = IF calls = <<>> THEN "user" ELSE "tools"
            /\ next' = next + Len(shape)
    /\ turns' = turns + 1
    /\ UNCHANGED <<habits, sent, marked>>

\* The client answers all calls, in any order.
RunTools ==
    /\ phase = "tools"
    /\ \E order \in {open, Reverse(open)} :
         history' = history \o [k \in DOMAIN order |-> Item("output", "none", <<order[k]>>)]
    /\ phase' = IF turns < MaxTurns THEN "ready" ELSE "user"
    /\ open' = <<>>
    /\ UNCHANGED <<habits, memory, sent, marked, turns, next, answers, fresh>>

\* The session expires, is evicted or ends with the process.
SessionLost ==
    /\ memory # Nothing
    /\ memory' = Nothing /\ fresh' = <<>>
    /\ UNCHANGED <<habits, history, phase, open, sent, marked, turns, next, answers>>

Next == UserSpeaks \/ Ask \/ Answer \/ RunTools \/ SessionLost

Spec == Init /\ [][Next]_vars

-----------------------------------------------------------------------------
(* Properties *)

TypeOK ==
    /\ phase \in {"user", "ready", "asked", "tools"}
    /\ turns \in 0..MaxTurns /\ next \in Nat
    /\ Len(memory.order) <= Limit
    /\ DOMAIN memory.records = Range(memory.order)

\* "Anthropic requires all tool_result blocks from one assistant turn to be in
\* one user message immediately after tool_use" (anthropic/adapter.go:289-290), and
\* so do the others in their form: where there are calls, the results of just
\* these follow, and no result is without its call.
TagSet(content, type) == Range(Tags(content, type))
Calls(m) == IF protocol = "chat" THEN Range(m.calls) ELSE TagSet(m.content, "tool_use")
Results(m) == IF protocol = "chat" THEN Range(m.result) ELSE TagSet(m.content, "tool_result")

\* The chat messages from n on that are results.
RunOfResults(n) ==
    {k \in n..Len(sent) : \A j \in n..k : Results(sent[j]) # {}}

Followed(n) ==
    IF protocol = "chat" THEN UNION {Results(sent[k]) : k \in RunOfResults(n + 1)}
    ELSE IF n < Len(sent) THEN Results(sent[n + 1]) ELSE {}

ResultsFollowTheirCalls ==
    phase = "asked" =>
        /\ \A n \in DOMAIN sent : Calls(sent[n]) # {} => Followed(n) = Calls(sent[n])
        /\ \A n \in DOMAIN sent : \A r \in Results(sent[n]) :
             \E k \in 1..(n - 1) : r \in Calls(sent[k]) /\ r \in Followed(k)

\* The reasoning that is sent with a call is of the answer that made the call,
\* or of one before it that was broken off while it reasoned. It is never that
\* of another call, however the session and the client remember it.
Thinking(m) ==
    IF protocol = "chat" THEN {m.reasoning} \ {NoReasoning}
    ELSE TagSet(m.content, "reasoning") \ {NoReasoning}
OfAnswer(a) == TagSet(a, "reasoning")
Answering(calls) == {a \in Range(answers) : TagSet(a, "tool_use") \cap calls # {}}
BrokenOff == UNION {OfAnswer(a) : a \in {b \in Range(answers) : Len(b) = 1}}

ReasoningIsItsOwn ==
    phase = "asked" /\ protocol # "gemini" =>
        \A n \in DOMAIN sent : Calls(sent[n]) # {} =>
            Thinking(sent[n]) \subseteq UNION {OfAnswer(a) : a \in Answering(Calls(sent[n]))}
                                        \cup BrokenOff

\* As long as the session lives, calls that are among the last it remembered
\* are never sent without reasoning, though the client has dropped it or has
\* kept it where it no longer belongs to the calls.
Recent == {fresh[k] : k \in {j \in DOMAIN fresh : Len(fresh) - j < Limit}}

RecentCallsHaveReasoning ==
    phase = "asked" /\ protocol # "gemini" =>
        \A n \in DOMAIN sent : Calls(sent[n]) \cap Recent # {} => Thinking(sent[n]) # {}

\* What a request was asked with can be read from the cache by the next one: a
\* request that is marked at all is marked at the user's newest message (reasoning
\* of an answer that was broken off may follow it), and none of the marks that
\* Anthropic allows is left over while a message could have it.
MarksReachTheNewest ==
    phase = "asked" /\ marked # NotPlanned =>
        Max({m \in DOMAIN sent : sent[m].role = "user"}) \in marked.messages

NoMarkIsWasted ==
    phase = "asked" /\ marked # NotPlanned =>
        LET others == Cardinality({s \in {"tools", "system"} : marked[s]})
            room == MaxBreakpoints - others
        IN Cardinality(marked.messages) = IF Len(sent) < room THEN Len(sent) ELSE room
=============================================================================

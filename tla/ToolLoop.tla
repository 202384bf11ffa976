------------------------------ MODULE ToolLoop ------------------------------
(***************************************************************************)
(* Tools that the server offers to a model and runs itself: web search     *)
(* (websearch/orchestrator.go, websearch_inject.go) and the questions to a *)
(* model that sees images (visual/core_orchestrator.go). While the model   *)
(* calls nothing but such tools, the server runs the calls and asks again; *)
(* the client gets the last answer only. Which loop a request gets, if     *)
(* any, depends on its protocol and on whether it is streamed              *)
(* (handleWithAdapters, handleAdapterStream in adapter_dispatch.go).       *)
(***************************************************************************)
EXTENDS Naturals, Sequences, ToolNames

CONSTANTS
    SearchRounds,   \* rounds of the search loop (5 unless configured)
    VisualRounds,   \* rounds of the visual loop (4 unless configured)
    ToolLists,      \* the lists of tools a client may declare
    PlainTools,     \* the list declared in requests that have tools of the server's
    MaxCalls        \* bound on the calls of one answer

ASSUME LoopAssumption ==
    SearchRounds \in Nat \ {0} /\ VisualRounds \in Nat \ {0} /\ MaxCalls \in Nat

\* A client may declare any tools; of namespaces within namespaces see ToolNames.
ASSUME ToolAssumption == ToolLists \cup {PlainTools} \subseteq Seq(DeclaredTools)

VARIABLES
    request,   \* the request and the config that was read for it
    phase,     \* "ask" the provider, "run" its calls, "done"
    round,     \* rounds that are over
    calls,     \* the calls of the last answer
    results,   \* the results of those that have been run
    sent,      \* what the loop has added to the request's messages
    outcome,   \* what the client gets
    gone       \* has the request's context ended?

vars == <<request, phase, round, calls, results, sent, outcome, gone>>

Visual == <<"visual", "brief">>
Search == <<"tavily", "search">>
Protocols == {"anthropic", "chat", "gemini"}
\* What is kept of a request: the tools that the model is offered for those that
\* the client declares, and the map back to these.
RequestFor(protocol, streamed, visual, injected, image, declared, rawPatch) ==
    LET tools == Flatten(declared, rawPatch)
    IN [protocol |-> protocol, streamed |-> streamed, visual |-> visual, injected |-> injected,
        image |-> image, declared |-> declared, names |-> Names(tools), map |-> ToolMap(tools)]

Requests ==
    {RequestFor(p, s, v, i, image, PlainTools, FALSE) :
        p \in Protocols, s \in BOOLEAN, v \in BOOLEAN, i \in BOOLEAN, image \in BOOLEAN}
    \cup {RequestFor(p, s, FALSE, FALSE, FALSE, declared, raw) :
        p \in Protocols, s \in BOOLEAN, declared \in ToolLists, raw \in BOOLEAN}

Stops == {"tool_use", "end_turn"}
NoId == <<>>
Pending == [kind |-> "none", calls |-> <<>>, stop |-> "none", items |-> <<>>]
Failure == [kind |-> "failed", calls |-> <<>>, stop |-> "none", items |-> <<>>]

\* The visual plugin and the injection put their tools among the client's.
VisualTools == IF request.visual THEN {Visual} ELSE {}
SearchTools == IF request.injected THEN {Search} ELSE {}
Offered == request.names \cup VisualTools \cup SearchTools

\* The visual loop is given the plain client of the provider, without search.
VisualOverAnthropic == request.visual /\ request.protocol = "anthropic"
\* A stream's images are replaced by texts instead.
VisualOverChat == request.visual /\ request.protocol = "chat" /\ ~request.streamed
VisualRuns == VisualOverAnthropic \/ VisualOverChat

\* A streamed request with an image, anywhere in its messages, is answered by the
\* visual loop before a stream is opened. What becomes the stream of events then is
\* the reasoning and the text of the answer, not its calls.
LosesCalls == VisualOverAnthropic /\ request.streamed /\ request.image

Answered(answer, stop) ==
    LET given == IF LosesCalls THEN <<>> ELSE answer
    IN [kind |-> "answer", calls |-> given, stop |-> stop,
        items |-> [k \in DOMAIN given |-> OutputItem(given[k].tool, request.map)]]

SearchOverAnthropic ==
    /\ request.injected /\ request.protocol = "anthropic"
    /\ ~request.streamed /\ ~VisualRuns
SearchOverChat ==
    /\ request.injected /\ request.protocol = "chat"
    /\ ~request.streamed /\ ~VisualRuns
SearchOverChatStream ==
    request.injected /\ request.protocol = "chat" /\ request.streamed
SearchOverGemini == request.injected /\ request.protocol = "gemini"
SearchRuns ==
    SearchOverAnthropic \/ SearchOverChat \/ SearchOverChatStream \/ SearchOverGemini

MaxRounds == IF VisualRuns THEN VisualRounds ELSE IF SearchRuns THEN SearchRounds ELSE 1

\* Mutant: the calls of an answer are run also if some are not the loop's.
CallsOnlyIfAny(tool, answer) == \E k \in DOMAIN answer : answer[k].tool = tool

CallsOnly(tool, answer) ==
    answer # <<>> /\ \A k \in DOMAIN answer : answer[k].tool = tool

Init ==
    /\ request \in Requests
    /\ phase = "ask" /\ round = 0
    /\ calls = <<>> /\ results = <<>> /\ sent = <<>>
    /\ outcome = Pending /\ gone = FALSE

Done(what) ==
    /\ phase' = "done" /\ outcome' = what
    /\ UNCHANGED <<request, round, results, sent, gone>>

Asks == phase = "ask" /\ round < MaxRounds

\* The answer is the client's, or its calls are run.
Take(answer, stop, goesOn) ==
    /\ Asks /\ ~gone
    /\ calls' = answer
    /\ IF goesOn
       THEN /\ phase' = "run" /\ results' = <<>>
            /\ UNCHANGED <<request, round, sent, outcome, gone>>
       ELSE Done(Answered(answer, stop))

Answers == UNION {[1..n -> Offered] : n \in 0..MaxCalls}
AnswerOf(tools) == [k \in DOMAIN tools |-> [tool |-> tools[k], id |-> <<round, k>>]]

AnswerInVisualLoop ==
    /\ VisualRuns
    /\ \E tools \in Answers, stop \in Stops : LET answer == AnswerOf(tools) IN
         Take(answer, stop, stop = "tool_use" /\ CallsOnly(Visual, answer))

AnswerFromAnthropic ==
    /\ SearchOverAnthropic
    /\ \E tools \in Answers, stop \in Stops : LET answer == AnswerOf(tools) IN
         Take(answer, stop, stop = "tool_use" /\ CallsOnly(Search, answer))

\* What Chat and Gemini say of why they stopped is not looked at.
AnswerFromChat ==
    /\ SearchOverChat
    /\ \E tools \in Answers, stop \in Stops : LET answer == AnswerOf(tools) IN
         Take(answer, stop, CallsOnly(Search, answer))

\* The stream is read to its end, or to where it broke off, before its calls are looked at.
AnswerFromChatStream ==
    /\ SearchOverChatStream
    /\ \E tools \in Answers, stop \in Stops : LET answer == AnswerOf(tools) IN
         Take(answer, stop, CallsOnly(Search, answer))

AnswerFromGemini ==
    /\ SearchOverGemini
    /\ \E tools \in Answers, stop \in Stops : LET answer == AnswerOf(tools) IN
         Take(answer, stop, CallsOnly(Search, answer))

\* Without a loop every answer is the client's.
AnswerAtOnce ==
    /\ ~VisualRuns /\ ~SearchRuns
    /\ \E tools \in Answers, stop \in Stops : Take(AnswerOf(tools), stop, FALSE)

\* Mutant: the loop asks again when a round has failed.
AskFailsAndAgain == Asks /\ UNCHANGED vars

AskFails == Asks /\ Done(Failure) /\ UNCHANGED calls

Exceeded ==
    /\ phase = "ask" /\ round >= MaxRounds
    /\ Done(Failure)
    /\ UNCHANGED calls

\* Mutant: a result names the tool's first call.
ResultOfFirst(call, ok) == [id |-> calls[1].id, ok |-> ok]

\* A call that fails, or whose arguments say nothing, has a text of its own as its result.
Result(call, ok) == [id |-> call.id, ok |-> ok]

RunCall ==
    /\ phase = "run" /\ Len(results) < Len(calls)
    /\ \E ok \in IF gone THEN {FALSE} ELSE BOOLEAN :
         results' = Append(results, Result(calls[Len(results) + 1], ok))
    /\ UNCHANGED <<request, phase, round, calls, sent, outcome, gone>>

RunVisual == VisualRuns /\ RunCall
RunSearchForAnthropic == SearchOverAnthropic /\ RunCall
RunSearchForChat == (SearchOverChat \/ SearchOverChatStream) /\ RunCall
RunSearchForGemini == SearchOverGemini /\ RunCall

\* A result in a message of the user's, where the visual loop puts it, is text to
\* Chat: it names no call.
AsSent == IF VisualOverChat THEN [k \in DOMAIN results |-> [results[k] EXCEPT !.id = NoId]]
                            ELSE results

NextRound ==
    /\ phase = "run" /\ Len(results) = Len(calls)
    /\ sent' = Append(sent, [calls |-> calls, results |-> AsSent])
    /\ round' = round + 1 /\ phase' = "ask"
    /\ UNCHANGED <<request, calls, results, outcome, gone>>

\* The client leaves, or the server shuts down.
ContextEnds ==
    /\ phase # "done" /\ ~gone
    /\ gone' = TRUE
    /\ UNCHANGED <<request, phase, round, calls, results, sent, outcome>>

Answer ==
    \/ AnswerInVisualLoop \/ AnswerFromAnthropic \/ AnswerFromChat
    \/ AnswerFromChatStream \/ AnswerFromGemini \/ AnswerAtOnce
Run == RunVisual \/ RunSearchForAnthropic \/ RunSearchForChat \/ RunSearchForGemini
Goes == Exceeded \/ Run \/ NextRound
Next == Answer \/ AskFails \/ Goes \/ ContextEnds

\* The server goes on when it can: a search ends within its time limit. A provider
\* may be silent for as long as the client stays; a call ends with the context.
Spec == Init /\ [][Next]_vars /\ WF_vars(Goes) /\ WF_vars(gone /\ AskFails)

-----------------------------------------------------------------------------
(* Properties *)

Id == Nat \X Nat
Call == [tool : Offered, id : Id]
ResultOfCall == [id : Id \cup {NoId}, ok : BOOLEAN]
SentRound == [calls : Seq(Call), results : Seq(ResultOfCall)]
Kinds == {"none", "answer", "failed"}

TypeOK ==
    /\ request \in Requests /\ phase \in {"ask", "run", "done"}
    /\ round \in Nat /\ round <= MaxRounds
    /\ calls \in Seq(Call) /\ results \in Seq(ResultOfCall) /\ sent \in Seq(SentRound)
    /\ outcome.kind \in Kinds /\ outcome.calls \in Seq(Call) /\ gone \in BOOLEAN

\* A provider refuses calls that are not all answered: in every request that a
\* loop makes, each call of an earlier round has one result, in the calls' order,
\* also if its search failed or the client has left meanwhile. (The visual loop
\* over Chat keeps the number and the order only.)
EveryCallHasItsResult ==
    \A n \in DOMAIN sent :
        /\ DOMAIN sent[n].results = DOMAIN sent[n].calls
        /\ ~VisualOverChat => \A k \in DOMAIN sent[n].calls :
             sent[n].results[k].id = sent[n].calls[k].id

ClientsCalls(answer) == {k \in DOMAIN answer : answer[k].tool \notin {Visual, Search}}

\* A streamed request of Anthropic's that the visual loop answers for its image
\* (adapter_dispatch.go:866).
StreamedForItsImage ==
    /\ request.protocol = "anthropic" /\ request.visual
    /\ request.streamed /\ request.image

\* The server never takes a call of the client's tools for its own: it neither runs
\* it nor keeps it among its rounds, and an answer with such a call is given to the
\* client with all its calls, none of which has been run, save to a request that is
\* streamed for its image, whose calls are dropped: see EveryCallIsGiven.
ClientCallsReachTheClient ==
    /\ \A n \in DOMAIN sent : ClientsCalls(sent[n].calls) = {}
    /\ ClientsCalls(calls) # {} =>
         /\ phase = "done" /\ outcome.kind = "answer"
         /\ outcome.calls = calls \/ StreamedForItsImage

\* An answer that stops for calls of the client's tools brings the client all calls
\* of the answer, on every path. Does not hold: coreResponseToStreamEvents
\* (adapter_dispatch.go:1713) makes events of text and reasoning only.
EveryCallIsGiven ==
    phase = "done" /\ outcome.kind = "answer" /\ outcome.stop = "tool_use" => outcome.calls = calls

\* The client finds the tool that a call is for: a call by a name that only
\* functions were declared under comes back as a function_call with the name and
\* the namespace of one of them, whatever namespaces were flattened on the way.
ExpectedItems(name) == {c.item : c \in {d \in CallableTools(request.declared) : d.as = name}}

FunctionCallsComeBack ==
    \A k \in DOMAIN outcome.items :
        LET expected == ExpectedItems(outcome.calls[k].tool)
        IN (\A item \in expected : item.type = "function_call") /\ expected # {}
           => outcome.items[k] \in expected

\* "Moon Bridge reconstructs the raw ... from the result"; "original Codex metadata for
\* response-side reconstruction" (tool_context.go:32): a call of a declared custom
\* tool comes back as that tool's, in its grammar. Does not hold: exec gets the
\* JSON, and a custom tool in a namespace loses its namespace.
CustomCallsComeBack ==
    \A k \in DOMAIN outcome.items :
        outcome.items[k].type = "custom_tool_call"
        => outcome.items[k] \in ExpectedItems(outcome.calls[k].tool)

\* Every request ends whose client leaves, or whose provider answers each time,
\* though the model may ask for another search in every round.
RequestsEnd == []<>(phase # "ask") \/ <>gone => <>(phase = "done")

\* "Wraps the Anthropic client with the Orchestrator for server-side search
\* execution" (websearchinjected.go:8): an answer that stops for searches alone is
\* not given to the client, which does not know the injected tools. Does not hold:
\* a stream of Anthropic's has the tools but no loop, nor has a search the model
\* asks for under the visual loop.
SearchesStay ==
    outcome.stop = "tool_use" /\ outcome.calls # <<>> =>
        \E k \in DOMAIN outcome.calls : outcome.calls[k].tool # Search
=============================================================================

----------------------------- MODULE CachePlan -----------------------------
(***************************************************************************)
(* Where a request to Anthropic is marked for its prompt cache             *)
(* (protocol/cache/planner.go, anthropic/cache.go): what comes before a    *)
(* mark may be kept by the provider and read again by the next request.    *)
(* Sizes are in units of half the smallest prefix that can be cached       *)
(* (512 tokens).                                                           *)
(***************************************************************************)
EXTENDS InputItems, SequencesExt

MaxBreakpoints == 4
MinSize == 2   \* MinCacheTokens, MinBreakpointTokens, MinimumValueScore / ExpectedReuse

NotPlanned == [tools |-> FALSE, system |-> FALSE, messages |-> {}]

\* The messages that can be marked.
Candidates(messages) == {m \in DOMAIN messages : messages[m].content # <<>>}
OfUsers(messages) == {m \in Candidates(messages) : messages[m].role = "user"}

Positions(messages) == [m \in DOMAIN messages |-> m]

\* Mutant: the slots are counted from zero.
SpacedFromFirst(candidates, limit) ==
    IF limit >= Len(candidates) THEN candidates
    ELSE [slot \in 1..limit |-> candidates[((slot - 1) * Len(candidates)) \div limit + 1]]

\* One candidate from each of `limit` equal parts: the last of the part.
EvenlySpaced(candidates, limit) ==
    IF limit >= Len(candidates) THEN candidates
    ELSE [slot \in 1..limit |-> candidates[(slot * Len(candidates) + limit - 1) \div limit]]

\* Mutant: what the user's messages leave is not used.
SelectedUsersOnly(messages, limit) ==
    EvenlySpaced(ElementsAt(Positions(messages), OfUsers(messages)), limit)

\* The user's messages first, then what is left.
Selected(messages, limit) ==
    LET chosen == EvenlySpaced(ElementsAt(Positions(messages), OfUsers(messages)), limit)
        others == ElementsAt(Positions(messages), Candidates(messages) \ Range(chosen))
    IN IF Len(chosen) >= limit THEN chosen
       ELSE chosen \o EvenlySpaced(others, limit - Len(chosen))

\* Tools and system are marked if what is before the mark can be cached; the
\* system prompt follows the tools.
Breakpoints(tools, system, messages) ==
    LET byTools == tools >= MinSize
        bySystem == system > 0 /\ tools + system >= MinSize
        room == MaxBreakpoints - (IF byTools THEN 1 ELSE 0) - (IF bySystem THEN 1 ELSE 0)
    IN [tools |-> byTools, system |-> bySystem, messages |-> Range(Selected(messages, room))]

EstimatedSize(tools, system, messages) == tools + system + Len(messages)

\* A small request is not worth it.
Plan(tools, system, messages) ==
    IF EstimatedSize(tools, system, messages) < MinSize THEN NotPlanned
    ELSE Breakpoints(tools, system, messages)
=============================================================================

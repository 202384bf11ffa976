\* Conversations of up to four answers, with a session that remembers two calls.
SPECIFICATION Spec
CONSTANTS
    Limit = 2
    MaxTurns = 4
INVARIANTS
    ResultsFollowTheirCalls
    ReasoningIsItsOwn
    RecentCallsHaveReasoning
    MarksReachTheNewest
    NoMarkIsWasted
\* A conversation ends after its last answer.
CHECK_DEADLOCK FALSE

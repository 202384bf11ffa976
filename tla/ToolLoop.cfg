\* All kinds of requests, up to four and three rounds, up to two calls in an answer.
SPECIFICATION Spec
CONSTANTS
    SearchRounds = 4
    VisualRounds = 3
    ToolLists <- Lists
    PlainTools <- Plain
    MaxCalls = 2
INVARIANTS
    EveryCallHasItsResult
    ClientCallsReachTheClient
    FunctionCallsComeBack
PROPERTIES
    RequestsEnd
\* A request is over when its answer is given.
CHECK_DEADLOCK FALSE

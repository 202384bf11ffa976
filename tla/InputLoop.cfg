\* Every input of up to five items, for a model whose name says that it reasons.
SPECIFICATION InputSpec
CONSTANTS
    MaxItems = 5
    ReasoningModel = TRUE
INVARIANTS
    OneWaits
    CallsAndOutputsKept
    ReasoningLeads
\* The input ends.
CHECK_DEADLOCK FALSE

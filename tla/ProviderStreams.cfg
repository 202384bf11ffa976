\* One stream of every protocol: up to seven chunks before it ends, in three
\* blocks or calls, and every habit of a provider.
SPECIFICATION Spec
CONSTANTS
    Protocols = {"anthropic", "chat", "google", "whole", "image"}
    MaxChunks = 7
    MaxBlocks = 3
INVARIANTS
    ClosedItemsStayClosed
    ItemsAreAnnounced
    TextIsItsDeltas
    ContentArrivesWhole
\* A stream ends.
CHECK_DEADLOCK FALSE

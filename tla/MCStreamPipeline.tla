------------------------- MODULE MCStreamPipeline -------------------------
(***************************************************************************)
(* Two streams: one long enough to fill the channels behind a handler that *)
(* does not receive, on either protocol, and a chat stream of one chunk.   *)
(***************************************************************************)
EXTENDS StreamPipeline

CONSTANTS r1, r2

TwoAndOne == [r \in Requests |-> IF r = r1 THEN 2 ELSE 1]
AnyAndChat == [r \in Requests |-> IF r = r1 THEN {"anthropic", "chat"} ELSE {"chat"}]
=============================================================================

-------------------------- MODULE StreamPipeline --------------------------
(***************************************************************************)
(* The goroutines of streaming requests (adapter_dispatch.go,              *)
(* handleAdapterStream): the reader of the provider's body, the adapter's  *)
(* goroutine (ToCoreStream), the loop of the OpenAI adapter (streamLoop)   *)
(* and the handler that writes to the client, joined by bounded channels;  *)
(* clients that leave or stop reading; and the stream buffers, which belong to the         *)
(* adapters and so are shared by all requests. A chunk is its number: what *)
(* the adapters make of it is the matter of ProviderStreams.               *)
(***************************************************************************)
EXTENDS Naturals, Sequences

CONSTANTS
    Requests,    \* the streaming requests
    ProtocolsOf, \* of each request: the protocols its provider may speak
    ChunkCap,    \* capacity of the channel of chunks (64 in the code)
    EventCap,    \* capacity of the channel of core events (64 in the code)
    BufferLimit, \* events an Anthropic adapter's buffer holds (1024 in the code)
    MaxChunks    \* of each request: bound on the chunks its provider sends

ASSUME PipelineAssumption ==
    /\ ChunkCap \in Nat \ {0} /\ EventCap \in Nat \ {0} /\ BufferLimit \in Nat \ {0}
    /\ MaxChunks \in [Requests -> Nat]
    /\ ProtocolsOf \in [Requests -> SUBSET {"anthropic", "chat"}]

VARIABLES
    protocol,   \* of each request: "chat" (and Gemini, which is built alike) or "anthropic"
    reader,     \* of each request: the reader of the provider's body
    chunks,     \* of each request: the channel of chunks
    adapter,    \* of each request: the goroutine of ToCoreStream
    events,     \* of each request: the channel of core events
    loop,       \* of each request: the goroutine of streamLoop
    handler,    \* of each request: the handler
    got,        \* of each request: what its client was sent
    client,     \* of each request: is the client there, and does it read?
    ctx,        \* of each request: is its context alive?
    buffer,     \* of each protocol: the adapter's StreamBuffer
    kept,       \* of each request: what its session remembers of the stream
    shared      \* ghost: the requests whose buffer another one has used meanwhile

channelVars == <<reader, chunks, adapter, events, loop>>
vars == <<protocol, channelVars, handler, got, client, ctx, buffer, kept, shared>>

Protocols == {"anthropic", "chat"}
None == <<0, "none">>
Messages == Nat \X {"event", "completed", "failed"}

Init ==
    /\ protocol \in {f \in [Requests -> Protocols] : \A r \in Requests : f[r] \in ProtocolsOf[r]}
    /\ reader = [r \in Requests |-> [pc |-> "idle", next |-> 1]]
    /\ chunks = [r \in Requests |-> <<>>]
    /\ adapter = [r \in Requests |-> [pc |-> "idle", hand |-> None]]
    /\ events = [r \in Requests |-> <<>>]
    /\ loop = [r \in Requests |-> [pc |-> "idle", hand |-> None]]
    /\ handler = [r \in Requests |-> "idle"]
    /\ got = [r \in Requests |-> <<>>]
    /\ client = [r \in Requests |-> "there"]
    /\ ctx = [r \in Requests |-> "alive"]
    /\ buffer = [p \in Protocols |-> <<>>]
    /\ kept = [r \in Requests |-> [chat |-> <<>>, anthropic |-> <<>>, final |-> FALSE]]
    /\ shared = {}

-----------------------------------------------------------------------------
At(proc, r, pc) == proc[r].pc = pc
Active(r) == adapter[r].pc \notin {"idle", "ended"}
Serving(r) == handler[r] \in {"writing", "broken"}
Chat(r) == protocol[r] = "chat"

\* Mutant: the buffer keeps what earlier streams left in it.
BeginOnOldBuffer(r) ==
    /\ handler[r] = "idle"
    /\ handler' = [handler EXCEPT ![r] = "writing"]
    /\ reader' = [reader EXCEPT ![r].pc = "reading"]
    /\ adapter' = [adapter EXCEPT ![r].pc = "reading"]
    /\ loop' = [loop EXCEPT ![r].pc = "taking"]
    /\ LET others == {q \in Requests \ {r} : protocol[q] = protocol[r]
                                             /\ (Active(q) \/ Serving(q))}
       IN shared' = shared \cup others \cup (IF others # {} THEN {r} ELSE {})
    /\ UNCHANGED <<protocol, chunks, events, got, client, ctx, buffer, kept>>

\* The provider has answered; the adapter empties its buffer and the goroutines
\* start. Who else uses the buffer now or begins later shares it.
Begin(r) ==
    /\ handler[r] = "idle"
    /\ handler' = [handler EXCEPT ![r] = "writing"]
    /\ reader' = [reader EXCEPT ![r].pc = "reading"]
    /\ adapter' = [adapter EXCEPT ![r].pc = "reading"]
    /\ loop' = [loop EXCEPT ![r].pc = "taking"]
    /\ buffer' = [buffer EXCEPT ![protocol[r]] = <<>>]
    /\ LET others == {q \in Requests \ {r} : protocol[q] = protocol[r]
                                             /\ (Active(q) \/ Serving(q))}
       IN shared' = shared \cup others \cup (IF others # {} THEN {r} ELSE {})
    /\ UNCHANGED <<protocol, chunks, events, got, client, ctx, kept>>

\* The next chunk of the body, or its end, which may come at any time: the
\* connection breaks, or the context is done. (An Anthropic adapter reads the
\* body itself: its channel of chunks is what has arrived.)
ReadChunk(r) ==
    /\ At(reader, r, "reading")
    /\ reader[r].next <= MaxChunks[r]
    /\ Len(chunks[r]) < ChunkCap
    /\ chunks' = [chunks EXCEPT ![r] = Append(@, <<reader[r].next, "event">>)]
    /\ reader' = [reader EXCEPT ![r].next = @ + 1]
    /\ UNCHANGED <<protocol, adapter, events, loop, handler, got, client, ctx, buffer, kept, shared>>

BodyEnds(r) ==
    /\ At(reader, r, "reading")
    /\ reader' = [reader EXCEPT ![r].pc = "ended"]
    /\ UNCHANGED <<protocol, chunks, adapter, events, loop, handler, got, client, ctx, buffer, kept, shared>>

\* The adapter takes a chunk and keeps it in its buffer, while there is room,
\* before it converts it. The chat adapter's buffer has no limit.
TakeChunk(r) ==
    /\ At(adapter, r, "reading")
    /\ chunks[r] # <<>>
    /\ buffer' = IF Chat(r) \/ Len(buffer["anthropic"]) < BufferLimit
                 THEN [buffer EXCEPT ![protocol[r]] = Append(@, <<r, Head(chunks[r])[1]>>)]
                 ELSE buffer
    /\ adapter' = [adapter EXCEPT ![r] = [pc |-> "emitting", hand |-> Head(chunks[r])]]
    /\ chunks' = [chunks EXCEPT ![r] = Tail(@)]
    /\ UNCHANGED <<protocol, reader, events, loop, handler, got, client, ctx, kept, shared>>

\* Mutant: the end of the body is seen before what is left in the channel.
EndOfBody(r) ==
    /\ At(adapter, r, "reading")
    /\ At(reader, r, "ended")
    /\ adapter' = [adapter EXCEPT ![r] = [pc |-> "last", hand |-> <<0, "completed">>]]
    /\ UNCHANGED <<protocol, reader, chunks, events, loop, handler, got, client, ctx, buffer, kept, shared>>

\* At the end of the body a chat stream is completed, however it ended; an
\* Anthropic stream just ends, or fails.
EndOfChunks(r) ==
    /\ At(adapter, r, "reading")
    /\ chunks[r] = <<>> /\ At(reader, r, "ended")
    /\ IF Chat(r)
       THEN adapter' = [adapter EXCEPT ![r] = [pc |-> "last", hand |-> <<0, "completed">>]]
       ELSE \/ adapter' = [adapter EXCEPT ![r].pc = "ended"]
            \/ \E last \in {"completed", "failed"} :
                 adapter' = [adapter EXCEPT ![r] = [pc |-> "last", hand |-> <<0, last>>]]
    /\ UNCHANGED <<protocol, reader, chunks, events, loop, handler, got, client, ctx, buffer, kept, shared>>

\* Both adapters look at the context when they read.
StopReading(r) ==
    /\ At(adapter, r, "reading")
    /\ ctx[r] = "done"
    /\ adapter' = [adapter EXCEPT ![r].pc = "ended"]
    /\ UNCHANGED <<protocol, reader, chunks, events, loop, handler, got, client, ctx, buffer, kept, shared>>

Emitted(pc) == IF pc = "last" THEN "ended" ELSE "reading"

Emit(r) ==
    /\ adapter[r].pc \in {"emitting", "last"}
    /\ Len(events[r]) < EventCap
    /\ events' = [events EXCEPT ![r] = Append(@, adapter[r].hand)]
    /\ adapter' = [adapter EXCEPT ![r] = [pc |-> Emitted(@.pc), hand |-> None]]
    /\ UNCHANGED <<protocol, reader, chunks, loop, handler, got, client, ctx, buffer, kept, shared>>

\* Mutant: an event that finds the channel full is dropped.
DropWhenFull(r) ==
    /\ adapter[r].pc \in {"emitting", "last"}
    /\ Chat(r) /\ Len(events[r]) = EventCap
    /\ adapter' = [adapter EXCEPT ![r] = [pc |-> Emitted(@.pc), hand |-> None]]
    /\ UNCHANGED <<protocol, reader, chunks, events, loop, handler, got, client, ctx, buffer, kept, shared>>

\* The emit of the chat and Gemini adapters drops the event when the context is
\* done; the Anthropic one waits for room whatever happens.
DropEvent(r) ==
    /\ adapter[r].pc \in {"emitting", "last"}
    /\ Chat(r) /\ ctx[r] = "done"
    /\ adapter' = [adapter EXCEPT ![r] = [pc |-> Emitted(@.pc), hand |-> None]]
    /\ UNCHANGED <<protocol, reader, chunks, events, loop, handler, got, client, ctx, buffer, kept, shared>>

TakeEvent(r) ==
    /\ At(loop, r, "taking")
    /\ events[r] # <<>>
    /\ loop' = [loop EXCEPT ![r] = [pc |-> "sending", hand |-> Head(events[r])]]
    /\ events' = [events EXCEPT ![r] = Tail(@)]
    /\ UNCHANGED <<protocol, reader, chunks, adapter, handler, got, client, ctx, buffer, kept, shared>>

\* Mutant: the channel is closed after a completed response only.
CloseWhenCompleted(r) ==
    /\ At(loop, r, "taking")
    /\ events[r] = <<>> /\ At(adapter, r, "ended")
    /\ \E n \in 1..Len(got[r]) : got[r][n][2] = "completed"
    /\ loop' = [loop EXCEPT ![r].pc = "ended"]
    /\ UNCHANGED <<protocol, reader, chunks, adapter, events, handler, got, client, ctx, buffer, kept, shared>>

EndOfEvents(r) ==
    /\ At(loop, r, "taking")
    /\ events[r] = <<>> /\ At(adapter, r, "ended")
    /\ loop' = [loop EXCEPT ![r].pc = "ended"]
    /\ UNCHANGED <<protocol, reader, chunks, adapter, events, handler, got, client, ctx, buffer, kept, shared>>

Received(r) == loop' = [loop EXCEPT ![r] = [pc |-> "taking", hand |-> None]]

\* The channel to the handler has no room: the loop and the handler meet. The
\* write waits for a client that does not read, without a timeout; it fails when
\* the client is gone, and may then still succeed.
WriteEvent(r) ==
    /\ handler[r] = "writing" /\ At(loop, r, "sending")
    /\ client[r] # "stalled"
    /\ Received(r)
    /\ got' = [got EXCEPT ![r] = Append(@, loop[r].hand)]
    /\ UNCHANGED <<protocol, reader, chunks, adapter, events, handler, client, ctx, buffer, kept, shared>>

WriteFails(r) ==
    /\ handler[r] = "writing" /\ At(loop, r, "sending")
    /\ client[r] = "gone"
    /\ Received(r)
    /\ handler' = [handler EXCEPT ![r] = "broken"]
    /\ UNCHANGED <<protocol, reader, chunks, adapter, events, got, client, ctx, buffer, kept, shared>>

Completed(r) == \E n \in 1..Len(got[r]) : got[r][n][2] = "completed"

\* After the last event, or a failed write, the session is given what it is to
\* remember: the final response, or else all that is in the Anthropic adapter's
\* buffer; and, whatever the protocol of the request, the reasoning and the
\* calls in the chat adapter's buffer. Then the handler returns, and the server
\* ends the context.
Remember(r) ==
    /\ \/ handler[r] = "writing" /\ At(loop, r, "ended")
       \/ handler[r] = "broken"
    /\ kept' = [kept EXCEPT ![r] =
                  [final |-> Completed(r),
                   anthropic |-> IF Completed(r) THEN <<>> ELSE buffer["anthropic"],
                   chat |-> buffer["chat"]]]
    /\ handler' = [handler EXCEPT ![r] = IF @ = "writing" THEN "returned" ELSE "abandoned"]
    /\ ctx' = [ctx EXCEPT ![r] = "done"]
    /\ UNCHANGED <<protocol, channelVars, got, client, buffer, shared>>

\* A client stays connected and reads no more: what it is sent fills the buffers
\* of the connection, and the next write has to wait.
ClientStalls(r) ==
    /\ handler[r] = "writing" /\ client[r] = "there"
    /\ client' = [client EXCEPT ![r] = "stalled"]
    /\ UNCHANGED <<protocol, channelVars, handler, got, ctx, buffer, kept, shared>>

\* A client goes away; the server notices some time later.
ClientLeaves(r) ==
    /\ handler[r] = "writing" /\ client[r] # "gone"
    /\ client' = [client EXCEPT ![r] = "gone"]
    /\ UNCHANGED <<protocol, channelVars, handler, got, ctx, buffer, kept, shared>>

ContextEnds(r) ==
    /\ client[r] = "gone" /\ ctx[r] = "alive"
    /\ ctx' = [ctx EXCEPT ![r] = "done"]
    /\ UNCHANGED <<protocol, channelVars, handler, got, client, buffer, kept, shared>>

ReaderStep(r) == ReadChunk(r) \/ BodyEnds(r)
AdapterStep(r) == TakeChunk(r) \/ EndOfChunks(r) \/ StopReading(r) \/ Emit(r) \/ DropEvent(r)
LoopStep(r) == TakeEvent(r) \/ EndOfEvents(r)
HandlerStep(r) == WriteEvent(r) \/ WriteFails(r) \/ Remember(r)

Next == \E r \in Requests :
    Begin(r) \/ ReaderStep(r) \/ AdapterStep(r) \/ LoopStep(r) \/ HandlerStep(r)
    \/ ClientStalls(r) \/ ClientLeaves(r) \/ ContextEnds(r)

\* The goroutines are scheduled, and the server notices that a client has left.
\* A body ends with the request's context: a provider that keeps it open is not
\* forced to do anything, since the client that reads it has no timeout. Nor is a
\* client that has stopped reading, since the server has no timeout for writes.
Fairness == \A r \in Requests :
    /\ WF_vars(AdapterStep(r)) /\ WF_vars(LoopStep(r)) /\ WF_vars(HandlerStep(r))
    /\ WF_vars(ContextEnds(r)) /\ WF_vars(ctx[r] = "done" /\ BodyEnds(r))

Spec == Init /\ [][Next]_vars /\ Fairness

-----------------------------------------------------------------------------
(* Properties *)

Pcs(pcs) == [pc : pcs, hand : Messages \cup {None}]

TypeOK ==
    /\ protocol \in [Requests -> Protocols]
    /\ reader \in [Requests -> [pc : {"idle", "reading", "ended"}, next : Nat]]
    /\ adapter \in [Requests -> Pcs({"idle", "reading", "emitting", "last", "ended"})]
    /\ loop \in [Requests -> Pcs({"idle", "taking", "sending", "ended"})]
    /\ chunks \in [Requests -> Seq(Messages)] /\ \A r \in Requests : Len(chunks[r]) <= ChunkCap
    /\ events \in [Requests -> Seq(Messages)] /\ \A r \in Requests : Len(events[r]) <= EventCap
    /\ got \in [Requests -> Seq(Messages)]
    /\ handler \in [Requests -> {"idle", "writing", "broken", "returned", "abandoned"}]
    /\ client \in [Requests -> {"there", "stalled", "gone"}]
    /\ ctx \in [Requests -> {"alive", "done"}]
    /\ buffer \in [Protocols -> Seq(Requests \X Nat)]
    /\ kept \in [Requests -> [chat : Seq(Requests \X Nat), anthropic : Seq(Requests \X Nat),
                              final : BOOLEAN]]
    /\ shared \subseteq Requests

\* What is on its way to the client of a request, oldest first.
Hand(proc, r) == IF proc[r].hand = None THEN <<>> ELSE <<proc[r].hand>>
InFlight(r) == Hand(loop, r) \o events[r] \o Hand(adapter, r) \o chunks[r]

\* The events the providers may send.
Fresh == (UNION {0..MaxChunks[r] : r \in Requests}) \X {"event", "completed", "failed"}

Queue == [r \in Requests |-> InFlight(r)]
GivenUp == {r \in Requests : client[r] = "gone" \/ ctx[r] = "done"}

Fifo == INSTANCE StreamFifo WITH Events <- Fresh, queue <- Queue, givenUp <- GivenUp

\* Four goroutines and three channels are a queue: what a provider sends is
\* received in its order, once, and lost only after the client has left or the
\* handler has returned.
DeliversInOrder == Fifo!Spec

Sent(r) == [n \in 1..(reader[r].next - 1) |-> <<n, "event">>]

\* A client that stays to the end has been sent all that the provider sent, and
\* after it at most the one event that ends the response.
StayingClientGetsAll ==
    \A r \in Requests :
        handler[r] = "returned" /\ client[r] # "gone" =>
            \/ got[r] = Sent(r) /\ ~Chat(r)
            \/ \E last \in {"completed", "failed"} : got[r] = Append(Sent(r), <<0, last>>)

Own(r) == [n \in 1..(reader[r].next - 1) |-> <<r, n>>]

Buffered(r) ==
    IF Chat(r) \/ Len(Own(r)) <= BufferLimit THEN Own(r) ELSE SubSeq(Own(r), 1, BufferLimit)

\* What a session keeps of a stream that ended is its own stream, all of it that
\* the buffer holds, if no other request used the buffer in the meantime.
OwnStreamRemembered ==
    \A r \in Requests \ shared :
        handler[r] = "returned" /\ client[r] # "gone" =>
            /\ Chat(r) => kept[r].chat = Buffered(r)
            /\ ~Chat(r) => kept[r].final \/ kept[r].anthropic = Buffered(r)

\* Every streaming request comes to an end, whether its client stays or not, save
\* when the client stays for ever and either the provider keeps the body open or a
\* write waits for the client, which has stopped reading (adapter_dispatch.go:1424;
\* the server of app.go:627 has no WriteTimeout).
HandlersReturn ==
    \A r \in Requests :
        \/ <>[](At(reader, r, "reading") /\ client[r] # "gone")
        \/ <>[](At(loop, r, "sending") /\ client[r] = "stalled")
        \/ handler[r] = "writing" ~> handler[r] \in {"returned", "abandoned"}

\* "The returned channel is closed when the input channel is exhausted"
\* (openai/adapter.go:316): when a handler has returned its goroutines end.
\* Does not hold after a failed write: nobody receives from the loop any more.
GoroutinesEnd ==
    \A r \in Requests :
        handler[r] \in {"returned", "abandoned"} ~> At(adapter, r, "ended") /\ At(loop, r, "ended")

\* A session remembers nothing of another request's stream. Does not hold: the
\* buffers are the adapters', and the chat adapter's is read at the end of
\* every stream.
NothingOfOthersRemembered ==
    \A r \in Requests : \A n \in 1..Len(kept[r].chat) : kept[r].chat[n][1] = r
=============================================================================

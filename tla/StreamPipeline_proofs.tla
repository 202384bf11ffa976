------------------------ MODULE StreamPipeline_proofs ------------------------
(***************************************************************************)
(* Proofs about the stream pipeline, for any number of requests, any       *)
(* capacities and any number of chunks: its types, that it implements      *)
(* StreamFifo, that a client that stays gets all of its stream, and that a *)
(* session remembers its own stream if nobody shared its buffer.           *)
(***************************************************************************)
EXTENDS StreamPipeline, SequenceTheorems, TLAPS

USE PipelineAssumption

-----------------------------------------------------------------------------
(***************************************************************************)
(* A queue in four parts: what the loop holds, the events, what the        *)
(* adapter holds, the chunks.                                              *)
(***************************************************************************)

Parts(a, b, c, d) == a \o b \o c \o d

LEMMA PartsTyped ==
  ASSUME NEW S, NEW a \in Seq(S), NEW b \in Seq(S), NEW c \in Seq(S), NEW d \in Seq(S)
  PROVE  Parts(a, b, c, d) \in Seq(S)
  BY ConcatProperties DEF Parts

LEMMA Singleton == ASSUME NEW S, NEW e \in S PROVE <<e>> \in Seq(S) /\ <<>> \in Seq(S)
  OBVIOUS

LEMMA HeadAndTail ==
  ASSUME NEW S, NEW s \in Seq(S), s # <<>>
  PROVE  Head(s) \in S /\ Tail(s) \in Seq(S) /\ <<Head(s)>> \in Seq(S) /\ <<Head(s)>> \o Tail(s) = s
<1>1. /\ Head(s) \in S /\ Tail(s) \in Seq(S) /\ Len(Tail(s)) = Len(s) - 1
      /\ \A i \in 1..Len(Tail(s)) : Tail(s)[i] = s[i + 1]
  BY HeadTailProperties
<1>2. <<Head(s)>> \in Seq(S) /\ Len(<<Head(s)>>) = 1 /\ <<Head(s)>>[1] = s[1]
  BY <1>1
<1>3. Len(s) \in Nat \ {0}
  BY EmptySeq
<1> DEFINE t == <<Head(s)>> \o Tail(s)
<1>4. /\ t \in Seq(S) /\ Len(t) = 1 + (Len(s) - 1)
      /\ \A i \in 1..(1 + (Len(s) - 1)) : t[i] = IF i <= 1 THEN <<Head(s)>>[i] ELSE Tail(s)[i - 1]
  <2>1. \A i \in 1..(Len(<<Head(s)>>) + Len(Tail(s))) :
          t[i] = IF i <= Len(<<Head(s)>>) THEN <<Head(s)>>[i] ELSE Tail(s)[i - Len(<<Head(s)>>)]
    BY <1>1, <1>2, ConcatProperties
  <2>2. t \in Seq(S) /\ Len(t) = Len(<<Head(s)>>) + Len(Tail(s))
    BY <1>1, <1>2, ConcatProperties
  <2> QED
    BY <1>1, <1>2, <2>1, <2>2
<1>5. \A i \in 1..Len(s) : t[i] = s[i]
  BY <1>1, <1>2, <1>3, <1>4
<1> HIDE DEF t
<1>6. t = s
  BY <1>3, <1>4, <1>5, SeqEqual
<1> QED
  BY <1>1, <1>2, <1>6 DEF t

\* The first element of d moves to what is before it.
LEMMA HeadMoves ==
  ASSUME NEW S, NEW s \in Seq(S), NEW d \in Seq(S), d # <<>>
  PROVE  (s \o <<Head(d)>>) \o Tail(d) = s \o d
<1>1. <<Head(d)>> \o Tail(d) = d /\ Tail(d) \in Seq(S) /\ <<Head(d)>> \in Seq(S)
  BY HeadAndTail
<1> DEFINE h == <<Head(d)>>
           t == Tail(d)
<1> HIDE DEF h, t
<1>2. h \in Seq(S) /\ t \in Seq(S)
  BY <1>1 DEF h, t
<1>3. (s \o h) \o t = s \o (h \o t)
  BY <1>2, ConcatAssociative
<1>4. (s \o h) \o t = s \o d
  BY <1>1, <1>3, Zenon DEF h, t
<1> QED
  BY <1>4, Zenon DEF h, t

\* What is put comes last.
LEMMA AppendToLast ==
  ASSUME NEW S, NEW s \in Seq(S), NEW d \in Seq(S), NEW e \in S
  PROVE  s \o Append(d, e) = Append(s \o d, e)
<1>1. d \o <<e>> = Append(d, e) /\ <<e>> \in Seq(S)
  BY AppendIsConcat, Singleton
<1>2. (s \o d) \o <<e>> = s \o (d \o <<e>>)
  BY <1>1, ConcatAssociative
<1>3. s \o d \in Seq(S)
  BY ConcatProperties
<1>4. Append(s \o d, e) = (s \o d) \o <<e>>
  BY <1>3, AppendIsConcat
<1> QED
  BY <1>1, <1>2, <1>4

\* The first chunk goes into the adapter's hand.
LEMMA HeadOfLast ==
  ASSUME NEW S, NEW a \in Seq(S), NEW b \in Seq(S), NEW d \in Seq(S), d # <<>>
  PROVE  Parts(a, b, <<Head(d)>>, Tail(d)) = Parts(a, b, <<>>, d)
<1> DEFINE s == a \o b
<1>1. s \in Seq(S)
  BY ConcatProperties
<1> HIDE DEF s
<1>2. Tail(d) \in Seq(S) /\ <<Head(d)>> \in Seq(S)
  BY HeadAndTail
<1>3. <<Head(d)>> \o Tail(d) = d
  BY HeadAndTail
<1>4. (s \o <<Head(d)>>) \o Tail(d) = s \o d
  BY <1>1, HeadMoves, Zenon
<1>5. s \o <<>> = s
  BY <1>1, ConcatEmptySeq
<1> QED
  BY <1>4, <1>5 DEF Parts, s

\* What the adapter holds becomes the last event.
LEMMA HandToEvents ==
  ASSUME NEW S, NEW a \in Seq(S), NEW b \in Seq(S), NEW d \in Seq(S), NEW h \in S
  PROVE  Parts(a, Append(b, h), <<>>, d) = Parts(a, b, <<h>>, d)
<1>1. <<h>> \in Seq(S) /\ Append(b, h) = b \o <<h>>
  BY Singleton, AppendIsConcat
<1>2. a \o (b \o <<h>>) = (a \o b) \o <<h>>
  BY <1>1, ConcatAssociative
<1>3. b \o <<h>> \in Seq(S)
  BY <1>1, ConcatProperties
<1>4. a \o (b \o <<h>>) \in Seq(S)
  BY <1>3, ConcatProperties
<1>5. (a \o (b \o <<h>>)) \o <<>> = a \o (b \o <<h>>)
  BY <1>4, ConcatEmptySeq
<1> QED
  BY <1>1, <1>2, <1>5 DEF Parts

\* The first event goes into the loop's hand.
LEMMA HeadOfEvents ==
  ASSUME NEW S, NEW b \in Seq(S), NEW c \in Seq(S), NEW d \in Seq(S), b # <<>>
  PROVE  Parts(<<Head(b)>>, Tail(b), c, d) = Parts(<<>>, b, c, d)
<1>1. <<Head(b)>> \o Tail(b) = b /\ <<>> \o b = b
  BY ConcatEmptySeq, HeadAndTail
<1> QED
  BY <1>1 DEF Parts

\* What the loop holds is the first of all.
LEMMA FirstOf ==
  ASSUME NEW S, NEW q \in Seq(S), NEW h \in S
  PROVE  /\ <<h>> \o q # <<>> /\ Head(<<h>> \o q) = h /\ Tail(<<h>> \o q) = q
         /\ 1 \in DOMAIN (<<h>> \o q) /\ Fifo!Without(<<h>> \o q, 1) = q
<1>1. <<h>> \o q # <<>> /\ Head(<<h>> \o q) = h /\ Tail(<<h>> \o q) = q
  OBVIOUS
<1>2. 1 \in DOMAIN (<<h>> \o q)
  OBVIOUS
<1>3. Fifo!Without(<<h>> \o q, 1) = q
  BY DEF Fifo!Without
<1> QED
  BY <1>1, <1>2, <1>3

\* What is lost from the adapter's hand is lost from the middle.
LEMMA HandLost ==
  ASSUME NEW S, NEW a \in Seq(S), NEW b \in Seq(S), NEW d \in Seq(S), NEW h \in S
  PROVE  \E k \in DOMAIN Parts(a, b, <<h>>, d) :
           Parts(a, b, <<>>, d) = Fifo!Without(Parts(a, b, <<h>>, d), k)
<1> DEFINE s == a \o b
           k == Len(s) + 1
           q == (s \o <<h>>) \o d
<1>1. s \in Seq(S) /\ Len(s) \in Nat
  BY ConcatProperties, LenProperties
<1> HIDE DEF s
<1>2. s \o <<>> = s
  BY <1>1, ConcatEmptySeq
<1>3. q \in Seq(S) /\ Len(q) = Len(s) + 1 + Len(d) /\ Len(d) \in Nat
  BY <1>1
<1>4. k \in DOMAIN q
  BY <1>1, <1>3
<1>5. SubSeq(q, 1, k - 1) = s
  BY <1>1, <1>3
<1>6. SubSeq(q, k + 1, Len(q)) = d
  BY <1>1, <1>3
<1>7. Fifo!Without(q, k) = s \o d
  BY <1>5, <1>6 DEF Fifo!Without
<1> QED
  BY <1>2, <1>4, <1>7 DEF Parts, s

-----------------------------------------------------------------------------
(***************************************************************************)
(* Types. A goroutine holds something exactly while it has to pass it on,  *)
(* and waits for its handler to begin.                                     *)
(***************************************************************************)

ProcsTyped ==
    /\ protocol \in [Requests -> Protocols]
    /\ reader \in [Requests -> [pc : {"idle", "reading", "ended"}, next : Nat]]
    /\ handler \in [Requests -> {"idle", "writing", "broken", "returned", "abandoned"}]
    /\ client \in [Requests -> {"there", "stalled", "gone"}]
    /\ ctx \in [Requests -> {"alive", "done"}]
    /\ shared \subseteq Requests

HandsTyped ==
    /\ adapter \in [Requests -> Pcs({"idle", "reading", "emitting", "last", "ended"})]
    /\ loop \in [Requests -> Pcs({"idle", "taking", "sending", "ended"})]

ChannelsTyped ==
    /\ chunks \in [Requests -> Seq(Messages)]
    /\ events \in [Requests -> Seq(Messages)]
    /\ got \in [Requests -> Seq(Messages)]

ChannelsBounded ==
    \A r \in Requests : Len(chunks[r]) <= ChunkCap /\ Len(events[r]) <= EventCap

BuffersTyped ==
    /\ buffer \in [Protocols -> Seq(Requests \X Nat)]
    /\ kept \in [Requests -> [chat : Seq(Requests \X Nat), anthropic : Seq(Requests \X Nat),
                              final : BOOLEAN]]

HandsMatch ==
    \A r \in Requests :
        /\ adapter[r].hand # None <=> adapter[r].pc \in {"emitting", "last"}
        /\ loop[r].hand # None <=> loop[r].pc = "sending"
        /\ handler[r] = "idle" => adapter[r].pc = "idle" /\ loop[r].pc = "idle"

LEMMA LastEvents ==
  <<0, "completed">> \in Messages /\ <<0, "failed">> \in Messages
  BY DEF Messages

LEMMA NoneIsNoMessage == None \notin Messages
  BY DEF None, Messages

LEMMA TypeInit == Init => TypeOK /\ HandsMatch
<1> SUFFICES ASSUME Init PROVE TypeOK /\ HandsMatch
  OBVIOUS
<1>1. /\ <<>> \in Seq(Messages) /\ Len(<<>>) = 0 /\ <<>> \in Seq(Requests \X Nat)
  BY EmptySeq
<1>2. HandsMatch
  BY DEF Init, HandsMatch
<1>3. protocol \in [Requests -> Protocols]
  BY DEF Init
<1>4. /\ reader \in [Requests -> [pc : {"idle", "reading", "ended"}, next : Nat]]
      /\ adapter \in [Requests -> Pcs({"idle", "reading", "emitting", "last", "ended"})]
      /\ loop \in [Requests -> Pcs({"idle", "taking", "sending", "ended"})]
  BY DEF Init, Pcs
<1>5. /\ chunks \in [Requests -> Seq(Messages)] /\ events \in [Requests -> Seq(Messages)]
      /\ got \in [Requests -> Seq(Messages)]
      /\ \A r \in Requests : Len(chunks[r]) <= ChunkCap /\ Len(events[r]) <= EventCap
  BY <1>1 DEF Init, PipelineAssumption
<1>6. /\ handler \in [Requests -> {"idle", "writing", "broken", "returned", "abandoned"}]
      /\ client \in [Requests -> {"there", "stalled", "gone"}] /\ ctx \in [Requests -> {"alive", "done"}]
      /\ shared \subseteq Requests
  BY DEF Init
<1>7. /\ buffer \in [Protocols -> Seq(Requests \X Nat)]
      /\ kept \in [Requests -> [chat : Seq(Requests \X Nat), anthropic : Seq(Requests \X Nat),
                               final : BOOLEAN]]
  BY <1>1 DEF Init
<1> QED
  BY <1>2, <1>3, <1>4, <1>5, <1>6, <1>7 DEF TypeOK

LEMMA TypeParts ==
  TypeOK <=> /\ ProcsTyped /\ HandsTyped /\ ChannelsTyped /\ ChannelsBounded /\ BuffersTyped
  BY DEF TypeOK, ProcsTyped, HandsTyped, ChannelsTyped, ChannelsBounded, BuffersTyped

\* A function changed at one place.
LEMMA Updated ==
  ASSUME NEW D, NEW T, NEW f \in [D -> T], NEW d \in D, NEW v \in T
  PROVE  /\ [f EXCEPT ![d] = v] \in [D -> T] /\ [f EXCEPT ![d] = v][d] = v
         /\ \A e \in D \ {d} : [f EXCEPT ![d] = v][e] = f[e]
  OBVIOUS

LEMMA ReaderAdvanced ==
  ASSUME reader \in [Requests -> [pc : {"idle", "reading", "ended"}, next : Nat]],
         NEW r \in Requests, NEW n \in Nat
  PROVE  /\ [reader EXCEPT ![r].next = n]
              \in [Requests -> [pc : {"idle", "reading", "ended"}, next : Nat]]
         /\ reader[r].next + 1 \in Nat
  OBVIOUS

LEMMA ProcsNext ==
  ProcsTyped /\ [Next]_vars => ProcsTyped'
<1> SUFFICES ASSUME ProcsTyped, [Next]_vars PROVE ProcsTyped'
  OBVIOUS
<1> USE DEF ProcsTyped
<1>1. ASSUME NEW r \in Requests, Begin(r) PROVE ProcsTyped'
  BY <1>1 DEF Begin
<1>2. ASSUME NEW r \in Requests, ReadChunk(r) PROVE ProcsTyped'
  <2>1. reader[r].next + 1 \in Nat
    <3>1. 0 \in Nat
      OBVIOUS
    <3> QED
      BY <3>1, ReaderAdvanced
  <2>2. reader' = [reader EXCEPT ![r].next = @ + 1]
    BY <1>2 DEF ReadChunk
  <2>4. reader' \in [Requests -> [pc : {"idle", "reading", "ended"}, next : Nat]]
    BY <2>1, <2>2, ReaderAdvanced
  <2> QED
    BY <1>2, <2>4 DEF ReadChunk
<1>3. ASSUME NEW r \in Requests, BodyEnds(r) PROVE ProcsTyped'
  BY <1>3 DEF BodyEnds
<1>4. ASSUME NEW r \in Requests, WriteFails(r) PROVE ProcsTyped'
  BY <1>4 DEF WriteFails
<1>5. ASSUME NEW r \in Requests, Remember(r) PROVE ProcsTyped'
  BY <1>5 DEF Remember, channelVars
<1>6. ASSUME NEW r \in Requests, ClientStalls(r) \/ ClientLeaves(r) PROVE ProcsTyped'
  BY <1>6 DEF ClientStalls, ClientLeaves, channelVars
<1>7. ASSUME NEW r \in Requests, ContextEnds(r) PROVE ProcsTyped'
  BY <1>7 DEF ContextEnds, channelVars
<1>8. ASSUME NEW r \in Requests,
             TakeChunk(r) \/ EndOfChunks(r) \/ StopReading(r) \/ Emit(r)
             \/ DropEvent(r) \/ TakeEvent(r) \/ EndOfEvents(r)
             \/ WriteEvent(r)
      PROVE  ProcsTyped'
  BY <1>8 DEF TakeChunk, EndOfChunks, StopReading, Emit, DropEvent, TakeEvent,
          EndOfEvents, WriteEvent, channelVars
<1>9. CASE UNCHANGED vars
  BY <1>9 DEF vars, channelVars
<1> QED
  BY <1>1, <1>2, <1>3, <1>4, <1>5, <1>6, <1>7, <1>8, <1>9
     DEF Next, ReaderStep, AdapterStep, LoopStep, HandlerStep

\* The states of a goroutine that may hold an event, one by one.
LEMMA AdapterAt ==
  ASSUME HandsTyped, NEW r \in Requests, NEW pc
  PROVE  [adapter EXCEPT ![r].pc = pc] = [adapter EXCEPT ![r] = [pc |-> pc, hand |-> adapter[r].hand]]
<1>1. [adapter[r] EXCEPT !.pc = pc] = [pc |-> pc, hand |-> adapter[r].hand]
  BY DEF HandsTyped, Pcs
<1>2. [adapter EXCEPT ![r].pc = pc] = [adapter EXCEPT ![r] = [adapter[r] EXCEPT !.pc = pc]]
  OBVIOUS
<1> QED
  BY <1>1, <1>2

LEMMA AdapterState ==
  ASSUME HandsTyped, NEW r \in Requests
  PROVE  /\ adapter[r].pc \in {"idle", "reading", "emitting", "last", "ended"}
         /\ adapter[r].hand \in Messages \cup {None}
         /\ \A pc \in {"idle", "reading", "emitting", "last", "ended"}, h \in Messages \cup {None} :
              /\ [adapter EXCEPT ![r] = [pc |-> pc, hand |-> h]]
                    \in [Requests -> Pcs({"idle", "reading", "emitting", "last", "ended"})]
              /\ [adapter EXCEPT ![r] = [pc |-> pc, hand |-> h]][r].pc = pc
              /\ [adapter EXCEPT ![r] = [pc |-> pc, hand |-> h]][r].hand = h
              /\ \A q \in Requests \ {r} :
                   [adapter EXCEPT ![r] = [pc |-> pc, hand |-> h]][q] = adapter[q]
  BY DEF HandsTyped, Pcs

LEMMA LoopAt ==
  ASSUME HandsTyped, NEW r \in Requests, NEW pc
  PROVE  [loop EXCEPT ![r].pc = pc] = [loop EXCEPT ![r] = [pc |-> pc, hand |-> loop[r].hand]]
<1>1. [loop[r] EXCEPT !.pc = pc] = [pc |-> pc, hand |-> loop[r].hand]
  BY DEF HandsTyped, Pcs
<1>2. [loop EXCEPT ![r].pc = pc] = [loop EXCEPT ![r] = [loop[r] EXCEPT !.pc = pc]]
  OBVIOUS
<1> QED
  BY <1>1, <1>2

LEMMA LoopState ==
  ASSUME HandsTyped, NEW r \in Requests
  PROVE  /\ loop[r].pc \in {"idle", "taking", "sending", "ended"}
         /\ loop[r].hand \in Messages \cup {None}
         /\ \A pc \in {"idle", "taking", "sending", "ended"}, h \in Messages \cup {None} :
              /\ [loop EXCEPT ![r] = [pc |-> pc, hand |-> h]]
                    \in [Requests -> Pcs({"idle", "taking", "sending", "ended"})]
              /\ [loop EXCEPT ![r] = [pc |-> pc, hand |-> h]][r].pc = pc
              /\ [loop EXCEPT ![r] = [pc |-> pc, hand |-> h]][r].hand = h
              /\ \A q \in Requests \ {r} :
                   [loop EXCEPT ![r] = [pc |-> pc, hand |-> h]][q] = loop[q]
  BY DEF HandsTyped, Pcs

\* Only one of the two goroutines of one request moves.
LEMMA AdapterMoves ==
  ASSUME HandsTyped, HandsMatch, NEW r \in Requests,
         NEW pc \in {"reading", "emitting", "last", "ended"}, NEW h \in Messages \cup {None},
         h # None <=> pc \in {"emitting", "last"}, handler[r] # "idle",
         adapter' = [adapter EXCEPT ![r] = [pc |-> pc, hand |-> h]], loop' = loop,
         handler' = handler
  PROVE  (HandsTyped /\ HandsMatch)'
<1>1. /\ adapter' \in [Requests -> Pcs({"idle", "reading", "emitting", "last", "ended"})]
      /\ adapter'[r].pc = pc /\ adapter'[r].hand = h
      /\ \A q \in Requests \ {r} : adapter'[q] = adapter[q]
  BY AdapterState
<1>2. HandsTyped'
  BY <1>1 DEF HandsTyped
<1>3. HandsMatch'
  BY <1>1 DEF HandsMatch
<1> QED
  BY <1>2, <1>3

LEMMA LoopMoves ==
  ASSUME HandsTyped, HandsMatch, NEW r \in Requests,
         NEW pc \in {"taking", "sending", "ended"}, NEW h \in Messages \cup {None},
         h # None <=> pc = "sending", handler[r] # "idle",
         loop' = [loop EXCEPT ![r] = [pc |-> pc, hand |-> h]], adapter' = adapter,
         \A q \in Requests : handler'[q] = "idle" => handler[q] = "idle"
  PROVE  (HandsTyped /\ HandsMatch)'
<1>1. /\ loop' \in [Requests -> Pcs({"idle", "taking", "sending", "ended"})]
      /\ loop'[r].pc = pc /\ loop'[r].hand = h
      /\ \A q \in Requests \ {r} : loop'[q] = loop[q]
  BY LoopState
<1>2. HandsTyped'
  BY <1>1 DEF HandsTyped
<1>3. HandsMatch'
  <2>1. ASSUME NEW q \in Requests \ {r}
        PROVE  handler'[q] = "idle" => adapter'[q].pc = "idle" /\ loop'[q].pc = "idle"
    BY <1>1, <2>1 DEF HandsMatch
  <2>2. ASSUME handler'[r] = "idle" PROVE FALSE
    BY <2>2
  <2>3. \A q \in Requests : loop'[q].hand # None <=> loop'[q].pc = "sending"
    BY <1>1 DEF HandsMatch
  <2>4. \A q \in Requests : adapter'[q].hand # None <=> adapter'[q].pc \in {"emitting", "last"}
    BY DEF HandsMatch
  <2> QED
    BY <2>1, <2>2, <2>3, <2>4 DEF HandsMatch
<1> QED
  BY <1>2, <1>3

LEMMA HandsNext ==
  ProcsTyped /\ ChannelsTyped /\ HandsTyped /\ HandsMatch /\ [Next]_vars => (HandsTyped /\ HandsMatch)'
<1> SUFFICES ASSUME ProcsTyped, ChannelsTyped, HandsTyped, HandsMatch, [Next]_vars PROVE (HandsTyped /\ HandsMatch)'
  OBVIOUS
<1>1. ASSUME NEW r \in Requests, Begin(r) PROVE (HandsTyped /\ HandsMatch)'
  <2>1. adapter[r].hand = None /\ loop[r].hand = None
    BY <1>1, AdapterState, LoopState DEF Begin, HandsMatch
  <2>2. /\ adapter' = [adapter EXCEPT ![r] = [pc |-> "reading", hand |-> None]]
        /\ loop' = [loop EXCEPT ![r] = [pc |-> "taking", hand |-> None]]
        /\ handler' = [handler EXCEPT ![r] = "writing"]
    BY <1>1, <2>1, AdapterAt, LoopAt DEF Begin
  <2>3. HandsTyped'
    BY <2>2, AdapterState, LoopState DEF HandsTyped
  <2>4. /\ adapter'[r].hand = None /\ adapter'[r].pc = "reading"
        /\ loop'[r].hand = None /\ loop'[r].pc = "taking" /\ handler'[r] = "writing"
        /\ \A q \in Requests \ {r} :
             adapter'[q] = adapter[q] /\ loop'[q] = loop[q] /\ handler'[q] = handler[q]
    <3>1. adapter'[r].hand = None /\ adapter'[r].pc = "reading"
          /\ \A q \in Requests \ {r} : adapter'[q] = adapter[q]
      BY <2>2 DEF HandsTyped
    <3>2. loop'[r].hand = None /\ loop'[r].pc = "taking"
          /\ \A q \in Requests \ {r} : loop'[q] = loop[q]
      BY <2>2 DEF HandsTyped
    <3>3. handler'[r] = "writing" /\ \A q \in Requests \ {r} : handler'[q] = handler[q]
      BY <2>2 DEF ProcsTyped
    <3> QED
      BY <3>1, <3>2, <3>3
  <2>5. HandsMatch'
    BY <2>4 DEF HandsMatch
  <2> QED
    BY <2>3, <2>5
<1>2. ASSUME NEW r \in Requests, TakeChunk(r) PROVE (HandsTyped /\ HandsMatch)'
  <2>1. handler[r] # "idle"
    BY <1>2 DEF TakeChunk, HandsMatch, At
  <2>2. Head(chunks[r]) \in Messages
    BY <1>2, HeadAndTail DEF TakeChunk, ChannelsTyped
  <2> QED
    BY <1>2, <2>1, <2>2, NoneIsNoMessage, AdapterMoves DEF TakeChunk
<1>3. ASSUME NEW r \in Requests, EndOfChunks(r) PROVE (HandsTyped /\ HandsMatch)'
  <2>1. handler[r] # "idle" /\ adapter[r].hand = None
    BY <1>3, AdapterState DEF EndOfChunks, HandsMatch, At
  <2>2. CASE adapter' = [adapter EXCEPT ![r].pc = "ended"]
    <3>1. adapter' = [adapter EXCEPT ![r] = [pc |-> "ended", hand |-> None]]
      BY <2>1, <2>2, AdapterAt
    <3> QED
      BY <1>3, <2>1, <3>1, AdapterMoves DEF EndOfChunks
  <2>3. CASE \E last \in {"completed", "failed"} :
               adapter' = [adapter EXCEPT ![r] = [pc |-> "last", hand |-> <<0, last>>]]
    <3>1. PICK last \in {"completed", "failed"} :
            adapter' = [adapter EXCEPT ![r] = [pc |-> "last", hand |-> <<0, last>>]]
      BY <2>3
    <3>2. <<0, last>> \in Messages
      BY LastEvents
    <3> QED
      BY <1>3, <2>1, <3>1, <3>2, NoneIsNoMessage, AdapterMoves DEF EndOfChunks
  <2> QED
    BY <1>3, <2>2, <2>3 DEF EndOfChunks
<1>4. ASSUME NEW r \in Requests, StopReading(r) PROVE (HandsTyped /\ HandsMatch)'
  <2>1. handler[r] # "idle" /\ adapter[r].hand = None
    BY <1>4, AdapterState DEF StopReading, HandsMatch, At
  <2>2. adapter' = [adapter EXCEPT ![r] = [pc |-> "ended", hand |-> None]]
    BY <1>4, <2>1, AdapterAt DEF StopReading
  <2> QED
    BY <1>4, <2>1, <2>2, AdapterMoves DEF StopReading
<1>5. ASSUME NEW r \in Requests, Emit(r) PROVE (HandsTyped /\ HandsMatch)'
  <2>1. handler[r] # "idle"
    BY <1>5 DEF Emit, HandsMatch
  <2>2. Emitted(adapter[r].pc) \in {"reading", "ended"}
    BY DEF Emitted
  <2>3. adapter' = [adapter EXCEPT ![r] = [pc |-> Emitted(adapter[r].pc), hand |-> None]]
    BY <1>5 DEF Emit
  <2> QED
    BY <1>5, <2>1, <2>2, <2>3, AdapterMoves DEF Emit
<1>6. ASSUME NEW r \in Requests, DropEvent(r) PROVE (HandsTyped /\ HandsMatch)'
  <2>1. handler[r] # "idle"
    BY <1>6 DEF DropEvent, HandsMatch
  <2>2. Emitted(adapter[r].pc) \in {"reading", "ended"}
    BY DEF Emitted
  <2>3. adapter' = [adapter EXCEPT ![r] = [pc |-> Emitted(adapter[r].pc), hand |-> None]]
    BY <1>6 DEF DropEvent
  <2> QED
    BY <1>6, <2>1, <2>2, <2>3, AdapterMoves DEF DropEvent
<1>7. ASSUME NEW r \in Requests, TakeEvent(r) PROVE (HandsTyped /\ HandsMatch)'
  <2>1. handler[r] # "idle" /\ handler' = handler
    BY <1>7 DEF TakeEvent, HandsMatch, At
  <2>2. Head(events[r]) \in Messages
    BY <1>7, HeadAndTail DEF TakeEvent, ChannelsTyped
  <2> QED
    BY <1>7, <2>1, <2>2, NoneIsNoMessage, LoopMoves DEF TakeEvent
<1>8. ASSUME NEW r \in Requests, EndOfEvents(r) PROVE (HandsTyped /\ HandsMatch)'
  <2>1. handler[r] # "idle" /\ handler' = handler /\ loop[r].hand = None
    BY <1>8, LoopState DEF EndOfEvents, HandsMatch, At
  <2>2. loop' = [loop EXCEPT ![r] = [pc |-> "ended", hand |-> None]]
    BY <1>8, <2>1, LoopAt DEF EndOfEvents
  <2> QED
    BY <1>8, <2>1, <2>2, LoopMoves DEF EndOfEvents
<1>9. ASSUME NEW r \in Requests, WriteEvent(r) PROVE (HandsTyped /\ HandsMatch)'
  <2>1. loop' = [loop EXCEPT ![r] = [pc |-> "taking", hand |-> None]]
    BY <1>9 DEF WriteEvent, Received
  <2>2. handler[r] # "idle" /\ \A q \in Requests : handler'[q] = "idle" => handler[q] = "idle"
    BY <1>9 DEF WriteEvent, ProcsTyped
  <2> QED
    BY <1>9, <2>1, <2>2, LoopMoves DEF WriteEvent
<1>10. ASSUME NEW r \in Requests, WriteFails(r) PROVE (HandsTyped /\ HandsMatch)'
  <2>1. loop' = [loop EXCEPT ![r] = [pc |-> "taking", hand |-> None]]
    BY <1>10 DEF WriteFails, Received
  <2>2. handler[r] # "idle" /\ \A q \in Requests : handler'[q] = "idle" => handler[q] = "idle"
    BY <1>10 DEF WriteFails, ProcsTyped
  <2> QED
    BY <1>10, <2>1, <2>2, LoopMoves DEF WriteFails
<1>11. ASSUME NEW r \in Requests, Remember(r) PROVE (HandsTyped /\ HandsMatch)'
  <2>1. adapter' = adapter /\ loop' = loop /\ handler'[r] # "idle"
        /\ \A q \in Requests \ {r} : handler'[q] = handler[q]
    BY <1>11 DEF Remember, channelVars, ProcsTyped
  <2> QED
    BY <2>1 DEF HandsTyped, HandsMatch
<1>12. ASSUME NEW r \in Requests,
             ReadChunk(r) \/ BodyEnds(r) \/ ClientStalls(r) \/ ClientLeaves(r)
             \/ ContextEnds(r)
      PROVE  (HandsTyped /\ HandsMatch)'
  BY <1>12 DEF ReadChunk, BodyEnds, ClientStalls, ClientLeaves, ContextEnds, channelVars, HandsTyped,
          HandsMatch
<1>13. CASE UNCHANGED vars
  BY <1>13 DEF vars, channelVars, HandsTyped, HandsMatch
<1> QED
  BY <1>1, <1>2, <1>3, <1>4, <1>5, <1>6, <1>7, <1>8, <1>9, <1>10, <1>11, <1>12, <1>13
     DEF Next, ReaderStep, AdapterStep, LoopStep, HandlerStep

LEMMA ChannelsNext ==
  ProcsTyped /\ HandsTyped /\ HandsMatch /\ ChannelsTyped /\ [Next]_vars => ChannelsTyped'
<1> SUFFICES ASSUME ProcsTyped, HandsTyped, HandsMatch, ChannelsTyped, [Next]_vars PROVE ChannelsTyped'
  OBVIOUS
<1>1. ASSUME NEW r \in Requests, ReadChunk(r) PROVE ChannelsTyped'
  <2>1. <<reader[r].next, "event">> \in Messages
    BY DEF Messages, ProcsTyped
  <2>2. Append(chunks[r], <<reader[r].next, "event">>) \in Seq(Messages)
    BY <2>1, AppendProperties DEF ChannelsTyped
  <2>3. chunks' = [chunks EXCEPT ![r] = Append(chunks[r], <<reader[r].next, "event">>)]
    BY <1>1 DEF ReadChunk
  <2>4. chunks' \in [Requests -> Seq(Messages)]
    BY <2>2, <2>3, Updated DEF ChannelsTyped
  <2> QED
    BY <1>1, <2>4 DEF ReadChunk, ChannelsTyped
<1>2. ASSUME NEW r \in Requests, TakeChunk(r) PROVE ChannelsTyped'
  <2>2. Tail(chunks[r]) \in Seq(Messages)
    BY <1>2, HeadAndTail DEF TakeChunk, ChannelsTyped
  <2>3. chunks' = [chunks EXCEPT ![r] = Tail(chunks[r])]
    BY <1>2 DEF TakeChunk
  <2>4. chunks' \in [Requests -> Seq(Messages)]
    BY <2>2, <2>3, Updated DEF ChannelsTyped
  <2> QED
    BY <1>2, <2>4 DEF TakeChunk, ChannelsTyped
<1>3. ASSUME NEW r \in Requests, Emit(r) PROVE ChannelsTyped'
  <2>1. adapter[r].hand \in Messages
    BY <1>3, AdapterState DEF Emit, HandsMatch
  <2>2. Append(events[r], adapter[r].hand) \in Seq(Messages)
    BY <2>1, AppendProperties DEF ChannelsTyped
  <2>3. events' = [events EXCEPT ![r] = Append(events[r], adapter[r].hand)]
    BY <1>3 DEF Emit
  <2>4. events' \in [Requests -> Seq(Messages)]
    BY <2>2, <2>3, Updated DEF ChannelsTyped
  <2> QED
    BY <1>3, <2>4 DEF Emit, ChannelsTyped
<1>4. ASSUME NEW r \in Requests, TakeEvent(r) PROVE ChannelsTyped'
  <2>2. Tail(events[r]) \in Seq(Messages)
    BY <1>4, HeadAndTail DEF TakeEvent, ChannelsTyped
  <2>3. events' = [events EXCEPT ![r] = Tail(events[r])]
    BY <1>4 DEF TakeEvent
  <2>4. events' \in [Requests -> Seq(Messages)]
    BY <2>2, <2>3, Updated DEF ChannelsTyped
  <2> QED
    BY <1>4, <2>4 DEF TakeEvent, ChannelsTyped
<1>5. ASSUME NEW r \in Requests, WriteEvent(r) PROVE ChannelsTyped'
  <2>1. loop[r].hand \in Messages
    BY <1>5, LoopState DEF WriteEvent, HandsMatch, At
  <2>2. Append(got[r], loop[r].hand) \in Seq(Messages)
    BY <2>1, AppendProperties DEF ChannelsTyped
  <2>3. got' = [got EXCEPT ![r] = Append(got[r], loop[r].hand)]
    BY <1>5 DEF WriteEvent
  <2>4. got' \in [Requests -> Seq(Messages)]
    BY <2>2, <2>3, Updated DEF ChannelsTyped
  <2> QED
    BY <1>5, <2>4 DEF WriteEvent, ChannelsTyped
<1>6. ASSUME NEW r \in Requests,
             Begin(r) \/ BodyEnds(r) \/ EndOfChunks(r) \/ StopReading(r)
             \/ DropEvent(r) \/ EndOfEvents(r) \/ WriteFails(r)
             \/ Remember(r) \/ ClientStalls(r) \/ ClientLeaves(r) \/ ContextEnds(r)
      PROVE  ChannelsTyped'
  BY <1>6 DEF Begin, BodyEnds, EndOfChunks, StopReading, DropEvent, EndOfEvents,
          WriteFails, Remember, ClientStalls, ClientLeaves, ContextEnds, channelVars,
          ChannelsTyped
<1>7. CASE UNCHANGED vars
  BY <1>7 DEF vars, channelVars, ChannelsTyped
<1> QED
  BY <1>1, <1>2, <1>3, <1>4, <1>5, <1>6, <1>7
     DEF Next, ReaderStep, AdapterStep, LoopStep, HandlerStep

LEMMA BoundsNext ==
  ChannelsTyped /\ ChannelsBounded /\ [Next]_vars => ChannelsBounded'
<1> SUFFICES ASSUME ChannelsTyped, ChannelsBounded, [Next]_vars PROVE ChannelsBounded'
  OBVIOUS
<1> USE DEF ChannelsTyped, ChannelsBounded
<1>1. ASSUME NEW r \in Requests, ReadChunk(r) PROVE ChannelsBounded'
  BY <1>1 DEF ReadChunk
<1>2. ASSUME NEW r \in Requests, TakeChunk(r) PROVE ChannelsBounded'
  BY <1>2 DEF TakeChunk
<1>3. ASSUME NEW r \in Requests, Emit(r) PROVE ChannelsBounded'
  BY <1>3 DEF Emit
<1>4. ASSUME NEW r \in Requests, TakeEvent(r) PROVE ChannelsBounded'
  BY <1>4 DEF TakeEvent
<1>5. ASSUME NEW r \in Requests,
             Begin(r) \/ BodyEnds(r) \/ EndOfChunks(r) \/ StopReading(r)
             \/ DropEvent(r) \/ EndOfEvents(r) \/ WriteEvent(r)
             \/ WriteFails(r) \/ Remember(r) \/ ClientStalls(r) \/ ClientLeaves(r)
             \/ ContextEnds(r)
      PROVE  ChannelsBounded'
  BY <1>5 DEF Begin, BodyEnds, EndOfChunks, StopReading, DropEvent, EndOfEvents,
          WriteEvent, WriteFails, Remember, ClientStalls, ClientLeaves, ContextEnds, channelVars
<1>6. CASE UNCHANGED vars
  BY <1>6 DEF vars, channelVars
<1> QED
  BY <1>1, <1>2, <1>3, <1>4, <1>5, <1>6
     DEF Next, ReaderStep, AdapterStep, LoopStep, HandlerStep

LEMMA BuffersNext ==
  ProcsTyped /\ ChannelsTyped /\ BuffersTyped /\ [Next]_vars => BuffersTyped'
<1> SUFFICES ASSUME ProcsTyped, ChannelsTyped, BuffersTyped, [Next]_vars PROVE BuffersTyped'
  OBVIOUS
<1>1. ASSUME NEW r \in Requests, Begin(r) PROVE BuffersTyped'
  <2>1. <<>> \in Seq(Requests \X Nat)
    OBVIOUS
  <2>3. protocol[r] \in Protocols
    BY DEF ProcsTyped
  <2>2. buffer' \in [Protocols -> Seq(Requests \X Nat)]
    BY <1>1, <2>1, <2>3, Updated DEF Begin, BuffersTyped
  <2> QED
    BY <1>1, <2>2 DEF Begin, BuffersTyped
<1>2. ASSUME NEW r \in Requests, TakeChunk(r) PROVE BuffersTyped'
  <2> DEFINE p == protocol[r]
             b == Append(buffer[p], <<r, Head(chunks[r])[1]>>)
  <2>1. Head(chunks[r]) \in Messages
    BY <1>2, HeadAndTail DEF TakeChunk, ChannelsTyped
  <2>2. <<r, Head(chunks[r])[1]>> \in Requests \X Nat
    BY <2>1 DEF Messages
  <2>3. p \in Protocols /\ buffer[p] \in Seq(Requests \X Nat)
    BY DEF ProcsTyped, BuffersTyped
  <2>4. b \in Seq(Requests \X Nat)
    BY <2>2, <2>3, AppendProperties
  <2>5. buffer' = buffer \/ buffer' = [buffer EXCEPT ![p] = b]
    BY <1>2 DEF TakeChunk
  <2> HIDE DEF p, b
  <2>6. [buffer EXCEPT ![p] = b] \in [Protocols -> Seq(Requests \X Nat)]
    BY <2>3, <2>4, Updated DEF BuffersTyped
  <2> QED
    BY <1>2, <2>5, <2>6 DEF TakeChunk, BuffersTyped
<1>3. ASSUME NEW r \in Requests, Remember(r) PROVE BuffersTyped'
  <2>1. /\ buffer["anthropic"] \in Seq(Requests \X Nat) /\ buffer["chat"] \in Seq(Requests \X Nat)
        /\ <<>> \in Seq(Requests \X Nat)
    BY DEF BuffersTyped, Protocols
  <2> DEFINE k == [final |-> Completed(r),
                   anthropic |-> IF Completed(r) THEN <<>> ELSE buffer["anthropic"],
                   chat |-> buffer["chat"]]
             K == [chat : Seq(Requests \X Nat), anthropic : Seq(Requests \X Nat), final : BOOLEAN]
  <2>2. Completed(r) \in BOOLEAN
    BY DEF Completed
  <2>3. k \in K
    BY <2>1, <2>2
  <2>4. kept' = [kept EXCEPT ![r] = k] /\ kept \in [Requests -> K]
    BY <1>3 DEF Remember, BuffersTyped
  <2> HIDE DEF k, K
  <2>5. kept' \in [Requests -> K]
    BY <2>3, <2>4, Updated
  <2> QED
    BY <1>3, <2>5 DEF Remember, BuffersTyped, K
<1>4. ASSUME NEW r \in Requests,
             ReadChunk(r) \/ BodyEnds(r) \/ EndOfChunks(r)
             \/ StopReading(r) \/ Emit(r) \/ DropEvent(r) \/ TakeEvent(r)
             \/ EndOfEvents(r) \/ WriteEvent(r) \/ WriteFails(r)
             \/ ClientStalls(r) \/ ClientLeaves(r) \/ ContextEnds(r)
      PROVE  BuffersTyped'
  BY <1>4 DEF ReadChunk, BodyEnds, EndOfChunks, StopReading, Emit, DropEvent, TakeEvent,
          EndOfEvents, WriteEvent, WriteFails, ClientStalls, ClientLeaves, ContextEnds, channelVars,
          BuffersTyped
<1>5. CASE UNCHANGED vars
  BY <1>5 DEF vars, channelVars, BuffersTyped
<1> QED
  BY <1>1, <1>2, <1>3, <1>4, <1>5
     DEF Next, ReaderStep, AdapterStep, LoopStep, HandlerStep

\* The states of the goroutines, the channels and the buffers have their types,
\* and the channels never hold more than they can.
THEOREM PipelineTypes == Spec => []TypeOK
<1> DEFINE Inv == TypeOK /\ HandsMatch
<1>1. Init => Inv
  BY TypeInit
<1>2. Inv /\ [Next]_vars => Inv'
  BY TypeParts, ProcsNext, HandsNext, ChannelsNext, BoundsNext, BuffersNext DEF TypeOK, ProcsTyped, HandsTyped, ChannelsTyped, ChannelsBounded, BuffersTyped
<1>3. Inv => TypeOK
  OBVIOUS
<1> QED
  BY <1>1, <1>2, <1>3, PTL DEF Spec

-----------------------------------------------------------------------------
(***************************************************************************)
(* The pipeline is a queue.                                                *)
(***************************************************************************)

Typed == ProcsTyped /\ HandsTyped /\ HandsMatch /\ ChannelsTyped

LEMMA InParts ==
  ASSUME Typed, NEW r \in Requests
  PROVE  /\ InFlight(r) = Parts(Hand(loop, r), events[r], Hand(adapter, r), chunks[r])
         /\ Hand(loop, r) \in Seq(Messages) /\ Hand(adapter, r) \in Seq(Messages)
         /\ events[r] \in Seq(Messages) /\ chunks[r] \in Seq(Messages)
         /\ InFlight(r) \in Seq(Messages)
<1>1. InFlight(r) = Parts(Hand(loop, r), events[r], Hand(adapter, r), chunks[r])
  BY DEF InFlight, Parts
<1>2. events[r] \in Seq(Messages) /\ chunks[r] \in Seq(Messages)
  BY DEF Typed, ChannelsTyped
<1>3. loop[r].hand \in Messages \cup {None} /\ adapter[r].hand \in Messages \cup {None}
  BY AdapterState, LoopState DEF Typed
<1>4. Hand(loop, r) \in Seq(Messages) /\ Hand(adapter, r) \in Seq(Messages)
  BY <1>3, Singleton, EmptySeq DEF Hand
<1> QED
  BY <1>1, <1>2, <1>4, PartsTyped

\* A hand is empty, or holds a message.
LEMMA HandOfAdapter ==
  ASSUME Typed, NEW r \in Requests
  PROVE  /\ adapter[r].pc \in {"emitting", "last"} =>
              adapter[r].hand \in Messages /\ Hand(adapter, r) = <<adapter[r].hand>>
         /\ adapter[r].pc \notin {"emitting", "last"} => Hand(adapter, r) = <<>>
<1>1. adapter[r].hand \in Messages \cup {None}
  BY AdapterState DEF Typed
<1>2. adapter[r].hand # None <=> adapter[r].pc \in {"emitting", "last"}
  BY DEF Typed, HandsMatch
<1> QED
  BY <1>1, <1>2 DEF Hand

LEMMA HandOfLoop ==
  ASSUME Typed, NEW r \in Requests
  PROVE  /\ loop[r].pc = "sending" => loop[r].hand \in Messages /\ Hand(loop, r) = <<loop[r].hand>>
         /\ loop[r].pc # "sending" => Hand(loop, r) = <<>>
<1>1. loop[r].hand \in Messages \cup {None}
  BY LoopState DEF Typed
<1>2. loop[r].hand # None <=> loop[r].pc = "sending"
  BY DEF Typed, HandsMatch
<1> QED
  BY <1>1, <1>2 DEF Hand

\* What r holds after a step, from what has changed of it, while the other
\* requests hold what they held.
LEMMA QueueAfter ==
  ASSUME Typed, NEW r \in Requests,
         \A q \in Requests \ {r} : /\ loop'[q] = loop[q] /\ events'[q] = events[q]
                                    /\ adapter'[q] = adapter[q] /\ chunks'[q] = chunks[q]
  PROVE  /\ Queue' = [Queue EXCEPT ![r] = Parts(Hand(loop', r), events'[r],
                                                Hand(adapter', r), chunks'[r])]
         /\ Queue[r] = Parts(Hand(loop, r), events[r], Hand(adapter, r), chunks[r])
<1>1. \A q \in Requests \ {r} : InFlight(q)' = InFlight(q)
  BY DEF InFlight, Hand
<1>2. InFlight(r)' = Parts(Hand(loop', r), events'[r], Hand(adapter', r), chunks'[r])
  BY DEF InFlight, Parts, Hand
<1>3. InFlight(r) = Parts(Hand(loop, r), events[r], Hand(adapter, r), chunks[r])
  BY DEF InFlight, Parts
<1> QED
  BY <1>1, <1>2, <1>3 DEF Queue

LEMMA QueueStays ==
  ASSUME NEW r \in Requests, NEW q, Queue' = [Queue EXCEPT ![r] = q], Queue[r] = q
  PROVE  Queue' = Queue
  BY DEF Queue

LEMMA SameGivenUp == ASSUME client' = client, ctx' = ctx PROVE GivenUp' = GivenUp
  BY DEF GivenUp

LEMMA FifoInit == Init => Fifo!Init
<1> SUFFICES ASSUME Init PROVE Fifo!Init
  OBVIOUS
<1>1. \A r \in Requests : Hand(loop, r) = <<>> /\ Hand(adapter, r) = <<>>
  BY DEF Init, Hand
<1>2. \A r \in Requests : events[r] = <<>> /\ chunks[r] = <<>>
  BY DEF Init
<1>3. <<>> \o <<>> \o <<>> \o <<>> = <<>>
  OBVIOUS
<1>4. \A r \in Requests : InFlight(r) = <<>>
  BY <1>1, <1>2, <1>3 DEF InFlight
<1> QED
  BY <1>4 DEF Fifo!Init, Queue, GivenUp, Init

\* The steps that pass nothing to the client and lose nothing: what they move
\* stays in its place in the queue.
LEMMA StutterSteps ==
  ASSUME Typed, NEW r \in Requests,
         \/ Begin(r) \/ BodyEnds(r) \/ TakeChunk(r) \/ StopReading(r) \/ Emit(r)
         \/ TakeEvent(r) \/ EndOfEvents(r)
  PROVE  UNCHANGED <<Queue, got, GivenUp>>
<1> DEFINE a == Hand(loop, r)  b == events[r]  c == Hand(adapter, r)  d == chunks[r]
<1>1. got' = got /\ GivenUp' = GivenUp
  BY SameGivenUp DEF Begin, BodyEnds, TakeChunk, StopReading, Emit, TakeEvent, EndOfEvents
<1>2. a \in Seq(Messages) /\ b \in Seq(Messages) /\ c \in Seq(Messages) /\ d \in Seq(Messages)
  BY InParts
<1>3. \A q \in Requests \ {r} : /\ loop'[q] = loop[q] /\ events'[q] = events[q]
                                /\ adapter'[q] = adapter[q] /\ chunks'[q] = chunks[q]
  BY DEF Begin, BodyEnds, TakeChunk, StopReading, Emit, TakeEvent, EndOfEvents, Typed,
         HandsTyped, ChannelsTyped
<1>4. Parts(Hand(loop', r), events'[r], Hand(adapter', r), chunks'[r]) = Parts(a, b, c, d)
  <2>1. CASE Begin(r)
    <3>1. Hand(loop', r) = a /\ Hand(adapter', r) = c
      BY <2>1 DEF Begin, Hand, Typed, HandsTyped, Pcs
    <3> QED
      BY <2>1, <3>1 DEF Begin
  <2>2. CASE BodyEnds(r)
    BY <2>2 DEF BodyEnds, Hand
  <2>3. CASE TakeChunk(r)
    <3>1. d # <<>> /\ chunks'[r] = Tail(d) /\ loop' = loop /\ events' = events
      BY <2>3 DEF TakeChunk, Typed, ChannelsTyped
    <3>2. Head(d) \in Messages
      BY <1>2, <3>1, HeadAndTail
    <3>3. adapter'[r].hand = Head(d)
      BY <2>3 DEF TakeChunk, Typed, HandsTyped
    <3>4. Hand(adapter', r) = <<Head(d)>>
      BY <3>2, <3>3, NoneIsNoMessage DEF Hand
    <3>5. c = <<>>
      BY <2>3, HandOfAdapter DEF TakeChunk, At
    <3>6. Parts(a, b, <<Head(d)>>, Tail(d)) = Parts(a, b, <<>>, d)
      BY <1>2, <3>1, HeadOfLast
    <3>7. Hand(loop', r) = a
      BY <3>1 DEF Hand
    <3> QED
      BY <3>1, <3>4, <3>5, <3>6, <3>7
  <2>4. CASE StopReading(r)
    <3>1. Hand(adapter', r) = c
      BY <2>4 DEF StopReading, Hand, Typed, HandsTyped, Pcs
    <3> QED
      BY <2>4, <3>1 DEF StopReading, Hand
  <2>5. CASE Emit(r)
    <3>1. /\ events'[r] = Append(b, adapter[r].hand) /\ loop' = loop /\ chunks' = chunks
          /\ adapter'[r].hand = None
      BY <2>5 DEF Emit, Typed, ChannelsTyped, HandsTyped
    <3>2. adapter[r].hand \in Messages /\ c = <<adapter[r].hand>>
      BY <2>5, HandOfAdapter DEF Emit
    <3>3. Hand(adapter', r) = <<>>
      BY <3>1 DEF Hand
    <3>4. Parts(a, Append(b, adapter[r].hand), <<>>, d) = Parts(a, b, <<adapter[r].hand>>, d)
      BY <1>2, <3>2, HandToEvents
    <3>5. Hand(loop', r) = a
      BY <3>1 DEF Hand
    <3> QED
      BY <3>1, <3>2, <3>3, <3>4, <3>5
  <2>6. CASE TakeEvent(r)
    <3>1. b # <<>> /\ events'[r] = Tail(b) /\ adapter' = adapter /\ chunks' = chunks
      BY <2>6 DEF TakeEvent, Typed, ChannelsTyped
    <3>2. Head(b) \in Messages
      BY <1>2, <3>1, HeadAndTail
    <3>3. loop'[r].hand = Head(b)
      BY <2>6 DEF TakeEvent, Typed, HandsTyped
    <3>4. Hand(loop', r) = <<Head(b)>>
      BY <3>2, <3>3, NoneIsNoMessage DEF Hand
    <3>5. a = <<>>
      BY <2>6, HandOfLoop DEF TakeEvent, At
    <3>6. Parts(<<Head(b)>>, Tail(b), c, d) = Parts(<<>>, b, c, d)
      BY <1>2, <3>1, HeadOfEvents
    <3>7. Hand(adapter', r) = c
      BY <3>1 DEF Hand
    <3> QED
      BY <3>1, <3>4, <3>5, <3>6, <3>7
  <2>7. CASE EndOfEvents(r)
    <3>1. Hand(loop', r) = a
      BY <2>7 DEF EndOfEvents, Hand, Typed, HandsTyped, Pcs
    <3> QED
      BY <2>7, <3>1 DEF EndOfEvents, Hand
  <2> QED
    BY <2>1, <2>2, <2>3, <2>4, <2>5, <2>6, <2>7
<1> HIDE DEF a, b, c, d
<1>5. /\ Queue' = [Queue EXCEPT ![r] = Parts(Hand(loop', r), events'[r], Hand(adapter', r), chunks'[r])]
      /\ Queue[r] = Parts(a, b, c, d)
  BY <1>3, QueueAfter DEF a, b, c, d
<1>6. Queue' = Queue
  BY <1>4, <1>5, QueueStays
<1> QED
  BY <1>1, <1>6

\* A chunk that was read is put last.
LEMMA ChunkPut ==
  ASSUME Typed, NEW r \in Requests, ReadChunk(r)
  PROVE  LET e == <<reader[r].next, "event">>
         IN e \in Messages /\ Queue' = [Queue EXCEPT ![r] = Append(Queue[r], e)]
<1> DEFINE a == Hand(loop, r)  b == events[r]  c == Hand(adapter, r)  d == chunks[r]
           e == <<reader[r].next, "event">>
<1>1. a \in Seq(Messages) /\ b \in Seq(Messages) /\ c \in Seq(Messages) /\ d \in Seq(Messages)
  BY InParts
<1>2. \A q \in Requests \ {r} : /\ loop'[q] = loop[q] /\ events'[q] = events[q]
                                /\ adapter'[q] = adapter[q] /\ chunks'[q] = chunks[q]
  BY DEF ReadChunk, Typed, HandsTyped, ChannelsTyped
<1>3. e \in Messages
  BY DEF Messages, Typed, ProcsTyped
<1>4. chunks'[r] = Append(d, e) /\ loop' = loop /\ events' = events /\ adapter' = adapter
  BY DEF ReadChunk, Typed, ChannelsTyped
<1>5. Hand(loop', r) = a /\ Hand(adapter', r) = c
  BY <1>4 DEF Hand
<1> HIDE DEF a, b, c, d, e
<1>6. Parts(a, b, c, Append(d, e)) = Append(Parts(a, b, c, d), e)
  <2> DEFINE s == a \o b \o c
  <2>1. s \in Seq(Messages)
    <3>1. a \o b \in Seq(Messages)
      BY <1>1, ConcatProperties
    <3> QED
      BY <1>1, <3>1, ConcatProperties
  <2> HIDE DEF s
  <2>2. s \o Append(d, e) = Append(s \o d, e)
    BY <1>1, <1>3, <2>1, AppendToLast
  <2> QED
    BY <2>2 DEF Parts, s
<1>7. Parts(Hand(loop', r), events'[r], Hand(adapter', r), chunks'[r]) = Append(Parts(a, b, c, d), e)
  BY <1>4, <1>5, <1>6 DEF b
<1>8. Queue' = [Queue EXCEPT ![r] = Append(Queue[r], e)]
  BY <1>2, <1>7, QueueAfter DEF a, b, c, d
<1> QED
  BY <1>3, <1>8 DEF e

\* The event that ends a response is put last; without one nothing is put.
LEMMA LastPut ==
  ASSUME Typed, NEW r \in Requests, EndOfChunks(r)
  PROVE  \/ ~Chat(r) /\ adapter' = [adapter EXCEPT ![r].pc = "ended"] /\ Queue' = Queue
         \/ \E last \in {"completed", "failed"} :
              /\ adapter' = [adapter EXCEPT ![r] = [pc |-> "last", hand |-> <<0, last>>]]
              /\ Queue' = [Queue EXCEPT ![r] = Append(Queue[r], <<0, last>>)]
<1> DEFINE a == Hand(loop, r)  b == events[r]  c == Hand(adapter, r)  d == chunks[r]
<1>1. a \in Seq(Messages) /\ b \in Seq(Messages) /\ c \in Seq(Messages) /\ d \in Seq(Messages)
  BY InParts
<1>2. \A q \in Requests \ {r} : /\ loop'[q] = loop[q] /\ events'[q] = events[q]
                                /\ adapter'[q] = adapter[q] /\ chunks'[q] = chunks[q]
  BY DEF EndOfChunks, Typed, HandsTyped, ChannelsTyped
<1>3. c = <<>> /\ d = <<>> /\ chunks' = chunks /\ loop' = loop /\ events' = events
  BY HandOfAdapter DEF EndOfChunks, At
<1>4. ASSUME NEW last \in {"completed", "failed"},
             adapter' = [adapter EXCEPT ![r] = [pc |-> "last", hand |-> <<0, last>>]]
      PROVE  Queue' = [Queue EXCEPT ![r] = Append(Queue[r], <<0, last>>)]
  <2> DEFINE e == <<0, last>>
  <2>1. e \in Messages
    BY LastEvents
  <2>2. adapter'[r].hand = e
    BY <1>4 DEF Typed, HandsTyped
  <2> HIDE DEF e
  <2>3. Hand(adapter', r) = <<e>> /\ Hand(loop', r) = a
    BY <1>3, <2>1, <2>2, NoneIsNoMessage DEF Hand
  <2> HIDE DEF a, b
  <2>4. Parts(a, b, <<e>>, <<>>) = Append(Parts(a, b, <<>>, <<>>), e)
    <3> DEFINE s == a \o b
    <3>1. s \in Seq(Messages)
      BY <1>1, ConcatProperties
    <3> HIDE DEF s
    <3>2. s \o <<e>> = Append(s, e) /\ Append(s, e) \in Seq(Messages)
      BY <2>1, <3>1, AppendIsConcat, AppendProperties
    <3>3. s \o <<>> = s /\ Append(s, e) \o <<>> = Append(s, e)
      BY <3>1, <3>2, ConcatEmptySeq
    <3> QED
      BY <3>2, <3>3 DEF Parts, s
  <2>5. Parts(Hand(loop', r), events'[r], Hand(adapter', r), chunks'[r]) = Append(Parts(a, b, c, d), e)
    BY <1>3, <2>3, <2>4 DEF b
  <2> QED
    BY <1>2, <2>5, QueueAfter DEF a, b, e
<1>5. ASSUME adapter' = [adapter EXCEPT ![r].pc = "ended"]
      PROVE  Queue' = Queue
  <2>1. Hand(adapter', r) = c /\ Hand(loop', r) = a
    BY <1>3, <1>5 DEF Hand, Typed, HandsTyped, Pcs
  <2> QED
    BY <1>2, <1>3, <2>1, QueueAfter, QueueStays
<1>6. \/ ~Chat(r) /\ adapter' = [adapter EXCEPT ![r].pc = "ended"]
      \/ \E last \in {"completed", "failed"} :
           adapter' = [adapter EXCEPT ![r] = [pc |-> "last", hand |-> <<0, last>>]]
  BY DEF EndOfChunks
<1> QED
  BY <1>4, <1>5, <1>6

LEMMA PutSteps ==
  ASSUME Typed, NEW r \in Requests, ReadChunk(r) \/ EndOfChunks(r)
  PROVE  Fifo!Put(r) \/ UNCHANGED <<Queue, got, GivenUp>>
<1>1. got' = got /\ GivenUp' = GivenUp
  BY SameGivenUp DEF ReadChunk, EndOfChunks
<1>2. ASSUME NEW e \in Fresh, Queue' = [Queue EXCEPT ![r] = Append(Queue[r], e)]
      PROVE  Fifo!Put(r)
  BY <1>1, <1>2 DEF Fifo!Put
<1>3. CASE ReadChunk(r)
  <2>1. reader[r].next \in 0..MaxChunks[r]
    <3>1. reader[r].next \in Nat /\ MaxChunks[r] \in Nat /\ reader[r].next <= MaxChunks[r]
      BY <1>3 DEF ReadChunk, Typed, ProcsTyped
    <3> QED
      BY <3>1
  <2>2. <<reader[r].next, "event">> \in Fresh
    BY <2>1 DEF Fresh
  <2> QED
    BY <1>2, <1>3, <2>2, ChunkPut
<1>4. CASE EndOfChunks(r)
  <2>1. \A last \in {"completed", "failed"} : <<0, last>> \in Fresh
    BY DEF Fresh
  <2> QED
    BY <1>1, <1>2, <1>4, <2>1, LastPut
<1> QED
  BY <1>3, <1>4

\* What the loop holds is the first of the queue: it is received, or lost.
LEMMA FirstOfQueue ==
  ASSUME Typed, NEW r \in Requests, WriteEvent(r) \/ WriteFails(r)
  PROVE  \E rest \in Seq(Messages) :
           /\ loop[r].hand \in Messages
           /\ Queue[r] = <<loop[r].hand>> \o rest
           /\ Queue' = [Queue EXCEPT ![r] = rest]
<1> DEFINE b == events[r]  c == Hand(adapter, r)  d == chunks[r]
           rest == Parts(<<>>, b, c, d)
<1>1. b \in Seq(Messages) /\ c \in Seq(Messages) /\ d \in Seq(Messages)
  BY InParts
<1>2. loop[r].hand \in Messages /\ Hand(loop, r) = <<loop[r].hand>>
  BY HandOfLoop DEF WriteEvent, WriteFails, At
<1>3. loop' = [loop EXCEPT ![r] = [pc |-> "taking", hand |-> None]]
  BY DEF WriteEvent, WriteFails, Received
<1>4. events' = events /\ adapter' = adapter /\ chunks' = chunks
  BY DEF WriteEvent, WriteFails
<1>5. loop'[r].hand = None /\ \A q \in Requests \ {r} : loop'[q] = loop[q]
  BY <1>3 DEF Typed, HandsTyped
<1>6. Hand(loop', r) = <<>> /\ Hand(adapter', r) = c
  BY <1>4, <1>5 DEF Hand
<1>7. Queue' = [Queue EXCEPT ![r] = rest]
  BY <1>4, <1>5, <1>6, QueueAfter
<1>8. Queue[r] = Parts(<<loop[r].hand>>, b, c, d)
  <2>1. Queue[r] = Parts(Hand(loop, r), events[r], Hand(adapter, r), chunks[r])
    BY <1>4, <1>5, QueueAfter
  <2> QED
    BY <1>2, <2>1
<1> HIDE DEF b, c, d
<1>9. Parts(<<loop[r].hand>>, b, c, d) = <<loop[r].hand>> \o Parts(<<>>, b, c, d)
  <2> DEFINE h == loop[r].hand
  <2>1. h \in Messages
    BY <1>2
  <2> HIDE DEF h
  <2>2. <<h>> \in Seq(Messages) /\ <<>> \o b = b /\ b \o c \in Seq(Messages)
    BY <1>1, <2>1, Singleton, ConcatEmptySeq, ConcatProperties
  <2>3. (<<h>> \o b) \o c = <<h>> \o (b \o c)
    BY <1>1, <2>2, ConcatAssociative
  <2>4. (<<h>> \o (b \o c)) \o d = <<h>> \o ((b \o c) \o d)
    BY <1>1, <2>2, ConcatAssociative
  <2> QED
    BY <2>2, <2>3, <2>4 DEF Parts, h
<1>10. rest \in Seq(Messages)
  <2>1. <<>> \in Seq(Messages)
    BY EmptySeq
  <2> QED
    BY <1>1, <2>1, PartsTyped
<1> HIDE DEF rest
<1>11. Queue[r] = <<loop[r].hand>> \o rest
  BY <1>8, <1>9 DEF rest
<1> QED
  BY <1>2, <1>7, <1>10, <1>11

LEMMA GetStep == ASSUME Typed, NEW r \in Requests, WriteEvent(r) PROVE Fifo!Get(r)
<1>1. PICK rest \in Seq(Messages) :
        /\ loop[r].hand \in Messages
        /\ Queue[r] = <<loop[r].hand>> \o rest
        /\ Queue' = [Queue EXCEPT ![r] = rest]
  BY FirstOfQueue
<1>2. /\ Queue[r] # <<>> /\ Head(Queue[r]) = loop[r].hand /\ Tail(Queue[r]) = rest
  BY <1>1, FirstOf
<1>3. got' = [got EXCEPT ![r] = Append(got[r], loop[r].hand)] /\ GivenUp' = GivenUp
  BY SameGivenUp DEF WriteEvent
<1> QED
  BY <1>1, <1>2, <1>3 DEF Fifo!Get

LEMMA LoseSteps ==
  ASSUME Typed, NEW r \in Requests, WriteFails(r) \/ DropEvent(r)
  PROVE  Fifo!Lose(r)
<1>1. got' = got /\ GivenUp' = GivenUp /\ r \in GivenUp
  BY SameGivenUp DEF WriteFails, DropEvent, GivenUp
<1>2. ASSUME NEW k \in DOMAIN Queue[r], Queue' = [Queue EXCEPT ![r] = Fifo!Without(Queue[r], k)]
      PROVE  Fifo!Lose(r)
  BY <1>1, <1>2 DEF Fifo!Lose
<1>3. CASE WriteFails(r)
  <2>1. PICK rest \in Seq(Messages) :
          /\ loop[r].hand \in Messages
          /\ Queue[r] = <<loop[r].hand>> \o rest
          /\ Queue' = [Queue EXCEPT ![r] = rest]
    BY <1>3, FirstOfQueue
  <2>2. 1 \in DOMAIN Queue[r] /\ Fifo!Without(Queue[r], 1) = rest
    BY <2>1, FirstOf
  <2> QED
    BY <1>2, <2>1, <2>2
<1>4. CASE DropEvent(r)
  <2> DEFINE a == Hand(loop, r)  b == events[r]  d == chunks[r]  h == adapter[r].hand
  <2>1. a \in Seq(Messages) /\ b \in Seq(Messages) /\ d \in Seq(Messages)
    BY InParts
  <2>2. h \in Messages /\ Hand(adapter, r) = <<h>>
    BY <1>4, HandOfAdapter DEF DropEvent
  <2>3. adapter' = [adapter EXCEPT ![r] = [pc |-> Emitted(adapter[r].pc), hand |-> None]]
    BY <1>4 DEF DropEvent
  <2>4. events' = events /\ loop' = loop /\ chunks' = chunks
    BY <1>4 DEF DropEvent
  <2>5. adapter'[r].hand = None /\ \A q \in Requests \ {r} : adapter'[q] = adapter[q]
    BY <2>3 DEF Typed, HandsTyped
  <2>6. Hand(adapter', r) = <<>> /\ Hand(loop', r) = a
    BY <2>4, <2>5 DEF Hand
  <2>7. Queue' = [Queue EXCEPT ![r] = Parts(a, b, <<>>, d)]
    BY <2>4, <2>5, <2>6, QueueAfter
  <2>8. Queue[r] = Parts(a, b, <<h>>, d)
    BY <2>2, <2>4, <2>5, QueueAfter
  <2> HIDE DEF a, b, d, h
  <2>9. PICK k \in DOMAIN Parts(a, b, <<h>>, d) :
          Parts(a, b, <<>>, d) = Fifo!Without(Parts(a, b, <<h>>, d), k)
    BY <2>1, <2>2, HandLost
  <2> QED
    BY <1>2, <2>7, <2>8, <2>9
<1> QED
  BY <1>3, <1>4

\* A client that stops reading loses nothing of what is on its way.
LEMMA StallStep ==
  ASSUME Typed, NEW r \in Requests, ClientStalls(r)
  PROVE  UNCHANGED <<Queue, got, GivenUp>>
<1>1. /\ loop' = loop /\ events' = events /\ adapter' = adapter /\ chunks' = chunks
      /\ got' = got /\ ctx' = ctx
      /\ client[r] = "there" /\ client' = [client EXCEPT ![r] = "stalled"]
  BY DEF ClientStalls, channelVars
<1>2. Queue' = Queue
  BY <1>1 DEF Queue, InFlight, Hand
<1>3. GivenUp' = GivenUp
  BY <1>1 DEF GivenUp, Typed, ProcsTyped
<1> QED
  BY <1>1, <1>2, <1>3

\* The end of the handler, of the client or of the context gives the request up.
LEMMA GiveUpSteps ==
  ASSUME Typed, NEW r \in Requests, Remember(r) \/ ClientLeaves(r) \/ ContextEnds(r)
  PROVE  Fifo!GiveUp(r)
<1>1. loop' = loop /\ events' = events /\ adapter' = adapter /\ chunks' = chunks /\ got' = got
  BY DEF Remember, ClientLeaves, ContextEnds, channelVars
<1>2. Queue' = Queue
  BY <1>1 DEF Queue, InFlight, Hand
<1>3. \/ client' = client /\ ctx' = [ctx EXCEPT ![r] = "done"]
      \/ ctx' = ctx /\ client' = [client EXCEPT ![r] = "gone"]
  BY DEF Remember, ClientLeaves, ContextEnds
<1>4. GivenUp' = GivenUp \cup {r}
  BY <1>3 DEF GivenUp, Typed, ProcsTyped
<1> QED
  BY <1>1, <1>2, <1>4 DEF Fifo!GiveUp

\* The goroutines of every request, with their channels, implement a queue: what
\* a provider sends reaches the client in its order and once, and only after the
\* request was given up is anything lost.
THEOREM PipelineIsFifo == Spec => DeliversInOrder
<1> DEFINE Inv == TypeOK /\ HandsMatch
<1>1. Init => Inv /\ Fifo!Init
  BY TypeInit, FifoInit
<1>2. Inv /\ [Next]_vars => Inv'
  BY TypeParts, ProcsNext, HandsNext, ChannelsNext, BoundsNext, BuffersNext
     DEF TypeOK, ProcsTyped, HandsTyped, ChannelsTyped, ChannelsBounded, BuffersTyped
<1>3. Inv /\ [Next]_vars => [Fifo!Next]_(Fifo!fifoVars)
  <2> SUFFICES ASSUME Inv, [Next]_vars PROVE Fifo!Next \/ UNCHANGED <<Queue, got, GivenUp>>
    BY DEF Fifo!fifoVars
  <2>1. Typed
    BY TypeParts DEF Typed
  <2>2. CASE UNCHANGED vars
    BY <2>2 DEF vars, channelVars, Queue, InFlight, Hand, GivenUp
  <2>3. ASSUME NEW r \in Requests,
               \/ Begin(r) \/ ReaderStep(r) \/ AdapterStep(r) \/ LoopStep(r) \/ HandlerStep(r)
               \/ ClientStalls(r) \/ ClientLeaves(r) \/ ContextEnds(r)
        PROVE  Fifo!Next \/ UNCHANGED <<Queue, got, GivenUp>>
    <3>1. \/ Fifo!Put(r) \/ Fifo!Get(r) \/ Fifo!GiveUp(r) \/ Fifo!Lose(r)
          \/ UNCHANGED <<Queue, got, GivenUp>>
      BY <2>1, <2>3, StutterSteps, StallStep, PutSteps, GetStep, LoseSteps, GiveUpSteps
         DEF ReaderStep, AdapterStep, LoopStep, HandlerStep
    <3> QED
      BY <3>1 DEF Fifo!Next
  <2> QED
    BY <2>2, <2>3 DEF Next
<1> QED
  BY <1>1, <1>2, <1>3, PTL DEF Spec, DeliversInOrder, Fifo!Spec

-----------------------------------------------------------------------------
(***************************************************************************)
(* A client that stays gets all. What was sent is then in the queue or was *)
(* received, and the goroutines end one after the other, each when nothing *)
(* is left for it: the reader, the adapter, the loop, the handler.         *)
(***************************************************************************)

\* The order in which the parts of a request end, while its client stays.
Ordered(r) ==
    /\ reader[r].next \in Nat \ {0}
    /\ client[r] # "gone" =>
        /\ handler[r] \in {"idle", "writing", "returned"}
        /\ ctx[r] = "done" => handler[r] = "returned"
        /\ handler[r] = "returned" => loop[r].pc = "ended"
        /\ loop[r].pc = "ended" => adapter[r].pc = "ended" /\ events[r] = <<>>
        /\ adapter[r].pc \in {"last", "ended"} => reader[r].pc = "ended" /\ chunks[r] = <<>>

Step(r) ==
    Begin(r) \/ ReaderStep(r) \/ AdapterStep(r) \/ LoopStep(r) \/ HandlerStep(r)
    \/ ClientStalls(r) \/ ClientLeaves(r) \/ ContextEnds(r)

SameOf(q) ==
    /\ handler'[q] = handler[q] /\ ctx'[q] = ctx[q] /\ client'[q] = client[q]
    /\ loop'[q] = loop[q] /\ adapter'[q] = adapter[q] /\ reader'[q] = reader[q]
    /\ events'[q] = events[q] /\ chunks'[q] = chunks[q] /\ got'[q] = got[q]
    /\ protocol'[q] = protocol[q]

LEMMA OthersStay ==
  ASSUME Typed, NEW r \in Requests, Step(r), NEW q \in Requests \ {r}
  PROVE  SameOf(q)
<1> USE DEF Typed, ProcsTyped, HandsTyped, ChannelsTyped, SameOf
<1>1. CASE Begin(r) \/ ReadChunk(r) \/ BodyEnds(r)
  BY <1>1 DEF Begin, ReadChunk, BodyEnds
<1>2. CASE TakeChunk(r) \/ StopReading(r) \/ Emit(r) \/ DropEvent(r)
  BY <1>2 DEF TakeChunk, StopReading, Emit, DropEvent
<1>3. CASE EndOfChunks(r)
  BY <1>3 DEF EndOfChunks
<1>4. CASE TakeEvent(r) \/ EndOfEvents(r) \/ WriteEvent(r) \/ WriteFails(r)
  BY <1>4 DEF TakeEvent, EndOfEvents, WriteEvent, WriteFails, Received
<1>5. CASE Remember(r) \/ ClientStalls(r) \/ ClientLeaves(r) \/ ContextEnds(r)
  BY <1>5 DEF Remember, ClientStalls, ClientLeaves, ContextEnds, channelVars
<1> QED
  BY <1>1, <1>2, <1>3, <1>4, <1>5 DEF Step, ReaderStep, AdapterStep, LoopStep, HandlerStep

LEMMA OrderedAfter ==
  ASSUME Typed, NEW r \in Requests, Step(r), Ordered(r)
  PROVE  Ordered(r)'
<1> USE DEF Typed, ProcsTyped, HandsTyped, ChannelsTyped, Pcs, Ordered, At
<1>1. CASE Begin(r)
  BY <1>1 DEF Begin, HandsMatch
<1>2. CASE ReadChunk(r)
  BY <1>2 DEF ReadChunk
<1>3. CASE BodyEnds(r)
  BY <1>3 DEF BodyEnds
<1>4. CASE TakeChunk(r)
  BY <1>4 DEF TakeChunk
<1>5. CASE EndOfChunks(r)
  BY <1>5 DEF EndOfChunks
<1>6. CASE StopReading(r)
  BY <1>6 DEF StopReading
<1>7. CASE Emit(r)
  BY <1>7 DEF Emit, Emitted
<1>8. CASE DropEvent(r)
  BY <1>8 DEF DropEvent, Emitted
<1>9. CASE TakeEvent(r)
  BY <1>9 DEF TakeEvent
<1>10. CASE EndOfEvents(r)
  BY <1>10 DEF EndOfEvents
<1>11. CASE WriteEvent(r) \/ WriteFails(r)
  BY <1>11 DEF WriteEvent, WriteFails, Received
<1>12. CASE Remember(r)
  BY <1>12 DEF Remember, channelVars
<1>13. CASE ClientStalls(r) \/ ClientLeaves(r) \/ ContextEnds(r)
  BY <1>13 DEF ClientStalls, ClientLeaves, ContextEnds, channelVars
<1> QED
  BY <1>1, <1>2, <1>3, <1>4, <1>5, <1>6, <1>7, <1>8, <1>9, <1>10, <1>11, <1>12, <1>13
     DEF Step, ReaderStep, AdapterStep, LoopStep, HandlerStep

\* What was received and what is on its way, while nothing can be lost.
Carried(r) == got[r] \o Queue[r]

Delivered(s, r) ==
    \/ s = Sent(r) /\ ~Chat(r)
    \/ \E last \in {"completed", "failed"} : s = Append(Sent(r), <<0, last>>)

Whole(r) ==
    client[r] # "gone" =>
        IF adapter[r].pc \in {"last", "ended"} THEN Delivered(Carried(r), r)
        ELSE Carried(r) = Sent(r)

LEMMA SentExtended ==
  ASSUME NEW m \in Nat \ {0}
  PROVE  [n \in 1..((m + 1) - 1) |-> <<n, "event">>] = Append([n \in 1..(m - 1) |-> <<n, "event">>], <<m, "event">>)
<1> DEFINE s == [n \in 1..(m - 1) |-> <<n, "event">>]
           t == [n \in 1..((m + 1) - 1) |-> <<n, "event">>]
           e == <<m, "event">>
<1>1. s \in Seq(Nat \X {"event"}) /\ Len(s) = m - 1
  OBVIOUS
<1>2. t \in Seq(Nat \X {"event"}) /\ Len(t) = m
  OBVIOUS
<1>3. e \in Nat \X {"event"}
  OBVIOUS
<1>4. /\ Append(s, e) \in Seq(Nat \X {"event"}) /\ Len(Append(s, e)) = m
      /\ \A i \in 1..(m - 1) : Append(s, e)[i] = s[i]
      /\ Append(s, e)[m] = e
  <2> HIDE DEF s, e
  <2> QED
    BY <1>1, <1>3, AppendProperties
<1>5. \A i \in 1..m : t[i] = Append(s, e)[i]
  <2>1. \A i \in 1..(m - 1) : t[i] = <<i, "event">> /\ s[i] = <<i, "event">>
    OBVIOUS
  <2>2. t[m] = e
    OBVIOUS
  <2> HIDE DEF s, t, e
  <2>3. ASSUME NEW i \in 1..m PROVE t[i] = Append(s, e)[i]
    <3>1. CASE i = m
      BY <1>4, <2>2, <3>1
    <3>2. CASE i # m
      <4>1. i \in 1..(m - 1)
        BY <3>2
      <4> QED
        BY <1>4, <2>1, <4>1
    <3> QED
      BY <3>1, <3>2
  <2> QED
    BY <2>3
<1> HIDE DEF s, t, e
<1>6. t = Append(s, e)
  BY <1>2, <1>4, <1>5, SeqEqual
<1> QED
  BY <1>6 DEF s, t, e

\* Receiving the first of the queue leaves the whole as it is.
LEMMA ReceivedIsNext ==
  ASSUME NEW S, NEW g \in Seq(S), NEW q \in Seq(S), NEW h \in S
  PROVE  Append(g, h) \o q = g \o (<<h>> \o q)
<1>1. Append(g, h) = g \o <<h>> /\ <<h>> \in Seq(S)
  BY AppendIsConcat, Singleton
<1> QED
  BY <1>1, ConcatAssociative

LEMMA CarriedOf ==
  ASSUME Typed, NEW r \in Requests
  PROVE  got[r] \in Seq(Messages) /\ Queue[r] \in Seq(Messages) /\ Queue[r] = InFlight(r)
<1>1. Queue[r] = InFlight(r)
  BY DEF Queue
<1> QED
  BY <1>1, InParts DEF Typed, ChannelsTyped

LEMMA WholeAfter ==
  ASSUME Typed, NEW r \in Requests, Step(r), Ordered(r), Whole(r)
  PROVE  Whole(r)'
<1> SUFFICES ASSUME client'[r] # "gone"
             PROVE  IF adapter'[r].pc \in {"last", "ended"} THEN Delivered(Carried(r), r)'
                    ELSE Carried(r)' = Sent(r)'
  BY DEF Whole
<1>1. client[r] # "gone"
  BY DEF Step, ReaderStep, AdapterStep, LoopStep, HandlerStep, Begin, ReadChunk, BodyEnds,
         TakeChunk, EndOfChunks, StopReading, Emit, DropEvent, TakeEvent, EndOfEvents,
         WriteEvent, WriteFails, Remember, ClientStalls, ClientLeaves, ContextEnds, channelVars, Typed, ProcsTyped
<1>2. ASSUME Carried(r)' = Carried(r), Sent(r)' = Sent(r), Chat(r)' = Chat(r),
             adapter'[r].pc \in {"last", "ended"} <=> adapter[r].pc \in {"last", "ended"}
      PROVE  IF adapter'[r].pc \in {"last", "ended"} THEN Delivered(Carried(r), r)'
             ELSE Carried(r)' = Sent(r)'
  BY <1>1, <1>2 DEF Whole, Delivered
<1>3. Queue'[r] = Queue[r] /\ got'[r] = got[r] => Carried(r)' = Carried(r)
  BY DEF Carried
<1>4. CASE Begin(r) \/ BodyEnds(r) \/ TakeChunk(r) \/ Emit(r) \/ TakeEvent(r) \/ EndOfEvents(r)
  <2>1. Queue' = Queue /\ got' = got
    BY <1>4, StutterSteps
  <2>2. protocol' = protocol /\ reader'[r].next = reader[r].next
    BY <1>4 DEF Begin, BodyEnds, TakeChunk, Emit, TakeEvent, EndOfEvents, Typed, ProcsTyped
  <2>3. adapter'[r].pc \in {"last", "ended"} <=> adapter[r].pc \in {"last", "ended"}
    BY <1>4 DEF Begin, BodyEnds, TakeChunk, Emit, Emitted, TakeEvent, EndOfEvents, At, Typed,
                HandsTyped, HandsMatch, Pcs
  <2>4. Carried(r)' = Carried(r) /\ Sent(r)' = Sent(r) /\ Chat(r)' = Chat(r)
    BY <1>3, <2>1, <2>2 DEF Sent, Chat
  <2> QED
    BY <1>2, <2>3, <2>4
<1>5. CASE ReadChunk(r)
  <2> DEFINE e == <<reader[r].next, "event">>
  <2>1. e \in Messages /\ Queue' = [Queue EXCEPT ![r] = Append(Queue[r], e)]
    BY <1>5, ChunkPut
  <2>2. adapter' = adapter /\ got' = got /\ reader'[r].next = reader[r].next + 1
    BY <1>5 DEF ReadChunk, Typed, ProcsTyped
  <2>3. adapter[r].pc \notin {"last", "ended"}
    BY <1>1, <1>5 DEF Ordered, ReadChunk, At
  <2>4. Carried(r) = Sent(r)
    BY <1>1, <2>3 DEF Whole
  <2>5. Sent(r)' = Append(Sent(r), e)
    <3>1. reader[r].next \in Nat \ {0}
      BY DEF Ordered
    <3> QED
      BY <2>2, <3>1, SentExtended DEF Sent
  <2> HIDE DEF e
  <2>6. Queue'[r] = Append(Queue[r], e)
    BY <2>1 DEF Queue
  <2>7. Carried(r)' = Append(Carried(r), e)
    <3>1. Carried(r)' = got[r] \o Append(Queue[r], e)
      BY <2>2, <2>6 DEF Carried
    <3>2. got[r] \o Append(Queue[r], e) = Append(got[r] \o Queue[r], e)
      <4>1. got[r] \in Seq(Messages) /\ Queue[r] \in Seq(Messages) /\ e \in Messages
        BY <2>1, CarriedOf
      <4> DEFINE g == got[r]  q == Queue[r]
      <4> HIDE DEF g, q
      <4>2. g \in Seq(Messages) /\ q \in Seq(Messages)
        BY <4>1 DEF g, q
      <4>3. g \o Append(q, e) = Append(g \o q, e)
        BY <4>1, <4>2, AppendToLast
      <4> QED
        BY <4>3 DEF g, q
    <3> QED
      BY <3>1, <3>2 DEF Carried
  <2> QED
    BY <2>2, <2>3, <2>4, <2>5, <2>7
<1>6. CASE EndOfChunks(r)
  <2>1. got' = got /\ Sent(r)' = Sent(r) /\ Chat(r)' = Chat(r)
    BY <1>6 DEF EndOfChunks, Sent, Chat
  <2>2. Carried(r) = Sent(r)
    BY <1>1, <1>6 DEF Whole, EndOfChunks, At
  <2>3. CASE ~Chat(r) /\ adapter' = [adapter EXCEPT ![r].pc = "ended"] /\ Queue' = Queue
    <3>1. Carried(r)' = Sent(r)' /\ ~Chat(r)'
      BY <1>3, <2>1, <2>2, <2>3
    <3>2. adapter'[r].pc = "ended"
      BY <2>3 DEF Typed, HandsTyped, Pcs
    <3> QED
      BY <3>1, <3>2 DEF Delivered
  <2>4. ASSUME NEW last \in {"completed", "failed"},
               adapter' = [adapter EXCEPT ![r] = [pc |-> "last", hand |-> <<0, last>>]],
               Queue' = [Queue EXCEPT ![r] = Append(Queue[r], <<0, last>>)]
        PROVE  Delivered(Carried(r), r)' /\ adapter'[r].pc = "last"
    <3> DEFINE e == <<0, last>>
    <3>1. e \in Messages
      BY LastEvents
    <3>2. adapter'[r].pc = "last"
      BY <2>4 DEF Typed, HandsTyped
    <3> HIDE DEF e
    <3>3. Queue'[r] = Append(Queue[r], e)
      BY <2>4 DEF Queue, e
    <3>4. Carried(r)' = Append(Carried(r), e)
      <4>1. Carried(r)' = got[r] \o Append(Queue[r], e)
        BY <2>1, <3>3 DEF Carried
      <4>2. got[r] \o Append(Queue[r], e) = Append(got[r] \o Queue[r], e)
        <5>1. got[r] \in Seq(Messages) /\ Queue[r] \in Seq(Messages) /\ e \in Messages
          BY <3>1, CarriedOf DEF e
        <5> DEFINE g == got[r]  q == Queue[r]
        <5> HIDE DEF g, q
        <5>2. g \in Seq(Messages) /\ q \in Seq(Messages)
          BY <5>1 DEF g, q
        <5>3. g \o Append(q, e) = Append(g \o q, e)
          BY <5>1, <5>2, AppendToLast
        <5> QED
          BY <5>3 DEF g, q
      <4> QED
        BY <4>1, <4>2 DEF Carried
    <3>5. Carried(r)' = Append(Sent(r)', <<0, last>>)
      BY <2>1, <2>2, <3>4 DEF e
    <3> QED
      BY <3>2, <3>5 DEF Delivered
  <2> QED
    BY <1>6, <2>3, <2>4, LastPut
<1>7. CASE StopReading(r) \/ DropEvent(r)
  <2>1. ctx[r] = "done" /\ adapter[r].pc \in {"reading", "emitting", "last"}
    BY <1>7 DEF StopReading, DropEvent, At
  <2> QED
    BY <1>1, <2>1 DEF Ordered
<1>8. CASE WriteEvent(r)
  <2>1. PICK rest \in Seq(Messages) :
          /\ loop[r].hand \in Messages
          /\ Queue[r] = <<loop[r].hand>> \o rest
          /\ Queue' = [Queue EXCEPT ![r] = rest]
    BY <1>8, FirstOfQueue
  <2>2. got'[r] = Append(got[r], loop[r].hand) /\ Queue'[r] = rest
    BY <1>8, <2>1 DEF WriteEvent, Typed, ChannelsTyped, Queue
  <2>3. Carried(r)' = Carried(r)
    <3>1. Carried(r)' = Append(got[r], loop[r].hand) \o rest
      BY <2>2 DEF Carried
    <3>2. Carried(r) = got[r] \o (<<loop[r].hand>> \o rest)
      BY <2>1 DEF Carried
    <3> QED
      <4>1. got[r] \in Seq(Messages) /\ loop[r].hand \in Messages /\ rest \in Seq(Messages)
        BY <2>1, CarriedOf
      <4> DEFINE g == got[r]  h == loop[r].hand
      <4> HIDE DEF g, h
      <4>2. g \in Seq(Messages) /\ h \in Messages
        BY <4>1 DEF g, h
      <4>3. Append(g, h) \o rest = g \o (<<h>> \o rest)
        BY <4>1, <4>2, ReceivedIsNext
      <4> QED
        BY <3>1, <3>2, <4>3 DEF g, h
  <2>4. Sent(r)' = Sent(r) /\ Chat(r)' = Chat(r) /\ adapter' = adapter
    BY <1>8 DEF WriteEvent, Sent, Chat
  <2> QED
    BY <1>2, <2>3, <2>4
<1>9. CASE WriteFails(r) \/ ContextEnds(r)
  BY <1>1, <1>9 DEF WriteFails, ContextEnds
<1>10. CASE ClientLeaves(r)
  BY <1>10 DEF ClientLeaves, Typed, ProcsTyped
<1>11. CASE ClientStalls(r)
  <2>1. Queue' = Queue /\ got' = got
    BY <1>11, StallStep
  <2>2. adapter' = adapter /\ reader' = reader /\ protocol' = protocol
    BY <1>11 DEF ClientStalls, channelVars
  <2>3. Sent(r)' = Sent(r) /\ Chat(r)' = Chat(r)
    BY <2>2 DEF Sent, Chat
  <2> QED
    BY <1>2, <1>3, <2>1, <2>2, <2>3
<1>12. CASE Remember(r)
  <2>1. /\ loop' = loop /\ events' = events /\ adapter' = adapter /\ chunks' = chunks
        /\ got' = got /\ reader' = reader /\ protocol' = protocol
    BY <1>12 DEF Remember, channelVars
  <2>2. Carried(r)' = Carried(r) /\ Sent(r)' = Sent(r) /\ Chat(r)' = Chat(r)
    BY <2>1 DEF Carried, Queue, InFlight, Hand, Sent, Chat
  <2> QED
    BY <1>2, <2>1, <2>2
<1> QED
  BY <1>4, <1>5, <1>6, <1>7, <1>8, <1>9, <1>10, <1>11, <1>12
     DEF Step, ReaderStep, AdapterStep, LoopStep, HandlerStep

\* A client that stays until its handler has returned has all its provider sent.
THEOREM WhoStaysGetsAll == Spec => []StayingClientGetsAll
<1> DEFINE Inv == TypeOK /\ HandsMatch /\ \A r \in Requests : Ordered(r) /\ Whole(r)
<1>1. Init => Inv
  <2> SUFFICES ASSUME Init PROVE Inv
    OBVIOUS
  <2>1. TypeOK /\ HandsMatch
    BY TypeInit
  <2>2. ASSUME NEW r \in Requests PROVE Ordered(r) /\ Whole(r)
    <3>1. reader[r].next = 1 /\ got[r] = <<>> /\ adapter[r].pc = "idle" /\ Queue[r] = <<>>
      BY FifoInit DEF Init, Fifo!Init
    <3>2. Ordered(r)
      BY <3>1 DEF Init, Ordered
    <3>3. Carried(r) = <<>> /\ Sent(r) = <<>>
      BY <3>1 DEF Carried, Sent
    <3> QED
      BY <3>1, <3>2, <3>3 DEF Whole
  <2> QED
    BY <2>1, <2>2
<1>2. Inv /\ [Next]_vars => Inv'
  <2> SUFFICES ASSUME Inv, [Next]_vars PROVE Inv'
    OBVIOUS
  <2>1. (TypeOK /\ HandsMatch)'
    BY TypeParts, ProcsNext, HandsNext, ChannelsNext, BoundsNext, BuffersNext
       DEF TypeOK, ProcsTyped, HandsTyped, ChannelsTyped, ChannelsBounded, BuffersTyped
  <2>2. Typed
    BY TypeParts DEF Typed
  <2>3. ASSUME NEW q \in Requests, SameOf(q) PROVE Ordered(q)' /\ Whole(q)'
    <3>1. Ordered(q)'
      BY <2>3 DEF SameOf, Ordered
    <3>2. Carried(q)' = Carried(q) /\ Sent(q)' = Sent(q) /\ Chat(q)' = Chat(q)
      BY <2>3 DEF SameOf, Carried, Queue, InFlight, Hand, Sent, Chat
    <3> QED
      BY <2>3, <3>1, <3>2 DEF SameOf, Whole, Delivered
  <2>4. CASE UNCHANGED vars
    <3>1. \A q \in Requests : SameOf(q)
      BY <2>4 DEF vars, channelVars, SameOf
    <3> QED
      BY <2>1, <2>3, <3>1
  <2>5. ASSUME NEW r \in Requests, Step(r) PROVE Inv'
    <3>1. \A q \in Requests \ {r} : SameOf(q)
      BY <2>2, <2>5, OthersStay
    <3>2. Ordered(r)' /\ Whole(r)'
      BY <2>2, <2>5, OrderedAfter, WholeAfter
    <3> QED
      BY <2>1, <2>3, <3>1, <3>2
  <2> QED
    BY <2>4, <2>5 DEF Next, Step
<1>3. Inv => StayingClientGetsAll
  <2> SUFFICES ASSUME Inv, NEW r \in Requests, handler[r] = "returned", client[r] # "gone"
               PROVE  Delivered(got[r], r)
    BY DEF StayingClientGetsAll, Delivered
  <2>1. Typed
    BY TypeParts DEF Typed
  <2>2. adapter[r].pc = "ended" /\ loop[r].pc = "ended" /\ events[r] = <<>> /\ chunks[r] = <<>>
    BY DEF Ordered
  <2>3. Hand(adapter, r) = <<>> /\ Hand(loop, r) = <<>>
    BY <2>1, <2>2, HandOfAdapter, HandOfLoop
  <2>4. InFlight(r) = <<>>
    BY <2>2, <2>3 DEF InFlight
  <2>5. Carried(r) = got[r]
    BY <2>1, <2>4, CarriedOf, ConcatEmptySeq DEF Carried
  <2> QED
    BY <2>2, <2>5 DEF Whole
<1> QED
  BY <1>1, <1>2, <1>3, PTL DEF Spec

-----------------------------------------------------------------------------
(***************************************************************************)
(* What a session remembers. The chunks wait in line, so that their number *)
(* tells how many the adapter has taken, and the buffer of a request that  *)
(* shares it with nobody holds just those, as far as it has room. Requests *)
(* that are under way on one protocol have shared their buffer, all of     *)
(* them; hence no other request touches the buffer of one that has not.    *)
(***************************************************************************)

Taken(r) == reader[r].next - 1 - Len(chunks[r])

InLine(r) ==
    /\ Taken(r) \in Nat
    /\ \A i \in 1..Len(chunks[r]) : chunks[r][i] = <<Taken(r) + i, "event">>
    /\ handler[r] = "idle" => reader[r].pc = "idle" /\ Taken(r) = 0

Engaged(r) == Active(r) \/ Serving(r)

Together(q, r) == Engaged(q) /\ Engaged(r) /\ protocol[q] = protocol[r] => r \in shared

First(r, m) == [n \in 1..m |-> <<r, n>>]

Held(r) == IF Chat(r) \/ Taken(r) <= BufferLimit THEN Taken(r) ELSE BufferLimit

Alone(r) == r \notin shared /\ Engaged(r) => buffer[protocol[r]] = First(r, Held(r))

Remembered(r) ==
    r \notin shared /\ handler[r] = "returned" /\ client[r] # "gone" =>
        /\ Chat(r) => kept[r].chat = First(r, Held(r))
        /\ ~Chat(r) => kept[r].final \/ kept[r].anthropic = First(r, Held(r))

LEMMA LineLonger ==
  ASSUME NEW s \in Seq(Messages), NEW t \in Nat,
         \A i \in 1..Len(s) : s[i] = <<t + i, "event">>,
         NEW e \in Messages, e = <<t + Len(s) + 1, "event">>
  PROVE  /\ Len(Append(s, e)) = Len(s) + 1
         /\ \A i \in 1..Len(Append(s, e)) : Append(s, e)[i] = <<t + i, "event">>
<1>1. /\ Len(Append(s, e)) = Len(s) + 1 /\ Append(s, e)[Len(s) + 1] = e /\ Len(s) \in Nat
      /\ \A i \in 1..Len(s) : Append(s, e)[i] = s[i]
  BY AppendProperties, LenProperties
<1>2. ASSUME NEW i \in 1..(Len(s) + 1) PROVE Append(s, e)[i] = <<t + i, "event">>
  <2>1. CASE i = Len(s) + 1
    <3>1. t + i = t + Len(s) + 1
      BY <1>1, <2>1
    <3> QED
      BY <1>1, <2>1, <3>1
  <2>2. CASE i # Len(s) + 1
    <3>1. i \in 1..Len(s)
      BY <1>1, <2>2
    <3> QED
      BY <1>1, <3>1
  <2> QED
    BY <2>1, <2>2
<1> QED
  BY <1>1, <1>2

LEMMA LineShorter ==
  ASSUME NEW s \in Seq(Messages), NEW t \in Nat, s # <<>>,
         \A i \in 1..Len(s) : s[i] = <<t + i, "event">>
  PROVE  /\ Len(Tail(s)) = Len(s) - 1 /\ Head(s)[1] = t + 1
         /\ \A i \in 1..Len(Tail(s)) : Tail(s)[i] = <<(t + 1) + i, "event">>
<1>1. /\ Len(Tail(s)) = Len(s) - 1 /\ Len(s) \in Nat \ {0} /\ Head(s) = s[1]
      /\ \A i \in 1..Len(Tail(s)) : Tail(s)[i] = s[i + 1]
  BY HeadTailProperties, EmptySeq
<1>2. Head(s)[1] = t + 1
  BY <1>1
<1>3. ASSUME NEW i \in 1..Len(Tail(s)) PROVE Tail(s)[i] = <<(t + 1) + i, "event">>
  <2>1. i + 1 \in 1..Len(s) /\ t + (i + 1) = (t + 1) + i
    BY <1>1
  <2> QED
    BY <1>1, <2>1
<1> QED
  BY <1>1, <1>2, <1>3

LEMMA FirstIsSeq ==
  ASSUME NEW r \in Requests, NEW m \in Nat
  PROVE  /\ First(r, m) \in Seq(Requests \X Nat) /\ Len(First(r, m)) = m
         /\ \A i \in 1..m : First(r, m)[i] = <<r, i>>
  BY DEF First

LEMMA FirstLonger ==
  ASSUME NEW r \in Requests, NEW m \in Nat
  PROVE  Append(First(r, m), <<r, m + 1>>) = First(r, m + 1)
<1> DEFINE s == First(r, m)
           t == First(r, m + 1)
           e == <<r, m + 1>>
<1>1. /\ s \in Seq(Requests \X Nat) /\ Len(s) = m
      /\ \A i \in 1..m : s[i] = <<r, i>>
  BY FirstIsSeq
<1>2. /\ t \in Seq(Requests \X Nat) /\ Len(t) = m + 1
      /\ \A i \in 1..(m + 1) : t[i] = <<r, i>>
  <2>1. m + 1 \in Nat
    OBVIOUS
  <2> QED
    BY <2>1, FirstIsSeq
<1> HIDE DEF s, t
<1>3. e \in Requests \X Nat /\ t[m + 1] = e /\ \A i \in 1..m : t[i] = s[i]
  <2>1. m + 1 \in 1..(m + 1) /\ m + 1 \in Nat /\ \A i \in 1..m : i \in 1..(m + 1)
    OBVIOUS
  <2>2. e \in Requests \X Nat
    BY <2>1
  <2>3. t[m + 1] = e
    BY <1>2, <2>1
  <2>4. \A i \in 1..m : t[i] = s[i]
    BY <1>1, <1>2, <2>1
  <2> QED
    BY <2>2, <2>3, <2>4
<1> HIDE DEF e
<1>4. /\ Append(s, e) \in Seq(Requests \X Nat) /\ Len(Append(s, e)) = m + 1
      /\ \A i \in 1..m : Append(s, e)[i] = s[i]
      /\ Append(s, e)[m + 1] = e
  BY <1>1, <1>3, AppendProperties
<1>5. \A i \in 1..(m + 1) : t[i] = Append(s, e)[i]
  <2>1. ASSUME NEW i \in 1..(m + 1) PROVE t[i] = Append(s, e)[i]
    <3>1. i = m + 1 \/ i \in 1..m
      OBVIOUS
    <3> QED
      BY <1>3, <1>4, <3>1
  <2> QED
    BY <2>1
<1>6. t = Append(s, e)
  BY <1>2, <1>4, <1>5, SeqEqual
<1> QED
  BY <1>6 DEF s, t, e

\* All that a request's buffer can hold of it, when the adapter has taken all.
LEMMA AllHeld ==
  ASSUME NEW r \in Requests, reader[r].next - 1 \in Nat, chunks[r] = <<>>
  PROVE  Buffered(r) = First(r, Held(r))
<1> DEFINE m == reader[r].next - 1
<1>1. Taken(r) = m /\ Own(r) = First(r, m) /\ Len(Own(r)) = m
  <2>1. Len(chunks[r]) = 0
    OBVIOUS
  <2>2. Own(r) = First(r, m)
    BY DEF Own, First
  <2> HIDE DEF m
  <2>3. m = reader[r].next - 1 /\ m \in Nat
    BY DEF m
  <2>4. Len(First(r, m)) = m
    BY <2>3, FirstIsSeq
  <2>5. Taken(r) = m
    BY <2>1, <2>3 DEF Taken
  <2> QED
    BY <2>2, <2>4, <2>5
<1> HIDE DEF m
<1>2. m \in Nat
  BY DEF m
<1>3. CASE Chat(r) \/ m <= BufferLimit
  BY <1>1, <1>3 DEF Buffered, Held
<1>4. CASE ~(Chat(r) \/ m <= BufferLimit)
  <2>1. BufferLimit \in 0..m /\ BufferLimit \in Nat
    BY <1>2, <1>4 DEF PipelineAssumption
  <2>2. SubSeq(First(r, m), 1, BufferLimit) = First(r, BufferLimit)
    <3> DEFINE s == First(r, m)
               t == First(r, BufferLimit)
               u == SubSeq(s, 1, BufferLimit)
    <3>1. /\ s \in Seq(Requests \X Nat) /\ Len(s) = m
          /\ \A i \in 1..m : s[i] = <<r, i>>
      BY <1>2, FirstIsSeq
    <3>2. /\ t \in Seq(Requests \X Nat) /\ Len(t) = BufferLimit
          /\ \A i \in 1..BufferLimit : t[i] = <<r, i>>
      BY <2>1, FirstIsSeq
    <3> HIDE DEF s, t
    <3>3. /\ u \in Seq(Requests \X Nat) /\ Len(u) = BufferLimit
          /\ \A i \in 1..BufferLimit : u[i] = s[i]
      BY <2>1, <3>1
    <3>4. \A i \in 1..BufferLimit : u[i] = t[i]
      <4>1. \A i \in 1..BufferLimit : i \in 1..m
        BY <1>2, <2>1
      <4> QED
        BY <3>1, <3>2, <3>3, <4>1
    <3> HIDE DEF u
    <3>5. u = t
      BY <3>2, <3>3, <3>4, SeqEqual
    <3> QED
      BY <3>5 DEF s, t, u
  <2> QED
    BY <1>1, <1>4, <2>2 DEF Buffered, Held
<1> QED
  BY <1>3, <1>4

\* The chunks of a request wait in line.
LEMMA InLineAfter ==
  ASSUME Typed, NEW r \in Requests, Step(r), InLine(r)
  PROVE  InLine(r)'
<1>1. /\ reader[r].next \in Nat /\ chunks[r] \in Seq(Messages) /\ Len(chunks[r]) \in Nat
      /\ Taken(r) \in Nat /\ reader[r].next = Taken(r) + Len(chunks[r]) + 1
  BY LenProperties DEF Typed, ProcsTyped, ChannelsTyped, InLine, Taken
<1>2. CASE ReadChunk(r)
  <2> DEFINE s == chunks[r]
             e == <<reader[r].next, "event">>
  <2>1. s \in Seq(Messages) /\ e \in Messages /\ e = <<Taken(r) + Len(s) + 1, "event">>
    BY <1>1 DEF Messages
  <2>2. \A i \in 1..Len(s) : s[i] = <<Taken(r) + i, "event">>
    BY DEF InLine
  <2>3. /\ chunks'[r] = Append(s, e) /\ reader'[r].next = reader[r].next + 1
        /\ reader[r].pc = "reading" /\ handler'[r] = handler[r]
    BY <1>2 DEF ReadChunk, At, Typed, ProcsTyped, ChannelsTyped
  <2> HIDE DEF s, e
  <2>4. /\ Len(Append(s, e)) = Len(s) + 1
        /\ \A i \in 1..Len(Append(s, e)) : Append(s, e)[i] = <<Taken(r) + i, "event">>
    BY <1>1, <2>1, <2>2, LineLonger
  <2>5. Taken(r)' = Taken(r)
    <3>1. Taken(r) = reader[r].next - 1 - Len(s)
      BY Zenon DEF Taken, s
    <3>2. Taken(r)' = reader'[r].next - 1 - Len(Append(s, e))
      BY <2>3, Zenon DEF Taken
    <3>3. reader[r].next \in Int /\ Len(s) \in Int
      BY <1>1 DEF s
    <3> QED
      <4> DEFINE n == reader[r].next
                 k == Len(s)
                 n1 == reader'[r].next
                 k1 == Len(Append(s, e))
      <4>1. n \in Int /\ k \in Int /\ n1 = n + 1 /\ k1 = k + 1
        BY <2>3, <2>4, <3>3, Zenon
      <4> HIDE DEF n, k, n1, k1
      <4>2. n1 - 1 - k1 = n - 1 - k
        BY <4>1
      <4> QED
        BY <3>1, <3>2, <4>2, Zenon DEF n, k, n1, k1
  <2>6. handler[r] # "idle"
    BY <2>3 DEF InLine
  <2>7. Taken(r)' \in Nat
    BY <1>1, <2>5
  <2>8. \A i \in 1..Len(chunks'[r]) : chunks'[r][i] = <<Taken(r)' + i, "event">>
    BY <2>3, <2>4, <2>5
  <2>9. handler'[r] # "idle"
    BY <2>3, <2>6
  <2> QED
    BY <2>7, <2>8, <2>9, Zenon DEF InLine
<1>3. CASE TakeChunk(r)
  <2> DEFINE s == chunks[r]
  <2>1. s \in Seq(Messages) /\ s # <<>> /\ chunks'[r] = Tail(s)
    BY <1>1, <1>3 DEF TakeChunk, Typed, ChannelsTyped
  <2>2. \A i \in 1..Len(s) : s[i] = <<Taken(r) + i, "event">>
    BY DEF InLine
  <2>3. reader' = reader /\ handler'[r] = handler[r] /\ handler[r] # "idle"
    BY <1>3 DEF TakeChunk, Typed, HandsMatch, At
  <2>4. Len(s) = Len(chunks[r])
    OBVIOUS
  <2> HIDE DEF s
  <2>5. /\ Len(Tail(s)) = Len(s) - 1
        /\ \A i \in 1..Len(Tail(s)) : Tail(s)[i] = <<(Taken(r) + 1) + i, "event">>
    BY <1>1, <2>1, <2>2, LineShorter
  <2>6. Taken(r)' = Taken(r) + 1
    BY <1>1, <2>1, <2>3, <2>4, <2>5 DEF Taken
  <2>7. \A i \in 1..Len(chunks'[r]) : chunks'[r][i] = <<Taken(r)' + i, "event">>
    BY <2>1, <2>5, <2>6
  <2>8. Taken(r)' \in Nat
    BY <1>1, <2>6
  <2> QED
    BY <2>3, <2>7, <2>8 DEF InLine
<1>4. ASSUME chunks'[r] = chunks[r], reader'[r].next = reader[r].next,
             handler'[r] = "idle" => handler[r] = "idle" /\ reader'[r].pc = reader[r].pc
      PROVE  InLine(r)'
  <2>1. Taken(r)' = Taken(r)
    BY <1>4 DEF Taken
  <2> QED
    BY <1>4, <2>1 DEF InLine
<1>5. CASE Begin(r)
  BY <1>4, <1>5 DEF Begin, Typed, ProcsTyped
<1>6. CASE BodyEnds(r)
  BY <1>4, <1>6 DEF BodyEnds, At, Typed, ProcsTyped, InLine
<1>7. CASE EndOfChunks(r) \/ StopReading(r) \/ Emit(r) \/ DropEvent(r) \/ TakeEvent(r)
           \/ EndOfEvents(r) \/ WriteEvent(r) \/ WriteFails(r)
  BY <1>4, <1>7 DEF EndOfChunks, StopReading, Emit, DropEvent, TakeEvent, EndOfEvents,
     WriteEvent, WriteFails, Typed, ProcsTyped
<1>8. CASE Remember(r) \/ ClientStalls(r) \/ ClientLeaves(r) \/ ContextEnds(r)
  BY <1>4, <1>8 DEF Remember, ClientStalls, ClientLeaves, ContextEnds, channelVars, Typed, ProcsTyped
<1> QED
  BY <1>2, <1>3, <1>5, <1>6, <1>7, <1>8
     DEF Step, ReaderStep, AdapterStep, LoopStep, HandlerStep

\* A request gets under way by beginning, and shares its buffer from then on
\* with all that are under way on its protocol.
LEMMA EngagedAfter ==
  ASSUME Typed, NEW r \in Requests, Step(r)
  PROVE  /\ shared \subseteq shared' /\ protocol' = protocol
         /\ Begin(r) \/ ((Engaged(r)' => Engaged(r)) /\ shared' = shared)
         /\ handler'[r] = "returned" /\ handler[r] # "returned" => Remember(r)
<1> USE DEF Typed, ProcsTyped, HandsTyped, Pcs, Engaged, Active, Serving, At
<1>1. CASE Begin(r)
  BY <1>1 DEF Begin
<1>2. CASE ReadChunk(r) \/ BodyEnds(r)
  <2>1. /\ adapter' = adapter /\ handler' = handler
        /\ shared' = shared /\ protocol' = protocol
    BY <1>2 DEF ReadChunk, BodyEnds
  <2> QED
    BY <2>1
<1>3. CASE TakeChunk(r) \/ StopReading(r) \/ Emit(r) \/ DropEvent(r)
  BY <1>3 DEF TakeChunk, StopReading, Emit, DropEvent
<1>4. CASE EndOfChunks(r)
  BY <1>4 DEF EndOfChunks
<1>5. CASE TakeEvent(r) \/ EndOfEvents(r) \/ WriteEvent(r) \/ WriteFails(r)
  BY <1>5 DEF TakeEvent, EndOfEvents, WriteEvent, WriteFails, Received
<1>6. CASE Remember(r) \/ ClientStalls(r) \/ ClientLeaves(r) \/ ContextEnds(r)
  BY <1>6 DEF Remember, ClientStalls, ClientLeaves, ContextEnds, channelVars
<1> QED
  BY <1>1, <1>2, <1>3, <1>4, <1>5, <1>6 DEF Step, ReaderStep, AdapterStep, LoopStep, HandlerStep

LEMMA TogetherAfter ==
  ASSUME Typed, NEW r \in Requests, Step(r),
         \A p \in Requests : \A q \in Requests \ {p} : Together(p, q)
  PROVE  \A p \in Requests : \A q \in Requests \ {p} : Together(p, q)'
<1> SUFFICES ASSUME NEW p \in Requests, NEW q \in Requests \ {p},
                    Engaged(p)', Engaged(q)', protocol[p] = protocol[q]
             PROVE  q \in shared'
  BY EngagedAfter DEF Together
<1>1. shared \subseteq shared' /\ (Begin(r) \/ (Engaged(r)' => Engaged(r)))
  BY EngagedAfter
<1>2. \A o \in Requests \ {r} : Engaged(o)' = Engaged(o)
  BY OthersStay DEF SameOf, Engaged, Active, Serving
<1>3. CASE Engaged(p) /\ Engaged(q)
  BY <1>1, <1>3 DEF Together
<1>4. CASE Begin(r) /\ r = q
  <2>1. Engaged(p)
    BY <1>2, <1>4
  <2>2. p \in {o \in Requests \ {r} : protocol[o] = protocol[r] /\ (Active(o) \/ Serving(o))}
    BY <1>4, <2>1 DEF Engaged
  <2> QED
    BY <1>4, <2>2 DEF Begin
<1>5. CASE Begin(r) /\ r = p
  <2>1. Engaged(q)
    BY <1>2, <1>5
  <2>2. q \in {o \in Requests \ {r} : protocol[o] = protocol[r] /\ (Active(o) \/ Serving(o))}
    BY <1>5, <2>1 DEF Engaged
  <2> QED
    BY <1>5, <2>2 DEF Begin
<1> QED
  BY <1>1, <1>2, <1>3, <1>4, <1>5

\* Nobody else touches the buffer of a request that has not shared it.
LEMMA BufferOfOthers ==
  ASSUME Typed, BuffersTyped, NEW r \in Requests, Step(r), NEW q \in Requests \ {r},
         Together(r, q), q \notin shared', Engaged(q)
  PROVE  buffer'[protocol[q]] = buffer[protocol[q]]
<1>1. protocol[r] \in Protocols /\ protocol[q] \in Protocols
  BY DEF Typed, ProcsTyped
<1>2. CASE Begin(r)
  <2>1. protocol[q] # protocol[r]
    <3>1. SUFFICES ASSUME protocol[q] = protocol[r] PROVE FALSE
      OBVIOUS
    <3>2. q \in {o \in Requests \ {r} : protocol[o] = protocol[r] /\ (Active(o) \/ Serving(o))}
      BY <3>1 DEF Engaged
    <3> QED
      BY <1>2, <3>2 DEF Begin
  <2> QED
    BY <1>1, <1>2, <2>1 DEF Begin, BuffersTyped
<1>3. CASE TakeChunk(r)
  <2>1. Engaged(r) /\ shared' = shared
    BY <1>3 DEF TakeChunk, At, Engaged, Active
  <2>2. protocol[q] # protocol[r]
    BY <2>1 DEF Together
  <2>3. \/ buffer' = buffer
        \/ buffer' = [buffer EXCEPT ![protocol[r]] = Append(@, <<r, Head(chunks[r])[1]>>)]
    BY <1>3 DEF TakeChunk
  <2> QED
    BY <1>1, <2>2, <2>3 DEF BuffersTyped
<1>4. CASE ~Begin(r) /\ ~TakeChunk(r)
  <2>1. buffer' = buffer
    BY <1>4 DEF Step, ReaderStep, AdapterStep, LoopStep, HandlerStep, ReadChunk, BodyEnds,
       EndOfChunks, StopReading, Emit, DropEvent, TakeEvent, EndOfEvents, WriteEvent,
       WriteFails, Remember, ClientStalls, ClientLeaves, ContextEnds, channelVars
  <2> QED
    BY <2>1
<1> QED
  BY <1>2, <1>3, <1>4

LEMMA AloneAfter ==
  ASSUME Typed, BuffersTyped, NEW r \in Requests, Step(r), InLine(r), Alone(r)
  PROVE  Alone(r)'
<1> SUFFICES ASSUME r \notin shared', Engaged(r)'
             PROVE  buffer'[protocol'[r]] = First(r, Held(r)')
  BY DEF Alone
<1>1. /\ reader[r].next \in Nat /\ chunks[r] \in Seq(Messages) /\ Len(chunks[r]) \in Nat
      /\ Taken(r) \in Nat /\ reader[r].next = Taken(r) + Len(chunks[r]) + 1
      /\ protocol[r] \in Protocols /\ protocol' = protocol
  <2>1. protocol[r] \in Protocols /\ protocol' = protocol
    BY EngagedAfter DEF Typed, ProcsTyped
  <2>2. reader[r].next \in Nat /\ chunks[r] \in Seq(Messages) /\ Len(chunks[r]) \in Nat
    BY LenProperties DEF Typed, ProcsTyped, ChannelsTyped
  <2>3. Taken(r) \in Nat /\ reader[r].next = Taken(r) + Len(chunks[r]) + 1
    BY <2>2 DEF InLine, Taken
  <2> QED
    BY <2>1, <2>2, <2>3
<1>2. CASE Begin(r)
  <2>1. buffer'[protocol[r]] = <<>>
    BY <1>1, <1>2 DEF Begin, BuffersTyped
  <2>2. reader'[r].next = reader[r].next /\ chunks' = chunks /\ handler[r] = "idle"
    BY <1>2 DEF Begin, Typed, ProcsTyped
  <2>3. Taken(r) = 0
    BY <2>2 DEF InLine
  <2>4. Taken(r)' = 0
    BY <2>2, <2>3 DEF Taken
  <2>5. Held(r)' = 0
    BY <2>4 DEF Held, PipelineAssumption
  <2>6. First(r, 0) = <<>>
    BY DEF First
  <2> QED
    BY <1>1, <2>1, <2>5, <2>6
<1>3. r \notin shared /\ (~Begin(r) => Engaged(r) /\ buffer[protocol[r]] = First(r, Held(r)))
  BY EngagedAfter DEF Alone
<1>4. CASE TakeChunk(r)
  <2> DEFINE e == <<r, Head(chunks[r])[1]>>
             m == Taken(r)
  <2>1. \A i \in 1..Len(chunks[r]) : chunks[r][i] = <<m + i, "event">>
    BY DEF InLine
  <2>2. Len(Tail(chunks[r])) = Len(chunks[r]) - 1 /\ Head(chunks[r])[1] = m + 1
    <3> DEFINE s == chunks[r]
    <3>1. s \in Seq(Messages) /\ s # <<>> /\ m \in Nat
      BY <1>1, <1>4 DEF TakeChunk
    <3> HIDE DEF s, m
    <3>2. \A i \in 1..Len(s) : s[i] = <<m + i, "event">>
      BY <2>1 DEF s
    <3>3. Len(Tail(s)) = Len(s) - 1 /\ Head(s)[1] = m + 1
      BY <3>1, <3>2, LineShorter
    <3> QED
      BY <3>3 DEF s
  <2>3. chunks'[r] = Tail(chunks[r]) /\ reader' = reader
    BY <1>4 DEF TakeChunk, Typed, ChannelsTyped
  <2>4. Taken(r)' = m + 1
    <3>1. Taken(r)' = reader[r].next - 1 - (Len(chunks[r]) - 1)
      BY <2>2, <2>3 DEF Taken
    <3> QED
      BY <1>1, <3>1
  <2>5. e = <<r, m + 1>>
    BY <2>2
  <2>6. Chat(r)' = Chat(r)
    BY <1>1 DEF Chat
  <2>7. ~Chat(r) => protocol[r] = "anthropic"
    BY <1>1 DEF Chat, Protocols
  <2>8. BufferLimit \in Nat
    BY DEF PipelineAssumption
  <2> HIDE DEF e, m
  <2>9. m \in Nat /\ Taken(r) = m
    BY <1>1 DEF m
  <2>10. CASE Chat(r) \/ m < BufferLimit
    <3>1. Held(r) = m /\ Held(r)' = m + 1
      BY <2>4, <2>6, <2>8, <2>9, <2>10 DEF Held
    <3>2. buffer[protocol[r]] = First(r, m)
      BY <1>3, <1>4, <3>1 DEF TakeChunk, Begin, HandsMatch, Typed, At
    <3>3. Chat(r) \/ Len(buffer["anthropic"]) < BufferLimit
      <4>1. CASE ~Chat(r)
        <5>1. Len(First(r, m)) = m
          BY <2>9, FirstIsSeq
        <5> QED
          BY <2>7, <2>10, <3>2, <4>1, <5>1
      <4> QED
        BY <4>1
    <3>4. buffer' = [buffer EXCEPT ![protocol[r]] = Append(@, e)]
      BY <1>4, <3>3 DEF TakeChunk, e
    <3>5. buffer'[protocol[r]] = Append(First(r, m), e)
      BY <1>1, <3>2, <3>4 DEF BuffersTyped
    <3>6. Append(First(r, m), e) = First(r, m + 1)
      BY <2>5, <2>9, FirstLonger
    <3> QED
      BY <1>1, <3>1, <3>5, <3>6
  <2>11. CASE ~(Chat(r) \/ m < BufferLimit)
    <3>1. Held(r) = BufferLimit /\ Held(r)' = BufferLimit
      BY <2>4, <2>6, <2>8, <2>9, <2>11 DEF Held
    <3>2. buffer[protocol[r]] = First(r, BufferLimit)
      BY <1>3, <1>4, <3>1 DEF TakeChunk, Begin, HandsMatch, Typed, At
    <3>3. Len(First(r, BufferLimit)) = BufferLimit
      BY <2>8, FirstIsSeq
    <3>4. ~(Chat(r) \/ Len(buffer["anthropic"]) < BufferLimit)
      BY <2>7, <2>8, <2>11, <3>2, <3>3
    <3>5. buffer' = buffer
      BY <1>4, <3>4 DEF TakeChunk
    <3> QED
      BY <1>1, <3>1, <3>2, <3>5
  <2> QED
    BY <2>10, <2>11
<1>5. CASE ReadChunk(r)
  <2>1. /\ chunks'[r] = Append(chunks[r], <<reader[r].next, "event">>)
        /\ reader'[r].next = reader[r].next + 1 /\ buffer' = buffer
    BY <1>5 DEF ReadChunk, Typed, ProcsTyped, ChannelsTyped
  <2>2. <<reader[r].next, "event">> \in Messages
    BY <1>1 DEF Messages
  <2>3. Len(chunks'[r]) = Len(chunks[r]) + 1
    <3> DEFINE s == chunks[r]
               e == <<reader[r].next, "event">>
    <3> HIDE DEF e, s
    <3>1. s \in Seq(Messages) /\ e \in Messages
      BY <1>1, <2>2 DEF e, s
    <3>2. Len(Append(s, e)) = Len(s) + 1
      BY <3>1, AppendProperties
    <3> QED
      BY <2>1, <3>2 DEF e, s
  <2>4. Taken(r)' = Taken(r)
    <3>1. Taken(r) = reader[r].next - 1 - Len(chunks[r])
      BY Zenon DEF Taken
    <3>2. Taken(r)' = reader'[r].next - 1 - Len(chunks'[r])
      BY Zenon DEF Taken
    <3>3. reader[r].next \in Int /\ Len(chunks[r]) \in Int
      BY <1>1
    <3>4. reader'[r].next = reader[r].next + 1
      BY <2>1
    <3> QED
      <4> DEFINE n == reader[r].next
                 k == Len(chunks[r])
                 n1 == reader'[r].next
                 k1 == Len(chunks'[r])
      <4>1. n \in Int /\ k \in Int /\ n1 = n + 1 /\ k1 = k + 1
        BY <2>3, <3>3, <3>4
      <4> HIDE DEF n, k, n1, k1
      <4>2. n1 - 1 - k1 = n - 1 - k
        BY <4>1
      <4> QED
        BY <3>1, <3>2, <4>2, Zenon DEF n, k, n1, k1
  <2>5. Held(r)' = Held(r)
    BY <1>1, <2>4 DEF Held, Chat
  <2>6. handler[r] # "idle"
    BY <1>5 DEF ReadChunk, At, InLine
  <2>7. ~Begin(r)
    BY <2>6 DEF Begin
  <2> QED
    BY <1>1, <1>3, <2>1, <2>5, <2>7
<1>6. CASE ~Begin(r) /\ ~TakeChunk(r) /\ ~ReadChunk(r)
  <2>1. chunks' = chunks /\ buffer' = buffer /\ reader'[r].next = reader[r].next
    <3>1. CASE BodyEnds(r)
      BY <3>1 DEF BodyEnds, Typed, ProcsTyped
    <3>2. CASE ~BodyEnds(r)
      BY <1>6, <3>2 DEF Step, ReaderStep, AdapterStep, LoopStep, HandlerStep,
         EndOfChunks, StopReading, Emit, DropEvent, TakeEvent, EndOfEvents, WriteEvent,
         WriteFails, Remember, ClientStalls, ClientLeaves, ContextEnds, channelVars
    <3> QED
      BY <3>1, <3>2
  <2>2. Held(r)' = Held(r)
    BY <1>1, <2>1 DEF Held, Taken, Chat
  <2> QED
    BY <1>1, <1>3, <1>6, <2>1, <2>2
<1> QED
  BY <1>2, <1>4, <1>5, <1>6

LEMMA RememberedAfter ==
  ASSUME Typed, BuffersTyped, NEW r \in Requests, Step(r), InLine(r), Alone(r), Ordered(r),
         Remembered(r)
  PROVE  Remembered(r)'
<1> SUFFICES ASSUME r \notin shared', handler'[r] = "returned", client'[r] # "gone"
             PROVE  /\ Chat(r) => kept'[r].chat = First(r, Held(r)')
                    /\ ~Chat(r) => kept'[r].final \/ kept'[r].anthropic = First(r, Held(r)')
  <2>1. Chat(r)' = Chat(r)
    BY EngagedAfter DEF Chat
  <2> QED
    BY <2>1 DEF Remembered
<1>1. r \notin shared /\ protocol[r] \in Protocols /\ client[r] # "gone"
  <2>1. client[r] # "gone"
    BY DEF Step, ReaderStep, AdapterStep, LoopStep, HandlerStep, Begin, ReadChunk, BodyEnds,
         TakeChunk, EndOfChunks, StopReading, Emit, DropEvent, TakeEvent, EndOfEvents,
         WriteEvent, WriteFails, Remember, ClientStalls, ClientLeaves, ContextEnds, channelVars, Typed, ProcsTyped
  <2> QED
    BY <2>1, EngagedAfter DEF Typed, ProcsTyped
<1>2. CASE Remember(r)
  <2>1. /\ reader' = reader /\ chunks' = chunks /\ protocol' = protocol
        /\ kept'[r] = [final |-> Completed(r),
                       anthropic |-> IF Completed(r) THEN <<>> ELSE buffer["anthropic"],
                       chat |-> buffer["chat"]]
        /\ handler[r] \in {"writing", "broken"}
    BY <1>2 DEF Remember, channelVars, BuffersTyped
  <2>2. Held(r)' = Held(r)
    BY <2>1 DEF Held, Taken, Chat
  <2>3. buffer[protocol[r]] = First(r, Held(r))
    BY <1>1, <2>1 DEF Alone, Engaged, Serving
  <2>4. /\ Chat(r) => kept'[r].chat = buffer[protocol[r]]
        /\ ~Chat(r) => kept'[r].final \/ kept'[r].anthropic = buffer[protocol[r]]
    BY <1>1, <2>1 DEF Chat, Protocols
  <2> QED
    BY <2>2, <2>3, <2>4
<1>3. CASE ~Remember(r)
  <2>1. handler[r] = "returned"
    BY <1>3, EngagedAfter
  <2>2. /\ loop[r].pc = "ended" /\ adapter[r].pc = "ended" /\ reader[r].pc = "ended"
    BY <1>1, <2>1 DEF Ordered
  <2>3. reader' = reader /\ chunks' = chunks /\ kept' = kept /\ protocol' = protocol
    BY <1>1, <1>3, <2>1, <2>2 DEF Step, ReaderStep, AdapterStep, LoopStep, HandlerStep, Begin, ReadChunk, BodyEnds,
         TakeChunk, EndOfChunks, StopReading, Emit, DropEvent, TakeEvent, EndOfEvents, At,
         WriteEvent, WriteFails, ClientStalls, ClientLeaves, ContextEnds, channelVars
  <2>4. Held(r)' = Held(r)
    BY <2>3 DEF Held, Taken, Chat
  <2> QED
    BY <1>1, <2>1, <2>3, <2>4 DEF Remembered
<1> QED
  BY <1>2, <1>3

LEMMA NothingMoves == UNCHANGED vars => \A q \in Requests : SameOf(q)
  BY DEF vars, channelVars, SameOf

\* A request that shared its buffer with nobody is remembered as it was streamed.
THEOREM OwnStreamIsRemembered == Spec => []OwnStreamRemembered
<1> DEFINE
      Lines == \A r \in Requests : Ordered(r) /\ InLine(r)
      Apart == \A p \in Requests : \A q \in Requests \ {p} : Together(p, q)
      Inv == /\ TypeOK /\ HandsMatch /\ Lines /\ Apart
             /\ \A r \in Requests : Alone(r) /\ Remembered(r)
<1>1. Init => Inv
  <2> SUFFICES ASSUME Init PROVE Inv
    OBVIOUS
  <2>1. TypeOK /\ HandsMatch
    BY TypeInit
  <2>2. ASSUME NEW r \in Requests PROVE Ordered(r) /\ InLine(r) /\ Alone(r) /\ Remembered(r)
    <3>1. /\ reader[r] = [pc |-> "idle", next |-> 1] /\ chunks[r] = <<>> /\ handler[r] = "idle"
          /\ adapter[r].pc = "idle" /\ loop[r].pc = "idle" /\ ctx[r] = "alive"
      BY DEF Init
    <3>2. Taken(r) = 0 /\ ~Engaged(r) /\ Len(chunks[r]) = 0
      BY <3>1 DEF Taken, Engaged, Active, Serving
    <3> QED
      BY <3>1, <3>2 DEF Ordered, InLine, Alone, Remembered
  <2>3. Apart
    BY DEF Init, Together, Engaged, Active, Serving
  <2> QED
    BY <2>1, <2>2, <2>3
<1>2. Inv /\ [Next]_vars => Inv'
  <2> SUFFICES ASSUME Inv, [Next]_vars PROVE Inv'
    OBVIOUS
  <2>1. (TypeOK /\ HandsMatch)'
    BY TypeParts, ProcsNext, HandsNext, ChannelsNext, BoundsNext, BuffersNext
       DEF TypeOK, ProcsTyped, HandsTyped, ChannelsTyped, ChannelsBounded, BuffersTyped
  <2>2. Typed /\ BuffersTyped
    BY TypeParts DEF Typed
  <2>3. CASE UNCHANGED vars
    <3>1. \A q \in Requests : SameOf(q)
      BY <2>3, NothingMoves
    <3>2. ASSUME NEW q \in Requests PROVE Ordered(q)' /\ InLine(q)'
      <4>1. SameOf(q)
        BY <3>1
      <4>2. Ordered(q) /\ InLine(q)
        OBVIOUS
      <4> QED
        BY <4>1, <4>2 DEF SameOf, Ordered, InLine, Taken
    <3>3. Apart'
      BY <2>3 DEF vars, channelVars, Together, Engaged, Active, Serving
    <3>4. \A r \in Requests : Alone(r)' /\ Remembered(r)'
      BY <2>3 DEF vars, channelVars, Alone, Remembered, Engaged, Active, Serving, Held, Taken, Chat
    <3> QED
      BY <2>1, <3>2, <3>3, <3>4
  <2>4. ASSUME NEW r \in Requests, Step(r) PROVE Inv'
    <3>1. Ordered(r)' /\ InLine(r)' /\ Alone(r)' /\ Remembered(r)'
      BY <2>2, <2>4, OrderedAfter, InLineAfter, AloneAfter, RememberedAfter
    <3>2. Apart'
      BY <2>2, <2>4, TogetherAfter
    <3>3. ASSUME NEW q \in Requests \ {r}
          PROVE  Ordered(q)' /\ InLine(q)' /\ Alone(q)' /\ Remembered(q)'
      <4>1. SameOf(q)
        BY <2>2, <2>4, OthersStay
      <4>2. Ordered(q)' /\ InLine(q)'
        BY <4>1 DEF SameOf, Ordered, InLine, Taken
      <4>3. Held(q)' = Held(q) /\ Engaged(q)' = Engaged(q) /\ shared \subseteq shared'
        BY <2>2, <2>4, <4>1, EngagedAfter DEF SameOf, Held, Taken, Chat, Engaged, Active, Serving
      <4>4. Alone(q)'
        <5>1. ASSUME q \notin shared', Engaged(q) PROVE buffer'[protocol[q]] = buffer[protocol[q]]
          BY <2>2, <2>4, <5>1, BufferOfOthers
        <5> QED
          BY <4>1, <4>3, <5>1 DEF Alone, SameOf
      <4>5. kept'[q] = kept[q]
        BY <2>2, <2>4 DEF Step, ReaderStep, AdapterStep, LoopStep, HandlerStep, Begin, ReadChunk,
         BodyEnds, TakeChunk, EndOfChunks, StopReading, Emit, DropEvent, TakeEvent, EndOfEvents,
         WriteEvent, WriteFails, Remember, ClientStalls, ClientLeaves, ContextEnds, channelVars, BuffersTyped
      <4>6. Remembered(q)'
        BY <4>1, <4>3, <4>5 DEF Remembered, SameOf, Chat
      <4> QED
        BY <4>2, <4>4, <4>6
    <3> QED
      BY <2>1, <3>1, <3>2, <3>3
  <2> QED
    BY <2>3, <2>4 DEF Next, Step
<1>3. Inv => OwnStreamRemembered
  <2> SUFFICES ASSUME Inv, NEW r \in Requests \ shared, handler[r] = "returned",
                      client[r] # "gone"
               PROVE  /\ Chat(r) => kept[r].chat = Buffered(r)
                      /\ ~Chat(r) => kept[r].final \/ kept[r].anthropic = Buffered(r)
    BY DEF OwnStreamRemembered
  <2>1. chunks[r] = <<>> /\ reader[r].next - 1 \in Nat
    BY DEF Ordered
  <2>2. Buffered(r) = First(r, Held(r))
    BY <2>1, AllHeld
  <2> QED
    BY <2>2 DEF Remembered
<1> QED
  BY <1>1, <1>2, <1>3, PTL DEF Spec
=============================================================================

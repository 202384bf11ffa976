---------------------------- MODULE StreamFifo ----------------------------
(***************************************************************************)
(* What streaming requests promise their clients, whatever goroutines and  *)
(* channels lie in between: a client receives what its provider sent, in   *)
(* that order, and nothing twice. Only once the request has been given up  *)
(* may something on the way be lost.                                       *)
(***************************************************************************)
EXTENDS Naturals, Sequences

CONSTANTS Requests, Events

VARIABLES
    queue,    \* of each request: what was sent and not yet received
    got,      \* of each request: what the client received, oldest first
    givenUp   \* the requests whose context is done or whose client is gone

fifoVars == <<queue, got, givenUp>>

Init ==
    /\ queue = [r \in Requests |-> <<>>]
    /\ got = [r \in Requests |-> <<>>]
    /\ givenUp = {}

Put(r) ==
    /\ \E e \in Events : queue' = [queue EXCEPT ![r] = Append(@, e)]
    /\ UNCHANGED <<got, givenUp>>

Get(r) ==
    /\ queue[r] # <<>>
    /\ got' = [got EXCEPT ![r] = Append(@, Head(queue[r]))]
    /\ queue' = [queue EXCEPT ![r] = Tail(@)]
    /\ UNCHANGED givenUp

GiveUp(r) == givenUp' = givenUp \cup {r} /\ UNCHANGED <<queue, got>>

\* q without the event at place k.
Without(q, k) == SubSeq(q, 1, k - 1) \o SubSeq(q, k + 1, Len(q))

Lose(r) ==
    /\ r \in givenUp
    /\ \E k \in DOMAIN queue[r] : queue' = [queue EXCEPT ![r] = Without(@, k)]
    /\ UNCHANGED <<got, givenUp>>

Next == \E r \in Requests : Put(r) \/ Get(r) \/ GiveUp(r) \/ Lose(r)

Spec == Init /\ [][Next]_fifoVars
=============================================================================

--------------------------- MODULE Server_proofs ---------------------------
(***************************************************************************)
(* Proofs about the server. Its session manager: types, isolation of       *)
(* conversations, how long a conversation is kept, and the limit. The life *)
(* of its process: types, and that a handler has the plugins and the       *)
(* database it uses, for any plugins, databases, consumers and requests.   *)
(***************************************************************************)
EXTENDS SessionManager, ServerLifecycle, FiniteSetTheorems, TLAPS

-----------------------------------------------------------------------------
(***************************************************************************)
(* Types.                                                                  *)
(***************************************************************************)

LEMMA TypeInit == Init => TypeOK
<1> SUFFICES ASSUME Init PROVE TypeOK
  OBVIOUS
<1>1. NoKey \in AllKeys
  BY DEF AllKeys
<1>2. /\ sessions \in [AllKeys -> Entry \cup {Absent}]
      /\ key \in [Requests -> AllKeys]
      /\ held \in [Requests -> Handle \cup {Absent}]
  BY <1>1 DEF Init
<1>3. /\ pc \in [Goroutines -> {"idle", "waiting", "locked", "serving"}]
      /\ at \in [Goroutines -> Nat]
  BY DEF Init
<1>4. nextId \in Nat \ {0} /\ clock \in Nat
  BY DEF Init
<1>5. ttl \in Ttls /\ limit \in Limits
  BY DEF Init
<1>6. mu \in Requests \cup {Free}
  BY DEF Init
<1>7. stopped \in BOOLEAN /\ evicted \subseteq Nat
  BY DEF Init
<1> QED
  BY <1>2, <1>3, <1>4, <1>5, <1>6, <1>7 DEF TypeOK

LEMMA PrunedType ==
  ASSUME TypeOK, NEW now
  PROVE  Pruned(now) \in [AllKeys -> Entry \cup {Absent}]
  BY DEF Pruned, TypeOK

LEMMA TypeNext == TypeOK /\ [Next]_vars => TypeOK'
<1> SUFFICES ASSUME TypeOK, [Next]_vars PROVE TypeOK'
  OBVIOUS
<1> USE DEF TypeOK
<1>1. ASSUME NEW r \in Requests, NEW k \in AllKeys, LookUp(r, k) PROVE TypeOK'
  BY <1>1 DEF LookUp, table, config, Goroutines
<1>2. ASSUME NEW r \in Requests, Arrive(r) \/ LookUpAgain(r) PROVE TypeOK'
  BY <1>1, <1>2 DEF Arrive, LookUpAgain
<1>3. ASSUME NEW r \in Requests, NewEphemeral(r) PROVE TypeOK'
  BY <1>3 DEF NewEphemeral, Returned, config, Goroutines, Handle
<1>4. ASSUME NEW r \in Requests, Lock(r) PROVE TypeOK'
  BY <1>4, PrunedType DEF Lock, config, Goroutines
<1>5. ASSUME NEW r \in Requests, Hit(r) PROVE TypeOK'
  <2>1. sessions[key[r]] \in Entry /\ key[r] \in AllKeys /\ at[r] \in Nat
    BY <1>5 DEF Hit, Goroutines
  <2>2. [id |-> sessions[key[r]].id, since |-> at[r]] \in Handle
    BY <2>1 DEF Entry, Handle
  <2>3. [sessions[key[r]] EXCEPT !.lastUsed = at[r]] \in Entry
    BY <2>1 DEF Entry
  <2>4. sessions' \in [AllKeys -> Entry \cup {Absent}]
    BY <1>5, <2>1, <2>3 DEF Hit
  <2>5. held' \in [Requests -> Handle \cup {Absent}]
    BY <1>5, <2>2 DEF Hit
  <2> QED
    BY <1>5, <2>4, <2>5 DEF Hit, Returned, Unlocked, config, Goroutines
<1>6. ASSUME NEW r \in Requests, Create(r) PROVE TypeOK'
  <2>0. at[r] \in Nat
    BY DEF Goroutines
  <2>1. PICK kept \in Kept :
          /\ sessions' = [k \in AllKeys |->
               IF k = key[r] THEN [id |-> nextId, lastUsed |-> at[r]]
               ELSE IF k \in kept THEN sessions[k] ELSE Absent]
          /\ evicted' = evicted \cup { sessions[k].id : k \in Tracked \ kept }
    BY <1>6 DEF Create
  <2>2. [id |-> nextId, lastUsed |-> at[r]] \in Entry
    BY <2>0 DEF Entry
  <2>3. sessions' \in [AllKeys -> Entry \cup {Absent}]
    BY <2>1, <2>2
  <2>4. \A k \in Tracked : sessions[k].id \in Nat
    BY DEF Tracked, Entry
  <2>5. evicted' \subseteq Nat
    <3>1. { sessions[k].id : k \in Tracked \ kept } \subseteq Nat
      BY <2>4
    <3> QED
      BY <2>1, <3>1
  <2>6. held' \in [Requests -> Handle \cup {Absent}]
    BY <1>6, <2>0 DEF Create, Handle
  <2>7. nextId' \in Nat \ {0}
    BY <1>6 DEF Create
  <2> QED
    BY <1>6, <2>3, <2>5, <2>6, <2>7 DEF Create, Returned, config, Goroutines
<1>7. ASSUME NEW r \in Requests, Finish(r) PROVE TypeOK'
  BY <1>7 DEF Finish, table, config, Goroutines, AllKeys
<1>8. CASE Wake
  BY <1>8 DEF Wake, table, config, Goroutines
<1>9. CASE Prune
  BY <1>9, PrunedType DEF Prune, config, Goroutines
<1>10. CASE Stop \/ Reconfigure \/ UNCHANGED vars
  BY <1>10 DEF Stop, Reconfigure, vars, table, config, lookup
<1>11. CASE Tick
  BY <1>11 DEF Tick, table, config, lookup
<1> HIDE DEF TypeOK
<1> QED
  BY <1>2, <1>3, <1>4, <1>5, <1>6, <1>7, <1>8, <1>9, <1>10, <1>11 DEF Next, Serve

\* Types, of the session manager.
THEOREM SessionTypes == Spec => []TypeOK
  BY TypeInit, TypeNext, PTL DEF Spec

-----------------------------------------------------------------------------
(***************************************************************************)
(* How long a conversation is kept.                                        *)
(***************************************************************************)

\* The request may expect to find its session.
Due(r) ==
  /\ held[r] # Absent /\ key[r] # NoKey /\ held[r].id \notin evicted
  /\ \A t \in Ttls : clock + MaxWait <= held[r].since + t

\* A lookup that waited sets lastUsed back by its wait and no more.
Found(r) ==
  /\ sessions[key[r]] # Absent
  /\ sessions[key[r]].id = held[r].id
  /\ held[r].since <= sessions[key[r]].lastUsed + MaxWait

Timely ==
  /\ \A r \in InLookup : at[r] <= clock /\ clock <= at[r] + MaxWait
  /\ at[Pruner] <= clock
  /\ \A r \in Requests : held[r] # Absent => held[r].since <= clock
  /\ \A r \in Requests : pc[r] = "idle" => held[r] = Absent

Retained ==
  /\ TypeOK
  /\ Timely
  /\ \A r \in Requests : Due(r) => Found(r)

LEMMA RetainedInit == Init => Retained
<1> SUFFICES ASSUME Init PROVE Retained
  OBVIOUS
<1>1. \A r \in Requests : held[r] = Absent /\ pc[r] = "idle"
  BY DEF Init, Goroutines
<1>2. at[Pruner] <= clock
  BY DEF Init, Goroutines
<1> QED
  BY <1>1, <1>2, TypeInit DEF Retained, Timely, InLookup, Due

\* A step of the clock, the config, or of requests that leaves the table alone.
LEMMA RetainedQuiet ==
  ASSUME Retained, TypeOK', Timely', UNCHANGED sessions, clock <= clock', evicted' = evicted,
         \A r \in Requests :
           held'[r] = Absent \/ (held'[r] = held[r] /\ key'[r] = key[r])
  PROVE  Retained'
<1> SUFFICES ASSUME NEW r \in Requests, Due(r)' PROVE Found(r)'
  BY DEF Retained
<1>1. held'[r] = held[r] /\ key'[r] = key[r] /\ held[r] # Absent
  BY DEF Due
<1>2. clock \in Nat /\ clock' \in Nat /\ held[r].since \in Nat /\ MaxWait \in Nat
      /\ \A t \in Ttls : t \in Nat
  BY <1>1, SessionAssumption DEF Retained, TypeOK, Handle
<1>3. \A t \in Ttls : clock + MaxWait <= held[r].since + t
  BY <1>1, <1>2 DEF Due
<1>4. Due(r)
  BY <1>1, <1>3 DEF Due
<1> QED
  BY <1>1, <1>4 DEF Retained, Found

\* Pruning at a time that is not in the future takes nothing that is due.
LEMMA PruningKeeps ==
  ASSUME Retained, TypeOK', Timely', NEW now \in Nat, now <= clock,
         sessions' = Pruned(now), UNCHANGED <<clock, key, held, evicted>>
  PROVE  Retained'
<1> SUFFICES ASSUME NEW r \in Requests, Due(r)' PROVE Found(r)'
  BY DEF Retained
<1>1. Due(r) /\ Found(r)
  BY DEF Due, Retained
<1>2. key[r] \in AllKeys /\ sessions[key[r]] \in Entry /\ held[r] \in Handle
  BY <1>1 DEF Retained, TypeOK, Due, Found
<1>3. clock + MaxWait <= held[r].since + ttl /\ ttl \in Nat /\ MaxWait \in Nat /\ clock \in Nat
  BY <1>1, SessionAssumption DEF Retained, TypeOK, Due
<1>4. ~Expired(sessions[key[r]], now)
  BY <1>1, <1>2, <1>3 DEF Found, Expired, Entry, Handle
<1>5. sessions'[key[r]] = sessions[key[r]]
  BY <1>2, <1>4 DEF Pruned
<1> QED
  BY <1>1, <1>5 DEF Found

LEMMA TimelyNext == Retained /\ [Next]_vars => Timely'
<1> SUFFICES ASSUME TypeOK, TypeOK', Timely, [Next]_vars PROVE Timely'
  BY TypeNext DEF Retained
<1>0. /\ clock \in Nat /\ clock' \in Nat /\ MaxWait \in Nat
      /\ pc \in [Goroutines -> {"idle", "waiting", "locked", "serving"}]
      /\ at \in [Goroutines -> Nat] /\ held \in [Requests -> Handle \cup {Absent}]
      /\ Requests \subseteq Goroutines /\ Pruner \in Goroutines /\ Pruner \notin Requests
  BY SessionAssumption DEF TypeOK, Goroutines
<1>1. ASSUME NEW r \in Requests, NEW k \in AllKeys, LookUp(r, k) PROVE Timely'
  BY <1>0, <1>1 DEF LookUp, Timely, InLookup
<1>2. ASSUME NEW r \in Requests, Arrive(r) \/ LookUpAgain(r) PROVE Timely'
  BY <1>1, <1>2 DEF Arrive, LookUpAgain, TypeOK
<1>3. ASSUME NEW r \in Requests, NEW i, held' = [held EXCEPT ![r] = [id |-> i, since |-> at[r]]],
             r \in InLookup, Returned(r), UNCHANGED clock
      PROVE  Timely'
  <2>1. held'[r].since <= clock
    BY <1>0, <1>3 DEF Timely
  <2> QED
    BY <1>0, <1>3, <2>1 DEF Returned, Timely, InLookup
<1>4. ASSUME NEW r \in Requests, NewEphemeral(r) \/ Hit(r) \/ Create(r) PROVE Timely'
  BY <1>3, <1>4 DEF NewEphemeral, Hit, Create, InLookup
<1>5. ASSUME NEW r \in Requests, Lock(r) \/ Finish(r) PROVE Timely'
  BY <1>0, <1>5 DEF Lock, Finish, Timely, InLookup
<1>6. CASE Wake \/ Prune
  BY <1>0, <1>6 DEF Wake, Prune, Timely, InLookup
<1>7. CASE Stop \/ Reconfigure \/ UNCHANGED vars
  BY <1>7 DEF Stop, Reconfigure, vars, lookup, Timely, InLookup
<1>8. CASE Tick
  <2>1. \A r \in InLookup : at[r] <= clock /\ clock < at[r] + MaxWait /\ at[r] \in Nat
    BY <1>0, <1>8 DEF Tick, Timely, InLookup
  <2>2. \A r \in Requests : held[r] # Absent => held[r].since <= clock /\ held[r].since \in Nat
    BY <1>0 DEF Timely, Handle
  <2> QED
    BY <1>0, <1>8, <2>1, <2>2 DEF Tick, Timely, InLookup, lookup
<1> QED
  BY <1>2, <1>4, <1>5, <1>6, <1>7, <1>8 DEF Next, Serve

LEMMA RetainedNext == Retained /\ [Next]_vars => Retained'
<1> SUFFICES ASSUME Retained, [Next]_vars PROVE Retained'
  OBVIOUS
<1>0. /\ TypeOK /\ TypeOK' /\ Timely /\ Timely'
      /\ clock \in Nat /\ MaxWait \in Nat
      /\ at \in [Goroutines -> Nat] /\ held \in [Requests -> Handle \cup {Absent}]
      /\ key \in [Requests -> AllKeys]
      /\ sessions \in [AllKeys -> Entry \cup {Absent}]
      /\ Requests \subseteq Goroutines /\ Pruner \in Goroutines
  BY TypeNext, TimelyNext, SessionAssumption DEF Retained, TypeOK, Goroutines
<1>1. ASSUME NEW r \in Requests, Arrive(r) PROVE Retained'
  <2>1. held[r] = Absent
    BY <1>0, <1>1 DEF Arrive, Timely
  <2> QED
    BY <1>0, <1>1, <2>1, RetainedQuiet DEF Arrive, LookUp, table
<1>2. ASSUME NEW r \in Requests, LookUpAgain(r) PROVE Retained'
  BY <1>0, <1>2, RetainedQuiet DEF LookUpAgain, LookUp, table
<1>3. ASSUME NEW r \in Requests, NewEphemeral(r) PROVE Retained'
  <2>1. key[r] = NoKey /\ UNCHANGED <<sessions, clock, key, evicted>>
    BY <1>3 DEF NewEphemeral, Ephemeral
  <2>2. \A s \in Requests : Due(s)' => s # r
    BY <2>1 DEF Due
  <2>3. \A s \in Requests \ {r} : held'[s] = held[s]
    BY <1>0, <1>3 DEF NewEphemeral
  <2> QED
    BY <1>0, <2>1, <2>2, <2>3 DEF Retained, Due, Found
<1>4. ASSUME NEW r \in Requests, Lock(r) PROVE Retained'
  <2>1. r \in InLookup /\ at[r] \in Nat
    BY <1>0, <1>4 DEF Lock, InLookup
  <2>2. at[r] <= clock
    BY <1>0, <2>1 DEF Timely
  <2> QED
    BY <1>0, <1>4, <2>1, <2>2, PruningKeeps DEF Lock
<1>5. ASSUME NEW r \in Requests, Hit(r) PROVE Retained'
  <2>1. /\ key[r] \in AllKeys /\ sessions[key[r]] \in Entry /\ at[r] \in Nat
        /\ at[r] <= clock /\ clock <= at[r] + MaxWait
    BY <1>0, <1>5 DEF Hit, Timely, InLookup
  <2>2. /\ sessions'[key[r]] = [sessions[key[r]] EXCEPT !.lastUsed = at[r]]
        /\ \A k \in AllKeys \ {key[r]} : sessions'[k] = sessions[k]
    BY <1>0, <1>5, <2>1 DEF Hit
  <2>3. /\ sessions'[key[r]] \in Entry /\ sessions'[key[r]] # Absent
        /\ sessions'[key[r]].id = sessions[key[r]].id /\ sessions'[key[r]].lastUsed = at[r]
    BY <2>1, <2>2, SessionAssumption DEF Entry
  <2>4. /\ held'[r] = [id |-> sessions[key[r]].id, since |-> at[r]]
        /\ \A s \in Requests \ {r} : held'[s] = held[s]
        /\ UNCHANGED <<clock, key, evicted>>
    BY <1>0, <1>5 DEF Hit
  <2>5. Found(r)'
    BY <1>0, <2>1, <2>3, <2>4 DEF Found
  <2>6. ASSUME NEW s \in Requests \ {r}, Due(s)' PROVE Found(s)'
    <3>1. Found(s) /\ held[s] # Absent
      BY <2>4, <2>6 DEF Due, Retained
    <3>2. held[s].since <= clock /\ held[s].since \in Nat
      BY <1>0, <3>1 DEF Timely, Handle
    <3>3. CASE key[s] = key[r]
      BY <1>0, <2>1, <2>3, <2>4, <3>1, <3>2, <3>3 DEF Found
    <3>4. CASE key[s] # key[r]
      BY <1>0, <2>2, <2>4, <3>1, <3>4 DEF Found
    <3> QED
      BY <3>3, <3>4
  <2> QED
    BY <1>0, <2>5, <2>6 DEF Retained
<1>6. ASSUME NEW r \in Requests, Create(r) PROVE Retained'
  <2>1. PICK kept \in Kept :
          /\ sessions' = [k \in AllKeys |->
               IF k = key[r] THEN [id |-> nextId, lastUsed |-> at[r]]
               ELSE IF k \in kept THEN sessions[k] ELSE Absent]
          /\ evicted' = evicted \cup { sessions[k].id : k \in Tracked \ kept }
    BY <1>6 DEF Create
  <2>2. /\ held'[r] = [id |-> nextId, since |-> at[r]]
        /\ \A s \in Requests \ {r} : held'[s] = held[s]
        /\ UNCHANGED <<clock, key>>
        /\ sessions[key[r]] = Absent
        /\ key[r] \in AllKeys /\ at[r] \in Nat
    BY <1>0, <1>6 DEF Create
  <2>3. Found(r)'
    <3>1. sessions'[key[r]] = [id |-> nextId, lastUsed |-> at[r]]
      BY <2>1, <2>2
    <3>2. nextId \in Nat
      BY <1>0 DEF TypeOK
    <3> QED
      BY <1>0, <2>2, <3>1, <3>2, SessionAssumption DEF Found
  <2>4. ASSUME NEW s \in Requests \ {r}, Due(s)' PROVE Found(s)'
    <3>1. Due(s) /\ Found(s)
      BY <2>1, <2>2, <2>4 DEF Due, Retained
    <3>2. key[s] # key[r] /\ key[s] \in Tracked
      BY <1>0, <2>2, <3>1 DEF Found, Tracked
    <3>3. key[s] \in kept
      BY <2>1, <2>2, <2>4, <3>1, <3>2 DEF Due, Found
    <3>4. sessions'[key[s]] = sessions[key[s]]
      BY <1>0, <2>1, <3>2, <3>3
    <3> QED
      BY <2>2, <3>1, <3>4 DEF Found
  <2> QED
    BY <1>0, <2>3, <2>4 DEF Retained
<1>7. ASSUME NEW r \in Requests, Finish(r) PROVE Retained'
  BY <1>0, <1>7, RetainedQuiet DEF Finish, table
<1>8. CASE Wake \/ Stop \/ Tick \/ Reconfigure \/ UNCHANGED vars
  <2>1. /\ UNCHANGED <<sessions, key, held, evicted>> /\ clock <= clock'
    BY <1>0, <1>8 DEF Wake, Stop, Tick, Reconfigure, vars, table, lookup
  <2> QED
    BY <1>0, <2>1, RetainedQuiet
<1>9. CASE Prune
  <2>1. at[Pruner] \in Nat /\ at[Pruner] <= clock
    BY <1>0 DEF Timely
  <2> QED
    BY <1>0, <1>9, <2>1, PruningKeeps DEF Prune
<1> QED
  BY <1>1, <1>2, <1>3, <1>4, <1>5, <1>6, <1>7, <1>8, <1>9 DEF Next, Serve

\* A conversation finds its session again for the shortest TTL, less the longest wait
\* for the mutex, after any of its requests asked for it.
THEOREM ConversationIsKept == Spec => []ConversationKept
<1>1. Retained => ConversationKept
  BY DEF Retained, ConversationKept, Due, Found
<1> QED
  BY <1>1, RetainedInit, RetainedNext, PTL DEF Spec

-----------------------------------------------------------------------------
(***************************************************************************)
(* Isolation.                                                              *)
(***************************************************************************)

\* Every session has one key: that of the entry and of the requests that hold it.
Owned ==
  /\ TypeOK
  /\ sessions[NoKey] = Absent
  /\ \A r \in Requests : pc[r] = "locked" => key[r] # NoKey
  /\ \A r \in Requests : pc[r] = "idle" => held[r] = Absent
  /\ \A k \in Tracked : sessions[k].id < nextId
  /\ \A k, l \in Tracked : sessions[k].id = sessions[l].id => k = l
  /\ \A r \in Requests : held[r] # Absent => held[r].id < nextId
  /\ \A r \in Requests, k \in Tracked :
       held[r] # Absent /\ held[r].id = sessions[k].id => key[r] = k
  /\ Isolated

LEMMA OwnedInit == Init => Owned
<1> SUFFICES ASSUME Init PROVE Owned
  OBVIOUS
<1>1. Tracked = {} /\ sessions[NoKey] = Absent
  BY DEF Init, Tracked, AllKeys
<1>2. \A r \in Requests : held[r] = Absent /\ pc[r] = "idle"
  BY DEF Init, Goroutines
<1> QED
  BY <1>1, <1>2, TypeInit DEF Owned, Isolated

\* The table only loses sessions, and no request takes another one.
LEMMA OwnedQuiet ==
  ASSUME Owned, TypeOK', UNCHANGED nextId,
         \A k \in AllKeys : sessions'[k] \in {sessions[k], Absent},
         \A r \in Requests : held'[r] = Absent \/ (held'[r] = held[r] /\ key'[r] = key[r]),
         \A r \in Requests : pc'[r] = "locked" => key'[r] # NoKey,
         \A r \in Requests : pc'[r] = "idle" => held'[r] = Absent
  PROVE  Owned'
<1>1. \A k \in Tracked' : k \in Tracked /\ sessions'[k] = sessions[k]
  BY DEF Tracked
<1>2. sessions'[NoKey] = Absent
  BY DEF Owned, AllKeys
<1>3. Isolated'
  BY DEF Owned, Isolated
<1> QED
  BY <1>1, <1>2, <1>3 DEF Owned

LEMMA OwnedNext == Owned /\ [Next]_vars => Owned'
<1> SUFFICES ASSUME Owned, [Next]_vars PROVE Owned'
  OBVIOUS
<1>0. /\ TypeOK' /\ nextId \in Nat
      /\ pc \in [Goroutines -> {"idle", "waiting", "locked", "serving"}]
      /\ held \in [Requests -> Handle \cup {Absent}]
      /\ key \in [Requests -> AllKeys]
      /\ sessions \in [AllKeys -> Entry \cup {Absent}]
      /\ Requests \subseteq Goroutines /\ Pruner \in Goroutines /\ Pruner \notin Requests
      /\ NoKey \in AllKeys
  BY TypeNext, SessionAssumption DEF Owned, TypeOK, Goroutines, AllKeys
<1>1. ASSUME NEW now, sessions' = Pruned(now)
      PROVE  \A k \in AllKeys : sessions'[k] \in {sessions[k], Absent}
  BY <1>1 DEF Pruned
<1>2. ASSUME NEW r \in Requests, Arrive(r) \/ LookUpAgain(r) PROVE Owned'
  <2>1. PICK k \in AllKeys : LookUp(r, k) /\ (held[r] = Absent \/ k = key[r])
    BY <1>0, <1>2 DEF Arrive, LookUpAgain, Owned
  <2>2. \A s \in Requests : held'[s] = Absent \/ (held'[s] = held[s] /\ key'[s] = key[s])
    BY <1>0, <2>1 DEF LookUp
  <2>3. \A s \in Requests : pc'[s] \in {"waiting", pc[s]} /\ (s # r => key'[s] = key[s])
    BY <1>0, <2>1 DEF LookUp
  <2>4. pc'[r] = "waiting"
    BY <1>0, <2>1 DEF LookUp
  <2>5. UNCHANGED <<sessions, nextId, held>>
    BY <2>1 DEF LookUp, table
  <2> QED
    BY <1>0, <2>2, <2>3, <2>4, <2>5, OwnedQuiet DEF Owned
<1>3. ASSUME NEW r \in Requests, NewEphemeral(r) PROVE Owned'
  <2>1. /\ held'[r] = [id |-> nextId, since |-> at[r]] /\ held'[r].id = nextId
        /\ nextId' = nextId + 1 /\ pc'[r] = "serving"
        /\ \A s \in Requests \ {r} : held'[s] = held[s] /\ pc'[s] = pc[s]
        /\ UNCHANGED <<sessions, key>>
    BY <1>0, <1>3 DEF NewEphemeral, Returned
  <2>2. \A s \in Requests : held[s] # Absent => held[s].id < nextId /\ held[s].id \in Nat
    BY <1>0 DEF Owned, Handle
  <2>3. \A k \in Tracked : sessions[k].id < nextId /\ sessions[k].id \in Nat
    BY <1>0 DEF Owned, Tracked, Entry
  <2>4. Tracked' = Tracked
    BY <2>1 DEF Tracked
  <2>5. Isolated'
    BY <1>0, <2>1, <2>2 DEF Owned, Isolated
  <2>6. \A s \in Requests : held'[s] # Absent => held'[s].id < nextId'
    BY <1>0, <2>1, <2>2
  <2>7. \A s \in Requests, k \in Tracked :
          held'[s] # Absent /\ held'[s].id = sessions[k].id => key[s] = k
    BY <1>0, <2>1, <2>2, <2>3 DEF Owned
  <2>8. \A k \in Tracked : sessions[k].id < nextId'
    BY <1>0, <2>1, <2>3
  <2>9. \A s \in Requests : /\ pc'[s] = "locked" => key[s] # NoKey
                            /\ pc'[s] = "idle" => held'[s] = Absent
    BY <2>1 DEF Owned
  <2> QED
    BY <1>0, <2>1, <2>4, <2>5, <2>6, <2>7, <2>8, <2>9 DEF Owned
<1>4. ASSUME NEW r \in Requests, Lock(r) PROVE Owned'
  <2>1. \A s \in Requests : /\ pc'[s] = "locked" => key'[s] # NoKey
                            /\ pc'[s] = "idle" => held'[s] = Absent
    BY <1>0, <1>4 DEF Lock, Ephemeral, Owned
  <2> QED
    BY <1>0, <1>1, <1>4, <2>1, OwnedQuiet DEF Lock
<1>5. ASSUME NEW r \in Requests, Hit(r) PROVE Owned'
  <2>1. key[r] \in Tracked /\ key[r] \in AllKeys /\ key[r] # NoKey
    BY <1>0, <1>5 DEF Hit, Tracked, Owned
  <2>2. /\ held'[r] = [id |-> sessions[key[r]].id, since |-> at[r]]
        /\ held'[r].id = sessions[key[r]].id
        /\ pc'[r] = "serving"
        /\ \A s \in Requests \ {r} : held'[s] = held[s] /\ pc'[s] = pc[s]
        /\ UNCHANGED <<nextId, key>>
    BY <1>0, <1>5 DEF Hit, Returned
  <2>3. \A k \in AllKeys \ {key[r]} : sessions'[k] = sessions[k]
    BY <1>0, <1>5 DEF Hit
  <2>4. sessions'[key[r]] = [sessions[key[r]] EXCEPT !.lastUsed = at[r]]
    BY <1>0, <1>5, <2>1 DEF Hit
  <2>5. Tracked' \subseteq Tracked
    BY <2>1, <2>3 DEF Tracked
  <2>6. \A k \in Tracked : sessions'[k].id = sessions[k].id
    BY <1>0, <2>1, <2>3, <2>4 DEF Tracked, Entry
  <2>7. sessions'[NoKey] = Absent
    BY <1>0, <2>1, <2>3 DEF Owned
  <2>8. \A s \in Requests : held'[s] # Absent => held'[s].id < nextId
    BY <2>1, <2>2 DEF Owned
  <2>9. \A s \in Requests, k \in Tracked :
          held'[s] # Absent /\ held'[s].id = sessions[k].id => key[s] = k
    BY <2>1, <2>2 DEF Owned
  <2>10. Isolated'
    BY <1>0, <2>1, <2>2 DEF Owned, Isolated
  <2>11. \A s \in Requests : /\ pc'[s] = "locked" => key[s] # NoKey
                             /\ pc'[s] = "idle" => held'[s] = Absent
    BY <2>2 DEF Owned
  <2> QED
    BY <1>0, <2>2, <2>5, <2>6, <2>7, <2>8, <2>9, <2>10, <2>11 DEF Owned
<1>6. ASSUME NEW r \in Requests, Create(r) PROVE Owned'
  <2>1. PICK kept \in Kept :
          sessions' = [k \in AllKeys |->
               IF k = key[r] THEN [id |-> nextId, lastUsed |-> at[r]]
               ELSE IF k \in kept THEN sessions[k] ELSE Absent]
    BY <1>6 DEF Create
  <2>2. /\ held'[r] = [id |-> nextId, since |-> at[r]] /\ held'[r].id = nextId
        /\ nextId' = nextId + 1 /\ pc'[r] = "serving"
        /\ \A s \in Requests \ {r} : held'[s] = held[s] /\ pc'[s] = pc[s]
        /\ UNCHANGED key
        /\ key[r] # NoKey /\ key[r] \in AllKeys
    BY <1>0, <1>6 DEF Create, Returned, Owned
  <2>3. \A s \in Requests : held[s] # Absent => held[s].id < nextId /\ held[s].id \in Nat
    BY <1>0 DEF Owned, Handle
  <2>4. \A k \in Tracked : sessions[k].id < nextId /\ sessions[k].id \in Nat
    BY <1>0 DEF Owned, Tracked, Entry
  <2>5. sessions'[key[r]].id = nextId
    BY <2>1, <2>2
  <2>6. \A k \in Tracked' \ {key[r]} : k \in Tracked /\ sessions'[k] = sessions[k]
    BY <2>1 DEF Tracked
  <2>7. sessions'[NoKey] = Absent
    BY <1>0, <2>1, <2>2 DEF Owned
  <2>8. \A k \in Tracked' : sessions'[k].id < nextId'
    BY <1>0, <2>2, <2>4, <2>5, <2>6
  <2>9. \A k, l \in Tracked' : sessions'[k].id = sessions'[l].id => k = l
    BY <1>0, <2>4, <2>5, <2>6 DEF Owned
  <2>10. \A s \in Requests : held'[s] # Absent => held'[s].id < nextId'
    BY <1>0, <2>2, <2>3
  <2>11. \A s \in Requests, k \in Tracked' :
           held'[s] # Absent /\ held'[s].id = sessions'[k].id => key[s] = k
    BY <1>0, <2>2, <2>3, <2>4, <2>5, <2>6 DEF Owned
  <2>12. Isolated'
    BY <1>0, <2>2, <2>3 DEF Owned, Isolated
  <2>13. \A s \in Requests : /\ pc'[s] = "locked" => key[s] # NoKey
                             /\ pc'[s] = "idle" => held'[s] = Absent
    BY <2>2 DEF Owned
  <2> QED
    BY <1>0, <2>2, <2>7, <2>8, <2>9, <2>10, <2>11, <2>12, <2>13 DEF Owned
<1>7. ASSUME NEW r \in Requests, Finish(r) PROVE Owned'
  <2>1. \A s \in Requests \ {r} : /\ held'[s] = held[s] /\ key'[s] = key[s]
                                  /\ pc'[s] = pc[s]
    BY <1>0, <1>7 DEF Finish
  <2>2. held'[r] = Absent /\ pc'[r] = "idle"
    BY <1>0, <1>7 DEF Finish
  <2> QED
    BY <1>0, <1>7, <2>1, <2>2, OwnedQuiet DEF Finish, table, Owned
<1>8. CASE Wake \/ Prune
  <2>1. \A s \in Requests : pc'[s] = pc[s]
    BY <1>0, <1>8 DEF Wake, Prune
  <2>2. UNCHANGED <<nextId, key, held>>
    BY <1>8 DEF Wake, Prune, table
  <2>3. \A k \in AllKeys : sessions'[k] \in {sessions[k], Absent}
    BY <1>1, <1>8 DEF Wake, Prune, table
  <2> QED
    BY <1>0, <2>1, <2>2, <2>3, OwnedQuiet DEF Owned
<1>9. CASE Stop \/ Tick \/ Reconfigure \/ UNCHANGED vars
  <2>1. UNCHANGED <<table, pc, key, held>>
    BY <1>9 DEF Stop, Tick, Reconfigure, vars, lookup
  <2> QED
    BY <1>0, <2>1, OwnedQuiet DEF Owned, table
<1> QED
  BY <1>2, <1>3, <1>4, <1>5, <1>6, <1>7, <1>8, <1>9 DEF Next, Serve

\* Requests share a session only if they sent the same key.
THEOREM ConversationsAreIsolated == Spec => []Isolated
<1>1. Owned => Isolated
  BY DEF Owned
<1> QED
  BY <1>1, OwnedInit, OwnedNext, PTL DEF Spec

-----------------------------------------------------------------------------
(***************************************************************************)
(* The limit.                                                              *)
(***************************************************************************)

LEMMA TrackedFinite == IsFiniteSet(Tracked)
<1>1. IsFiniteSet(AllKeys)
  BY SessionAssumption, FS_AddElement DEF AllKeys
<1> QED
  BY <1>1, FS_Subset DEF Tracked

LEMMA CreateKeepsLimit ==
  ASSUME TypeOK, NEW r \in Requests, Create(r), limit # 0
  PROVE  Cardinality(Tracked') <= limit
<1>1. PICK kept \in Kept :
        sessions' = [k \in AllKeys |->
             IF k = key[r] THEN [id |-> nextId, lastUsed |-> at[r]]
             ELSE IF k \in kept THEN sessions[k] ELSE Absent]
  BY DEF Create
<1>2. Tracked' \subseteq kept \cup {key[r]}
  BY <1>1 DEF Tracked
<1>3. kept \subseteq Tracked /\ Cardinality(kept) < limit
  BY DEF Kept, HasRoom
<1>4. IsFiniteSet(kept) /\ Cardinality(kept) \in Nat /\ limit \in Nat
  BY <1>3, TrackedFinite, FS_Subset, FS_CardinalityType, SessionAssumption DEF TypeOK
<1>5. /\ IsFiniteSet(kept \cup {key[r]})
      /\ Cardinality(kept \cup {key[r]}) <= Cardinality(kept) + 1
  BY <1>4, FS_AddElement
<1>6. Cardinality(Tracked') <= Cardinality(kept \cup {key[r]})
      /\ Cardinality(Tracked') \in Nat /\ Cardinality(kept \cup {key[r]}) \in Nat
  BY <1>2, <1>5, FS_Subset, FS_CardinalityType
<1> QED
  BY <1>3, <1>4, <1>5, <1>6

\* Every step but Create leaves or removes sessions.
LEMMA OnlyCreateAdds ==
  ASSUME TypeOK, [Next]_vars, \A r \in Requests : ~Create(r)
  PROVE  Tracked' \subseteq Tracked
<1>1. ASSUME NEW now, sessions' = Pruned(now) PROVE Tracked' \subseteq Tracked
  BY <1>1 DEF Pruned, Tracked
<1>2. ASSUME NEW r \in Requests, Lock(r) PROVE Tracked' \subseteq Tracked
  BY <1>1, <1>2 DEF Lock
<1>3. CASE Prune
  BY <1>1, <1>3 DEF Prune
<1>4. ASSUME NEW r \in Requests, Hit(r) PROVE Tracked' \subseteq Tracked
  BY <1>4 DEF Hit, Tracked, TypeOK
<1>5. ASSUME NEW r \in Requests,
             Arrive(r) \/ LookUpAgain(r) \/ NewEphemeral(r) \/ Finish(r)
      PROVE  Tracked' \subseteq Tracked
  BY <1>5 DEF Arrive, LookUpAgain, LookUp, NewEphemeral, Finish, table, Tracked
<1>6. CASE Wake \/ Stop \/ Tick \/ Reconfigure \/ UNCHANGED vars
  BY <1>6 DEF Wake, Stop, Tick, Reconfigure, vars, table, Tracked
<1> QED
  BY <1>2, <1>3, <1>4, <1>5, <1>6 DEF Next, Serve

\* No lookup leaves more sessions than max_sessions allows.
THEOREM LimitIsKept == Spec => LimitKept
<1>1. ASSUME TypeOK, [Next]_vars
      PROVE  [Tracked' \subseteq Tracked \/ limit = 0 \/ Cardinality(Tracked') <= limit]_vars
  BY <1>1, CreateKeepsLimit, OnlyCreateAdds
<1> QED
  BY <1>1, SessionTypes, PTL DEF Spec, LimitKept

-----------------------------------------------------------------------------
(***************************************************************************)
(* Who is given up.                                                        *)
(***************************************************************************)

GivenUpRightly ==
  \A k \in Tracked \ Tracked' :
    \/ Expired(sessions[k], clock)
    \/ /\ limit # 0 /\ Cardinality(Tracked) >= limit
       /\ \A l \in Tracked \cap Tracked' :
            sessions[k].lastUsed <= sessions[l].lastUsed

LEMMA PruningIsRight ==
  ASSUME TypeOK, NEW now \in Nat, now <= clock, sessions' = Pruned(now)
  PROVE  GivenUpRightly
<1>1. SUFFICES ASSUME NEW k \in Tracked \ Tracked' PROVE Expired(sessions[k], clock)
  BY DEF GivenUpRightly
<1>2. k \in AllKeys /\ sessions[k] \in Entry /\ Expired(sessions[k], now)
  BY <1>1 DEF Tracked, Pruned, TypeOK
<1>3. ttl \in Nat /\ clock \in Nat
  BY SessionAssumption DEF TypeOK
<1> QED
  BY <1>2, <1>3 DEF Expired, Entry

LEMMA EvictingIsRight ==
  ASSUME TypeOK, NEW r \in Requests, Create(r)
  PROVE  GivenUpRightly
<1>1. PICK kept \in Kept :
        sessions' = [k \in AllKeys |->
             IF k = key[r] THEN [id |-> nextId, lastUsed |-> at[r]]
             ELSE IF k \in kept THEN sessions[k] ELSE Absent]
  BY DEF Create
<1>2. key[r] \notin Tracked
  BY DEF Create, Tracked
<1>3. SUFFICES ASSUME NEW k \in Tracked \ Tracked'
               PROVE  /\ limit # 0 /\ Cardinality(Tracked) >= limit
                      /\ \A l \in Tracked \cap Tracked' :
                           sessions[k].lastUsed <= sessions[l].lastUsed
  BY DEF GivenUpRightly
<1>4. k \notin kept
  BY <1>1, <1>2, <1>3 DEF Tracked
<1>5. \A l \in Tracked \cap Tracked' : l \in kept
  BY <1>1, <1>2 DEF Tracked
<1>6. \A l \in Tracked \cap Tracked' : sessions[k].lastUsed <= sessions[l].lastUsed
  BY <1>3, <1>4, <1>5 DEF Kept, FresherThanAll
<1>7. kept \subseteq Tracked /\ kept # Tracked /\ ~HasRoom(Cardinality(kept) + 1)
  BY <1>3, <1>4 DEF Kept
<1>8. /\ IsFiniteSet(kept) /\ Cardinality(kept) \in Nat /\ Cardinality(Tracked) \in Nat
      /\ Cardinality(kept) <= Cardinality(Tracked)
      /\ Cardinality(kept) # Cardinality(Tracked)
  BY <1>7, TrackedFinite, FS_Subset, FS_CardinalityType
<1>9. limit # 0 /\ Cardinality(Tracked) >= limit
  <2>1. limit # 0 /\ limit \in Nat /\ ~(Cardinality(kept) + 1 < limit)
    BY <1>7, SessionAssumption DEF HasRoom, TypeOK
  <2> QED
    BY <1>8, <2>1
<1> QED
  BY <1>6, <1>9

\* A session that has not expired is given up only for want of room, and the least
\* recently used first.
THEOREM OldestAreGivenUpFirst == Spec => OldestGoFirst
<1>1. ASSUME Retained, [Next]_vars PROVE [GivenUpRightly]_vars
  <2>0. TypeOK /\ Timely /\ at \in [Goroutines -> Nat]
        /\ Requests \subseteq Goroutines /\ Pruner \in Goroutines
    BY <1>1 DEF Retained, TypeOK, Goroutines
  <2>1. ASSUME NEW r \in Requests, Create(r) PROVE GivenUpRightly
    BY <2>0, <2>1, EvictingIsRight
  <2>2. ASSUME NEW r \in Requests, Lock(r) PROVE GivenUpRightly
    <3>1. at[r] \in Nat /\ at[r] <= clock
      BY <2>0, <2>2 DEF Lock, Timely, InLookup
    <3> QED
      BY <2>0, <2>2, <3>1, PruningIsRight DEF Lock
  <2>3. CASE Prune
    <3>1. at[Pruner] \in Nat /\ at[Pruner] <= clock
      BY <2>0 DEF Timely
    <3> QED
      BY <2>0, <2>3, <3>1, PruningIsRight DEF Prune
  <2>4. ASSUME NEW r \in Requests, Hit(r) PROVE Tracked \subseteq Tracked'
    <3>1. key[r] \in AllKeys /\ sessions[key[r]] \in Entry /\ at[r] \in Nat
      BY <2>0, <2>4 DEF Hit, TypeOK
    <3>2. sessions'[key[r]] \in Entry
      BY <2>0, <2>4, <3>1 DEF Hit, Entry, TypeOK
    <3>3. sessions'[key[r]] # Absent
      BY <3>2, SessionAssumption DEF Entry
    <3>4. \A k \in AllKeys \ {key[r]} : sessions'[k] = sessions[k]
      BY <2>0, <2>4 DEF Hit, TypeOK
    <3> QED
      BY <3>3, <3>4 DEF Tracked
  <2>5. ASSUME NEW r \in Requests,
               Arrive(r) \/ LookUpAgain(r) \/ NewEphemeral(r) \/ Finish(r)
        PROVE  UNCHANGED Tracked
    BY <2>5 DEF Arrive, LookUpAgain, LookUp, NewEphemeral, Finish, table, Tracked
  <2>6. CASE Wake \/ Stop \/ Tick \/ Reconfigure \/ UNCHANGED vars
    <3>1. UNCHANGED Tracked
      BY <2>6 DEF Wake, Stop, Tick, Reconfigure, vars, table, Tracked
    <3> QED
      BY <3>1 DEF GivenUpRightly
  <2>7. Tracked \subseteq Tracked' => GivenUpRightly
    BY DEF GivenUpRightly
  <2> QED
    BY <1>1, <2>1, <2>2, <2>3, <2>4, <2>5, <2>6, <2>7 DEF Next, Serve
<1> QED
  BY <1>1, RetainedInit, RetainedNext, PTL DEF Spec, OldestGoFirst, GivenUpRightly

-----------------------------------------------------------------------------
(***************************************************************************)
(* The life of the process.                                                *)
(***************************************************************************)
USE LifecycleAssumption

(***************************************************************************)
(* Why the property holds: what each stage may rely on. The stages before  *)
(* Listen see no request, the listener is open only while the server is    *)
(* served or drained, and no handler outlives these stages unless the      *)
(* listener failed.                                                        *)
(***************************************************************************)
BeforeServing == {"plugins", "select", "open", "consumers"}
WhileServing == {"serve", "drain"}

NobodyYet ==
    stage \in BeforeServing =>
        listener = "none" /\ Handlers = {} /\ \A r \in HttpRequests : rows[r] = "none"
ListensWhileServing == listener = "listening" => stage \in WhileServing
HandledWhileServing == Handlers # {} => stage \in WhileServing \/ listener = "failed"
AllRun == stage \in {"select", "open", "consumers"} \cup WhileServing => running = Len(Plugins)
DatabaseSelected == stage = "open" => active \in Databases
NotBoundYet == stage \in {"plugins", "select", "open"} => bound = {}
OpenWhenBound == stage \in WhileServing /\ bound # {} => handle[active] = "open"
OpenForConsumers == stage = "consumers" => handle[active] = "open"
LostAtTheEnd ==
    \A r \in HttpRequests : rows[r] = "lost" => (listener = "failed" /\ stage \notin WhileServing)

LifeInv ==
    /\ NobodyYet
    /\ ListensWhileServing
    /\ HandledWhileServing
    /\ AllRun
    /\ DatabaseSelected
    /\ NotBoundYet
    /\ OpenWhenBound
    /\ OpenForConsumers
    /\ LostAtTheEnd

-----------------------------------------------------------------------------
(***************************************************************************)
(* Types.                                                                  *)
(***************************************************************************)

LifeKept == ProcessTypeOK /\ left \in Seq(Range(Consumers))

LEMMA ConsumersTyped == Consumers \in Seq(Range(Consumers)) /\ Range(Consumers) \subseteq STRING
  BY DEF Range

LEMMA LifeKeptInit == ProcessInit => LifeKept
<1> SUFFICES ASSUME ProcessInit PROVE LifeKept
  OBVIOUS
<1>1. given \in SUBSET Databases /\ named \in Databases \cup {None}
  BY DEF ProcessInit
<1>2. /\ handle \in [Databases -> {"none", "open", "closed"}]
      /\ request \in [HttpRequests -> {"none", "handled", "done", "killed"}]
      /\ rows \in [HttpRequests -> {"none", "dropped", "written", "refused", "lost"}]
  BY DEF ProcessInit
<1>3. left \in Seq(STRING) /\ left \in Seq(Range(Consumers)) /\ bound = {}
  BY ConsumersTyped DEF ProcessInit
<1>4. stage \in Stages /\ active \in Databases \cup {None}
  BY DEF ProcessInit, Stages
<1>5. Len(Plugins) \in Nat
  BY DEF LifecycleAssumption
<1>6. running \in 0..Len(Plugins)
  BY <1>5 DEF ProcessInit
<1>7. /\ signalled \in BOOLEAN /\ listener \in {"none", "listening", "failed", "closed"}
      /\ counted \subseteq HttpRequests /\ summary \subseteq counted
  BY DEF ProcessInit
<1> QED
  BY <1>1, <1>2, <1>3, <1>4, <1>6, <1>7 DEF LifeKept, ProcessTypeOK

\* The outcomes of SelectProvider: none to open, none selected, one to open.
LEMMA SelectsOrNot ==
  ASSUME SelectProvider
  PROVE  /\ stage = "select"
         /\ \/ stage' = "serve" /\ left' = <<>> /\ active' = active
            \/ stage' = "shutdown" /\ left' = left /\ active' = active
            \/ stage' = "open" /\ left' = left /\ active' \in given
         /\ UNCHANGED <<given, named, running, handle, bound, serving>>
<1> DEFINE selected == ResolvePersistenceActiveProvider \cap given
<1>1. CASE given = {}
  BY <1>1 DEF SelectProvider, start
<1>2. CASE given # {} /\ selected = {}
  BY <1>2 DEF SelectProvider, start
<1>3. CASE given # {} /\ selected # {}
  BY <1>3 DEF SelectProvider, start
<1> QED
  BY <1>1, <1>2, <1>3

LEMMA LifeKeptNext == LifeKept /\ [ProcessNext]_processVars => LifeKept'
<1> SUFFICES ASSUME LifeKept, [ProcessNext]_processVars PROVE LifeKept'
  OBVIOUS
<1> USE ConsumersTyped DEF LifeKept, ProcessTypeOK, Stages, start, persistence, serving
<1>1. CASE InitPlugin
  BY <1>1 DEF InitPlugin
<1>2. CASE InitFails
  BY <1>2 DEF InitFails
<1>3. CASE AllInitialised
  BY <1>3 DEF AllInitialised
<1>4. CASE SelectProvider
  <2>0. <<>> \in Seq(STRING) /\ <<>> \in Seq(Range(Consumers))
    OBVIOUS
  <2>1. left' \in Seq(STRING) /\ left' \in Seq(Range(Consumers))
    <3>1. left' = <<>> \/ left' = left
      BY <1>4, SelectsOrNot
    <3> QED
      BY <2>0, <3>1
  <2>2. stage' \in Stages /\ active' \in Databases \cup {None}
    BY <1>4, SelectsOrNot
  <2> QED
    BY <1>4, <2>1, <2>2, SelectsOrNot
<1>5. CASE Open
  BY <1>5 DEF Open
<1>6. CASE OpenFails
  BY <1>6 DEF OpenFails
<1>7. CASE InitConsumer
  BY <1>7 DEF InitConsumer
<1>8. CASE DisablePersistence
  BY <1>8 DEF DisablePersistence
<1>9. CASE ConsumersDone
  BY <1>9 DEF ConsumersDone
<1>10. CASE Listen
  BY <1>10 DEF Listen
<1>11. ASSUME NEW r \in HttpRequests, Accept(r) PROVE LifeKept'
  BY <1>11 DEF Accept
<1>12. ASSUME NEW r \in HttpRequests, Count(r) PROVE LifeKept'
  BY <1>12 DEF Count
<1>13. ASSUME NEW r \in HttpRequests, OnRequestCompleted(r) PROVE LifeKept'
  BY <1>13 DEF OnRequestCompleted, Recorded
<1>14. ASSUME NEW r \in HttpRequests, Return(r) PROVE LifeKept'
  BY <1>14 DEF Return
<1>15. CASE WriteSummary
  BY <1>15 DEF WriteSummary
<1>16. CASE CloseListener
  BY <1>16 DEF CloseListener
<1>17. CASE Shutdown
  BY <1>17 DEF Shutdown, Drained
<1>18. CASE ServeFails
  BY <1>18 DEF ServeFails
<1>19. CASE CloseDatabase
  BY <1>19 DEF CloseDatabase, Closed
<1>20. CASE ShutdownPlugin
  BY <1>20 DEF ShutdownPlugin, Closed
<1>21. CASE Exit
  BY <1>21 DEF Exit, Handlers
<1>22. CASE Signal
  BY <1>22 DEF Signal
<1>23. CASE ListenerFails
  BY <1>23 DEF ListenerFails
<1>24. CASE UNCHANGED processVars
  BY <1>24 DEF processVars
<1> QED
  BY <1>1, <1>2, <1>3, <1>4, <1>5, <1>6, <1>7, <1>8, <1>9, <1>10, <1>11, <1>12, <1>13, <1>14, <1>15, <1>16, <1>17, <1>18, <1>19, <1>20, <1>21, <1>22, <1>23, <1>24 DEF ProcessNext, Starting, Serving, Ending

-----------------------------------------------------------------------------
(***************************************************************************)
(* What a stage may rely on.                                               *)
(***************************************************************************)

LEMMA LifeInit == ProcessInit => LifeInv
  BY DEF ProcessInit, LifeInv, NobodyYet, ListensWhileServing, HandledWhileServing, AllRun,
         DatabaseSelected, NotBoundYet, OpenWhenBound, OpenForConsumers, LostAtTheEnd,
         Handlers, BeforeServing, WhileServing

LEMMA LifeNext == LifeKept /\ LifeInv /\ [ProcessNext]_processVars => LifeInv'
<1> SUFFICES ASSUME LifeKept, LifeInv, [ProcessNext]_processVars PROVE LifeInv'
  OBVIOUS
<1> USE DEF LifeInv, NobodyYet, ListensWhileServing, HandledWhileServing, AllRun,
            DatabaseSelected, NotBoundYet, OpenWhenBound, OpenForConsumers, LostAtTheEnd,
            Handlers, BeforeServing, WhileServing, LifeKept, ProcessTypeOK, start, persistence, serving
<1>1. CASE InitPlugin
  BY <1>1 DEF InitPlugin
<1>2. CASE InitFails
  BY <1>2 DEF InitFails
<1>3. CASE AllInitialised
  BY <1>3 DEF AllInitialised
<1>4. CASE SelectProvider
  BY <1>4, SelectsOrNot
<1>5. CASE Open
  BY <1>5 DEF Open
<1>6. CASE OpenFails
  BY <1>6 DEF OpenFails
<1>7. CASE InitConsumer
  BY <1>7 DEF InitConsumer
<1>8. CASE DisablePersistence
  BY <1>8 DEF DisablePersistence
<1>9. CASE ConsumersDone
  BY <1>9 DEF ConsumersDone
<1>10. CASE Listen
  BY <1>10 DEF Listen
<1>11. ASSUME NEW r \in HttpRequests, Accept(r) PROVE LifeInv'
  BY <1>11 DEF Accept
<1>12. ASSUME NEW r \in HttpRequests, Count(r) PROVE LifeInv'
  BY <1>12 DEF Count
<1>13. ASSUME NEW r \in HttpRequests, OnRequestCompleted(r) PROVE LifeInv'
  BY <1>13 DEF OnRequestCompleted, Recorded
<1>14. ASSUME NEW r \in HttpRequests, Return(r) PROVE LifeInv'
  BY <1>14 DEF Return
<1>15. CASE WriteSummary
  BY <1>15 DEF WriteSummary
<1>16. CASE CloseListener
  BY <1>16 DEF CloseListener
<1>17. CASE Shutdown
  BY <1>17 DEF Shutdown, Drained
<1>18. CASE ServeFails
  BY <1>18 DEF ServeFails
<1>19. CASE CloseDatabase
  BY <1>19 DEF CloseDatabase, Closed
<1>20. CASE ShutdownPlugin
  BY <1>20 DEF ShutdownPlugin, Closed
<1>21. CASE Exit
  BY <1>21 DEF Exit
<1>22. CASE Signal
  BY <1>22 DEF Signal
<1>23. CASE ListenerFails
  BY <1>23 DEF ListenerFails
<1>24. CASE UNCHANGED processVars
  BY <1>24 DEF processVars
<1> QED
  BY <1>1, <1>2, <1>3, <1>4, <1>5, <1>6, <1>7, <1>8, <1>9, <1>10, <1>11, <1>12, <1>13, <1>14, <1>15, <1>16, <1>17, <1>18, <1>19, <1>20, <1>21, <1>22, <1>23, <1>24 DEF ProcessNext, Starting, Serving, Ending

-----------------------------------------------------------------------------
(***************************************************************************)
(* The theorems.                                                           *)
(***************************************************************************)

\* The variables keep their types.
THEOREM LifeTypes == ProcessSpec => []ProcessTypeOK
<1>1. LifeKept => ProcessTypeOK
  BY DEF LifeKept
<1> QED
  BY LifeKeptInit, LifeKeptNext, <1>1, PTL DEF ProcessSpec

\* Whatever plugins, databases and consumers there are, and however many
\* requests are handled when the signal comes: while one is handled every
\* plugin runs, and the database of a consumer that has a store is open, unless
\* the listener failed.
THEOREM HandlersAreServed == ProcessSpec => []HandlersHaveWhatTheyUse
<1>1. LifeInv => HandlersHaveWhatTheyUse
  BY DEF LifeInv, HandlersHaveWhatTheyUse, HandledWhileServing, AllRun, OpenWhenBound,
         LostAtTheEnd, WhileServing
<1> QED
  BY LifeKeptInit, LifeKeptNext, LifeInit, LifeNext, <1>1, PTL DEF ProcessSpec
=============================================================================

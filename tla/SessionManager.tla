-------------------------- MODULE SessionManager --------------------------
(***************************************************************************)
(* The sessions of the server: InMemoryManager and the requests that look  *)
(* their session up in it (internal/service/server/session,                *)
(* internal/service/server/session.go).                                    *)
(*                                                                         *)
(* A request reads the clock, waits for the mutex, prunes what has expired *)
(* at the time it read, and takes or creates the session of its key; it    *)
(* does so again when the adapter, and when the stream handler, starts.    *)
(* A request without a session header gets a session of its own each time. *)
(* A background goroutine prunes too.  The TTL and the limit are read from *)
(* the live config at each use.                                            *)
(***************************************************************************)
EXTENDS Naturals, FiniteSets

CONSTANTS
  Requests,  \* concurrent requests
  Pruner,    \* the background pruning goroutine
  Keys,      \* session keys the clients send
  NoKey,     \* the key of a request without a session header
  Ttls,      \* the session TTLs the config may hold
  Limits,    \* the max_sessions the config may hold; 0 is no limit
  MaxWait,   \* the longest a lookup takes, from reading the clock to its end
  MaxTime,   \* bound: the last clock reading
  MaxIds,    \* bound: sessions ever created (each lookup may create one)
  Absent,    \* no entry, no session
  Free       \* nobody holds the mutex

ASSUME SessionAssumption ==
  /\ IsFiniteSet(Keys) /\ NoKey \notin Keys
  /\ Pruner \notin Requests
  /\ Free \notin Requests
  /\ Ttls \subseteq Nat \ {0} /\ Ttls # {}
  /\ Limits \subseteq Nat /\ Limits # {}
  /\ MaxWait \in Nat /\ MaxTime \in Nat /\ MaxIds \in Nat
  /\ Absent \notin [id : Nat, lastUsed : Nat]
  /\ Absent \notin [id : Nat, since : Nat]

VARIABLES
  sessions,  \* InMemoryManager.sessions
  nextId,    \* the identity of the next session
  clock,     \* the time
  ttl,       \* ConfigAccessor.SessionTTL()
  limit,     \* ConfigAccessor.MaxSessions()
  mu,        \* the request that holds InMemoryManager.mu
  pc,        \* what each goroutine does next
  key,       \* the key of the request
  at,        \* the clock reading of the lookup in progress, else 0
  held,      \* the session the request works with, and when it asked for it
  stopped,   \* pruneStop is closed
  evicted    \* history: sessions given up because there were too many

table   == <<sessions, nextId>>
config  == <<ttl, limit>>
lookup  == <<pc, key, at, held>>
vars    == <<table, clock, config, mu, lookup, stopped, evicted>>

AllKeys    == Keys \cup {NoKey}
Goroutines == Requests \cup {Pruner}
Entry      == [id : Nat \ {0}, lastUsed : Nat]
Handle     == [id : Nat \ {0}, since : Nat]

Tracked  == { k \in AllKeys : sessions[k] # Absent }
InLookup == { r \in Requests : pc[r] \in {"waiting", "locked"} }

TypeOK ==
  /\ sessions \in [AllKeys -> Entry \cup {Absent}]
  /\ nextId \in Nat \ {0}
  /\ clock \in Nat
  /\ ttl \in Ttls
  /\ limit \in Limits
  /\ mu \in Requests \cup {Free}
  /\ pc \in [Goroutines -> {"idle", "waiting", "locked", "serving"}]
  /\ key \in [Requests -> AllKeys]
  /\ at \in [Goroutines -> Nat]
  /\ held \in [Requests -> Handle \cup {Absent}]
  /\ stopped \in BOOLEAN
  /\ evicted \subseteq Nat

Init ==
  /\ sessions = [k \in AllKeys |-> Absent]
  /\ nextId = 1
  /\ clock = 0
  /\ ttl \in Ttls
  /\ limit \in Limits
  /\ mu = Free
  /\ pc = [g \in Goroutines |-> "idle"]
  /\ key = [r \in Requests |-> NoKey]
  /\ at = [g \in Goroutines |-> 0]
  /\ held = [r \in Requests |-> Absent]
  /\ stopped = FALSE
  /\ evicted = {}

-----------------------------------------------------------------------------
(***************************************************************************)
(* What a lookup does to the table.                                        *)
(***************************************************************************)

\* Mutant: a session expires when it has been unused for just the TTL.
ExpiredAtTtl(entry, now) == now >= entry.lastUsed + ttl

Expired(entry, now) == now > entry.lastUsed + ttl

Pruned(now) ==
  [k \in AllKeys |->
     IF sessions[k] # Absent /\ Expired(sessions[k], now) THEN Absent ELSE sessions[k]]

HasRoom(n) == limit = 0 \/ n < limit

\* Mutant: the most recently used session goes first.
OlderThanAll(kept) ==
  \A k \in kept, gone \in Tracked \ kept : sessions[k].lastUsed <= sessions[gone].lastUsed

FresherThanAll(kept) ==
  \A k \in kept, gone \in Tracked \ kept : sessions[gone].lastUsed <= sessions[k].lastUsed

\* What evictions may leave: they stop as soon as there is room, and among equally
\* old sessions the map order chooses.
Kept ==
  { kept \in SUBSET Tracked :
      /\ HasRoom(Cardinality(kept))
      /\ kept # Tracked => ~HasRoom(Cardinality(kept) + 1)
      /\ FresherThanAll(kept) }

\* Mutant: the empty key is a key.
NeverEphemeral(k) == FALSE

Ephemeral(k) == k = NoKey

\* Mutant: a lookup that finds its session returns with the mutex locked.
StillLocked == mu

Unlocked == Free

-----------------------------------------------------------------------------
(***************************************************************************)
(* Requests.                                                               *)
(***************************************************************************)

\* sessionForRequest reads the clock before the manager locks its mutex.
LookUp(r, k) ==
  /\ nextId + Cardinality(InLookup) <= MaxIds
  /\ pc' = [pc EXCEPT ![r] = "waiting"]
  /\ key' = [key EXCEPT ![r] = k]
  /\ at' = [at EXCEPT ![r] = clock]
  /\ UNCHANGED <<table, clock, config, mu, held, stopped, evicted>>

Arrive(r) == pc[r] = "idle" /\ \E k \in AllKeys : LookUp(r, k)

\* The adapter and the stream handler ask again.
LookUpAgain(r) == pc[r] = "serving" /\ LookUp(r, key[r])

Returned(r) ==
  /\ pc' = [pc EXCEPT ![r] = "serving"]
  /\ at' = [at EXCEPT ![r] = 0]

NewEphemeral(r) ==
  /\ pc[r] = "waiting" /\ Ephemeral(key[r])
  /\ held' = [held EXCEPT ![r] = [id |-> nextId, since |-> at[r]]]
  /\ nextId' = nextId + 1
  /\ Returned(r)
  /\ UNCHANGED <<sessions, clock, config, mu, key, stopped, evicted>>

\* GetOrCreate up to and with pruneLocked.
Lock(r) ==
  /\ pc[r] = "waiting" /\ ~Ephemeral(key[r])
  /\ mu = Free
  /\ mu' = r
  /\ sessions' = Pruned(at[r])
  /\ pc' = [pc EXCEPT ![r] = "locked"]
  /\ UNCHANGED <<nextId, clock, config, key, at, held, stopped, evicted>>

\* The session is there.  A lookup that waited may set lastUsed back.
Hit(r) ==
  /\ pc[r] = "locked" /\ sessions[key[r]] # Absent
  /\ sessions' = [sessions EXCEPT ![key[r]].lastUsed = at[r]]
  /\ held' = [held EXCEPT ![r] = [id |-> sessions[key[r]].id, since |-> at[r]]]
  /\ mu' = Unlocked
  /\ Returned(r)
  /\ UNCHANGED <<nextId, clock, config, key, stopped, evicted>>

\* It is not: the least recently used sessions make room for a new one.
Create(r) ==
  /\ pc[r] = "locked" /\ sessions[key[r]] = Absent
  /\ \E kept \in Kept :
       /\ sessions' = [k \in AllKeys |->
            IF k = key[r] THEN [id |-> nextId, lastUsed |-> at[r]]
            ELSE IF k \in kept THEN sessions[k] ELSE Absent]
       /\ evicted' = evicted \cup { sessions[k].id : k \in Tracked \ kept }
  /\ held' = [held EXCEPT ![r] = [id |-> nextId, since |-> at[r]]]
  /\ nextId' = nextId + 1
  /\ mu' = Free
  /\ Returned(r)
  /\ UNCHANGED <<clock, config, key, stopped>>

Finish(r) ==
  /\ pc[r] = "serving"
  /\ pc' = [pc EXCEPT ![r] = "idle"]
  /\ key' = [key EXCEPT ![r] = NoKey]
  /\ held' = [held EXCEPT ![r] = Absent]
  /\ UNCHANGED <<table, clock, config, mu, at, stopped, evicted>>

-----------------------------------------------------------------------------
(***************************************************************************)
(* The pruner, the clock and the config.                                   *)
(***************************************************************************)

\* The ticker fires and the argument of Prune is evaluated ...
Wake ==
  /\ pc[Pruner] = "idle" /\ ~stopped
  /\ pc' = [pc EXCEPT ![Pruner] = "waiting"]
  /\ at' = [at EXCEPT ![Pruner] = clock]
  /\ UNCHANGED <<table, clock, config, mu, key, held, stopped, evicted>>

\* ... and Prune runs under the mutex.
Prune ==
  /\ pc[Pruner] = "waiting" /\ mu = Free
  /\ sessions' = Pruned(at[Pruner])
  /\ pc' = [pc EXCEPT ![Pruner] = "idle"]
  /\ at' = [at EXCEPT ![Pruner] = 0]
  /\ UNCHANGED <<nextId, clock, config, mu, key, held, stopped, evicted>>

\* Server.Close closes pruneStop, once.  Requests in progress go on.
Stop ==
  /\ ~stopped
  /\ stopped' = TRUE
  /\ UNCHANGED <<table, clock, config, mu, lookup, evicted>>

Tick ==
  /\ clock < MaxTime
  /\ \A r \in InLookup : clock < at[r] + MaxWait
  /\ clock' = clock + 1
  /\ UNCHANGED <<table, config, mu, lookup, stopped, evicted>>

\* The runtime's snapshot changes, at any moment.
Reconfigure ==
  /\ ttl' \in Ttls /\ limit' \in Limits
  /\ UNCHANGED <<table, clock, mu, lookup, stopped, evicted>>

Serve(r) == NewEphemeral(r) \/ Lock(r) \/ Hit(r) \/ Create(r)

Next ==
  \/ \E r \in Requests : Arrive(r) \/ LookUpAgain(r) \/ Serve(r) \/ Finish(r)
  \/ Wake \/ Prune \/ Stop
  \/ Tick
  \/ Reconfigure

Fairness ==
  /\ WF_vars(Wake) /\ SF_vars(Prune)
  /\ \A r \in Requests : SF_vars(Serve(r))

Spec == Init /\ [][Next]_vars /\ Fairness

-----------------------------------------------------------------------------
(***************************************************************************)
(* Properties.                                                             *)
(***************************************************************************)

\* Two requests work with one session only if they sent the same key: the plugin
\* state of one conversation never reaches another, nor a request without a key.
Isolated ==
  \A r, s \in Requests :
    r # s /\ held[r] # Absent /\ held[s] # Absent /\ held[r].id = held[s].id
      => key[r] = key[s] /\ key[r] # NoKey

\* A conversation finds its session again for as long as the shortest TTL, less the
\* longest wait for the mutex, after any request asked for it, whatever other
\* requests that waited longer wrote to lastUsed since, unless it was evicted.
ConversationKept ==
  \A r \in Requests :
    /\ held[r] # Absent /\ key[r] # NoKey /\ held[r].id \notin evicted
    /\ \A t \in Ttls : clock + MaxWait <= held[r].since + t
    => sessions[key[r]] # Absent /\ sessions[key[r]].id = held[r].id

\* Whoever adds a session leaves at most max_sessions of them, also right after the
\* limit was lowered under many.
LimitKept ==
  [][Tracked' \subseteq Tracked \/ limit = 0 \/ Cardinality(Tracked') <= limit]_vars

\* A session that has not expired is given up only when there are as many as
\* allowed, and never before one that was used earlier.
OldestGoFirst ==
  [][\A k \in Tracked \ Tracked' :
       \/ Expired(sessions[k], clock)
       \/ /\ limit # 0 /\ Cardinality(Tracked) >= limit
          /\ \A l \in Tracked \cap Tracked' :
               sessions[k].lastUsed <= sessions[l].lastUsed]_vars

\* A session nobody asks for is removed after its TTL, until the server closes.
ExpiredSessionsGo ==
  \A k \in Keys :
    sessions[k] # Absent /\ Expired(sessions[k], clock)
      ~> stopped \/ sessions[k] = Absent \/ ~Expired(sessions[k], clock)
=============================================================================

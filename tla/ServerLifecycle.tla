-------------------------- MODULE ServerLifecycle --------------------------
(***************************************************************************)
(* The life of the process, from runTransform to the end of main: plugins  *)
(* are initialised, one of the databases that they provide is opened and   *)
(* given to the consumers that keep rows there, and requests are served    *)
(* until a signal arrives or the listener fails. What was started then     *)
(* ends in the order of Go's deferred calls. The metrics plugin, a         *)
(* consumer, writes a row for each request when its handler reports.       *)
(***************************************************************************)
EXTENDS Naturals, Sequences, FiniteSets, Functions

CONSTANTS
    Plugins,      \* the plugins in the order of their registration
    Databases,    \* the plugins that may provide a database
    WorkerBound,  \* the databases that only a Worker has
    Consumers,    \* the consumers in the order of their registration
    Metrics,      \* the consumer that writes a row for each request
    HttpRequests

ASSUME LifecycleAssumption ==
    /\ Plugins \in Seq(STRING) /\ IsInjective(Plugins)
    /\ WorkerBound \subseteq Databases /\ Databases \subseteq Range(Plugins)
    /\ Consumers \in Seq(STRING) /\ IsInjective(Consumers) /\ Metrics \in Range(Consumers)

VARIABLES
    stage,     \* how far runTransform is
    given,     \* the databases that the plugins provide
    named,     \* persistence.active_provider
    running,   \* how many plugins are initialised and not shut down
    active,    \* the database that was selected
    handle,    \* of each database: "none", "open" or "closed"
    left,      \* the consumers whose tables are not made yet
    bound,     \* the consumers that have a store
    signalled, \* the context of main is done
    listener,  \* "none", "listening", "failed" or "closed"
    request,   \* of each request: "none", "handled", "done" or "killed"
    counted,   \* the requests that the statistics count
    rows,      \* of each request: what became of its row of metrics
    summary    \* the requests that the last line of statistics counts

start == <<given, named>>
persistence == <<active, handle, left, bound>>
serving == <<signalled, listener, request, counted, rows, summary>>
processVars == <<stage, start, running, persistence, serving>>

None == "none"
Stages ==
    {"plugins", "select", "open", "consumers", "serve", "drain", "return",
     "close", "shutdown", "ended"}

ProcessInit ==
    /\ stage = "plugins"
    /\ given \in SUBSET Databases
    /\ named \in Databases \cup {None}
    /\ running = 0 /\ active = None /\ handle = [d \in Databases |-> "none"]
    /\ left = Consumers /\ bound = {}
    /\ signalled = FALSE /\ listener = "none"
    /\ request = [r \in HttpRequests |-> "none"] /\ rows = [r \in HttpRequests |-> "none"]
    /\ counted = {} /\ summary = {}

-----------------------------------------------------------------------------
(* Start *)

InitPlugin ==
    /\ stage = "plugins" /\ running < Len(Plugins)
    /\ running' = running + 1
    /\ UNCHANGED <<stage, start, persistence, serving>>

\* The error is returned before ShutdownAll is deferred.
InitFails ==
    /\ stage = "plugins" /\ running < Len(Plugins)
    /\ stage' = "ended"
    /\ UNCHANGED <<start, running, persistence, serving>>

AllInitialised ==
    /\ stage = "plugins" /\ running = Len(Plugins)
    /\ stage' = "select"
    /\ UNCHANGED <<start, running, persistence, serving>>

\* A name that is not configured is the only database's, or the Worker's.
ResolvePersistenceActiveProvider ==
    LET only == IF Cardinality(given) = 1 THEN given ELSE given \cap WorkerBound
    IN IF named # None THEN {named} ELSE IF Cardinality(only) = 1 THEN only ELSE {}

\* Without a database every consumer does without; with several and no name,
\* or with a name that none has, the process does not start.
SelectProvider ==
    /\ stage = "select"
    /\ LET selected == ResolvePersistenceActiveProvider \cap given IN
         CASE given = {} -> /\ stage' = "serve" /\ left' = <<>>
                            /\ UNCHANGED active
           [] given # {} /\ selected = {} -> stage' = "shutdown" /\ UNCHANGED <<active, left>>
           [] OTHER -> /\ stage' = "open" /\ active' \in selected
                       /\ UNCHANGED left
    /\ UNCHANGED <<start, running, handle, bound, serving>>

\* Close of a database that is not open does nothing.
Closed(d) == [handle EXCEPT ![d] = IF @ = "open" THEN "closed" ELSE @]

Open ==
    /\ stage = "open"
    /\ stage' = "consumers"
    /\ handle' = [handle EXCEPT ![active] = "open"]
    /\ UNCHANGED <<start, running, active, left, bound, serving>>

\* Open or Ping fails; Shutdown of the registry is deferred after them.
OpenFails ==
    /\ stage = "open"
    /\ stage' = "shutdown"
    /\ handle' \in {handle, [handle EXCEPT ![active] = "closed"]}
    /\ UNCHANGED <<start, running, active, left, bound, serving>>

\* The tables of the next consumer are made, and it is given its store.
InitConsumer ==
    /\ stage = "consumers" /\ left # <<>>
    /\ left' = Tail(left)
    /\ bound' = bound \cup {Head(left)}
    /\ UNCHANGED <<stage, start, running, active, handle, serving>>

DisablePersistence ==
    /\ stage = "consumers" /\ left # <<>>
    /\ left' = Tail(left)
    /\ bound' = bound \ {Head(left)}
    /\ UNCHANGED <<stage, start, running, active, handle, serving>>

ConsumersDone ==
    /\ stage = "consumers" /\ left = <<>>
    /\ stage' \in {"serve", "close"}   \* the configuration that was stored may not do
    /\ UNCHANGED <<start, running, persistence, serving>>

-----------------------------------------------------------------------------
(* Requests *)

Listen ==
    /\ stage = "serve" /\ listener = "none"
    /\ listener' \in {"listening", "failed"}
    /\ UNCHANGED <<stage, start, running, persistence, signalled, request, counted, rows, summary>>

Accept(r) ==
    /\ listener = "listening" /\ request[r] = "none"
    /\ request' = [request EXCEPT ![r] = "handled"]
    /\ UNCHANGED <<stage, start, running, persistence, signalled, listener, counted, rows, summary>>

\* The usage is added to the statistics before the hooks are called, after, or not at all.
Count(r) ==
    /\ request[r] = "handled" /\ r \notin counted
    /\ counted' = counted \cup {r}
    /\ UNCHANGED <<stage, start, running, persistence, signalled, listener, request, rows, summary>>

Recorded ==
    IF Metrics \notin bound THEN {"dropped"}
    ELSE IF handle[active] = "open" THEN {"written", "refused"} ELSE {"lost"}

OnRequestCompleted(r) ==
    /\ request[r] = "handled" /\ rows[r] = "none"
    /\ \E row \in Recorded : rows' = [rows EXCEPT ![r] = row]
    /\ UNCHANGED <<stage, start, running, persistence, signalled, listener, request, counted, summary>>

Return(r) ==
    /\ request[r] = "handled"
    /\ request' = [request EXCEPT ![r] = "done"]
    /\ UNCHANGED <<stage, start, running, persistence, signalled, listener, counted, rows, summary>>

Handlers == {r \in HttpRequests : request[r] = "handled"}

-----------------------------------------------------------------------------
(* End *)

Signal ==
    /\ ~signalled
    /\ signalled' = TRUE
    /\ UNCHANGED <<stage, start, running, persistence, listener, request, counted, rows, summary>>

ListenerFails ==
    /\ listener = "listening"
    /\ listener' = "failed"
    /\ UNCHANGED <<stage, start, running, persistence, signalled, request, counted, rows, summary>>

\* The statistics are written, while requests are still served and accepted.
WriteSummary ==
    /\ stage = "serve" /\ signalled /\ listener # "none"
    /\ stage' = "drain"
    /\ summary' = counted
    /\ UNCHANGED <<start, running, persistence, signalled, listener, request, counted, rows>>

\* Shutdown closes the listener and waits, for however long it takes.
CloseListener ==
    /\ stage = "drain" /\ listener # "closed"
    /\ listener' = "closed"
    /\ UNCHANGED <<stage, start, running, persistence, signalled, request, counted, rows, summary>>

\* Mutant: requests that nobody made are waited for.
DrainedWhenAllDone == listener = "closed" /\ \A r \in HttpRequests : request[r] = "done"

Drained == listener = "closed" /\ Handlers = {}

\* Mutant: Close instead of Shutdown, which does not wait for the handlers.
CloseServer ==
    /\ stage = "drain" /\ listener = "closed"
    /\ stage' = "close"
    /\ UNCHANGED <<start, running, persistence, serving>>

Shutdown ==
    /\ stage = "drain" /\ Drained
    /\ stage' = "close"
    /\ UNCHANGED <<start, running, persistence, serving>>

ServeFails ==
    /\ stage = "serve" /\ listener = "failed"
    /\ stage' = "close"
    /\ UNCHANGED <<start, running, persistence, serving>>

\* The deferred calls, the last one first.
CloseDatabase ==
    /\ stage = "close"
    /\ stage' = "shutdown"
    /\ handle' = IF active = None THEN handle ELSE Closed(active)
    /\ UNCHANGED <<start, running, active, left, bound, serving>>

ShutdownPlugin ==
    /\ stage = "shutdown" /\ running > 0
    /\ running' = running - 1
    /\ handle' = IF Plugins[running] \in given THEN Closed(Plugins[running]) ELSE handle
    /\ UNCHANGED <<stage, start, active, left, bound, serving>>

\* What is still handled ends with the process.
Exit ==
    /\ stage = "shutdown" /\ running = 0
    /\ stage' = "ended"
    /\ request' = [r \in HttpRequests |-> IF r \in Handlers THEN "killed" ELSE request[r]]
    /\ listener' = IF listener = "listening" THEN "closed" ELSE listener
    /\ UNCHANGED <<start, running, persistence, signalled, counted, rows, summary>>

Starting ==
    \/ InitPlugin \/ InitFails \/ AllInitialised \/ SelectProvider \/ Open \/ OpenFails
    \/ InitConsumer \/ DisablePersistence \/ ConsumersDone \/ Listen
Serving == \E r \in HttpRequests : Accept(r) \/ Count(r) \/ OnRequestCompleted(r) \/ Return(r)
Ending ==
    \/ WriteSummary \/ CloseListener \/ Shutdown \/ ServeFails
    \/ CloseDatabase \/ ShutdownPlugin \/ Exit

ProcessNext == Starting \/ Serving \/ Ending \/ Signal \/ ListenerFails

\* The main goroutine goes on while it can; nothing says that a handler does.
ProcessSpec == ProcessInit /\ [][ProcessNext]_processVars /\ WF_processVars(Starting) /\ WF_processVars(Ending)

-----------------------------------------------------------------------------
(* Properties *)

ProcessTypeOK ==
    /\ stage \in Stages
    /\ given \in SUBSET Databases /\ named \in Databases \cup {None}
    /\ running \in 0..Len(Plugins)
    /\ active \in Databases \cup {None}
    /\ handle \in [Databases -> {"none", "open", "closed"}]
    /\ left \in Seq(STRING) /\ bound \subseteq Range(Consumers)
    /\ signalled \in BOOLEAN /\ listener \in {"none", "listening", "failed", "closed"}
    /\ request \in [HttpRequests -> {"none", "handled", "done", "killed"}]
    /\ rows \in [HttpRequests -> {"none", "dropped", "written", "refused", "lost"}]
    /\ counted \subseteq HttpRequests /\ summary \subseteq counted

\* Go's deferred calls and http.Server.Shutdown together: as long as a request
\* is handled no plugin has been shut down, and a consumer that was given a
\* store has its database open, so that what the request reports is kept. Not
\* when the listener failed: then nobody waits for the handlers.
HandlersHaveWhatTheyUse ==
    listener # "failed" =>
        /\ Handlers # {} => running = Len(Plugins) /\ (bound # {} => handle[active] = "open")
        /\ \A r \in HttpRequests : rows[r] # "lost"

\* If every handler returns, a process that has been sent a signal ends, with
\* no database left open: whether it was starting, serving or draining, and
\* whatever failed.
ServerStops ==
    (\A r \in HttpRequests : []<>(r \notin Handlers))
    => (signalled ~> stage = "ended" /\ \A d \in Databases : handle[d] # "open")
=============================================================================

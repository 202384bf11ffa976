--------------------------- MODULE ConfigStore ----------------------------
(***************************************************************************)
(* The configuration store, the runtime that serves from it, and the       *)
(* management API calls that run in between, one goroutine per call:       *)
(* internal/service/store, internal/service/runtime, internal/service/api. *)
(*                                                                         *)
(* A call that changes the configuration stages rows of the changes table. *)
(* Apply lists the pending rows, applies them to the main tables in one    *)
(* transaction, reads the five tables back with five separate SELECTs and  *)
(* makes the result the runtime's snapshot.  Activating a profile replaces *)
(* the main tables in one transaction and reads them back the same way,    *)
(* without Apply's mutex.                                                  *)
(*                                                                         *)
(* The SQLite pool has one connection (its default), so an open            *)
(* transaction keeps every other statement waiting.                        *)
(***************************************************************************)
EXTENDS ConfigTables

CONSTANTS
  Clients,       \* concurrent management API calls
  Menu,          \* the configuration changes a client may ask for
  Mask,          \* the API key "******" in a PATCH: keep the key
  ProfileNames,  \* names of configuration profiles
  YamlConfig,    \* the config file the process was started with
  InitialTables, \* what the tables may hold before the first start
  Faulty,        \* the steps whose statement may fail
  MaxChanges,    \* bound: rows ever staged
  MaxCrashes,    \* bound: process crashes
  Free           \* nobody holds the mutex or the connection

VARIABLES
  tables,      \* the committed rows of the five config tables
  changes,     \* the rows of the changes table
  nextId,      \* the next AUTOINCREMENT id
  profiles,    \* the rows of the profiles table
  snapshot,    \* Runtime.snapshot: the live config
  up,          \* the process is running
  applyMu,     \* holder of SQLiteConfigStore.applyMu
  conn,        \* the client whose transaction is open on the connection
  pc,          \* what each client's call does next
  todo,        \* changes the call still has to stage
  picked,      \* listed rows the transaction has not applied yet
  done,        \* ids of the rows the transaction has applied
  buf,         \* the rows the call works on
  name,        \* the profile the call is about
  crashes,     \* number of crashes so far
  committed,   \* history: ids whose effect a transaction has committed
  unpublished  \* history: the last load of the committed rows has failed, which a
               \* call has answered or the start has logged

disk    == <<tables, changes, nextId, profiles>>
process == <<snapshot, up, applyMu, conn>>
call    == <<pc, todo, picked, done, buf, name>>
history == <<committed, unpublished>>
vars    == <<disk, process, call, crashes, history>>

-----------------------------------------------------------------------------
(***************************************************************************)
(* Requests and the changes they stage.                                    *)
(***************************************************************************)

Request(kind, key, val) == [kind |-> kind, key |-> key, val |-> val]

Patch == [url: Value, key: Value \cup {Mask}]

\* PUT /providers/{key} wants both columns; PATCH takes what it is given.
IsRequest(req) ==
  \/ req.kind = "putProvider" /\ req.key \in Providers
       /\ req.val \in [url: Values, key: Values]
  \/ req.kind = "patchProvider"  /\ req.key \in Providers /\ req.val \in Patch
  \/ req.kind = "deleteProvider" /\ req.key \in Providers
  \/ req.kind \in {"putOffer", "deleteOffer"} /\ req.key \in Providers \X Models
  \/ req.kind \in {"putModel", "deleteModel"} /\ req.key \in Models
  \/ req.kind = "putRoute"       /\ req.key \in Routes /\ req.val \in RouteRow
  \/ req.kind = "deleteRoute"    /\ req.key \in Routes
  \/ req.kind = "putSetting"     /\ req.val \in Values
  \/ req.kind = "import"         /\ IsConfig(req.val)

ASSUME RequestsAssumption == \A req \in Menu : IsRequest(req)

ASSUME StoreAssumption ==
  /\ Free \notin Clients
  /\ Mask \notin Values /\ Mask # NoValue
  /\ MaxChanges \in Nat /\ MaxCrashes \in Nat
  /\ InitialTables \subseteq Tables
  /\ IsConfig(YamlConfig)

\* A DELETE of something the live config does not have is answered 404, and of a
\* model an offer still refers to 409.  Offers are deleted unseen.
Accepted(req, live) ==
  /\ req.kind = "deleteProvider" => HasProvider(live, req.key)
  /\ req.kind = "deleteRoute"    => live.routes[req.key] # Absent
  /\ req.kind = "deleteModel"    => req.key \in live.models /\ Offering(live, req.key) = {}

\* PATCH fills an empty base_url and a masked api_key from the live config, not
\* from the tables or from changes already staged; an empty api_key stays empty.
\* A mask that there is nothing to replace with is staged like any other value.
Patched(live, p, patch) ==
  LET old  == live.providers[p]
      some == CHOOSE v \in Values : TRUE
  IN [url |-> IF patch.url = NoValue /\ old # Absent THEN old.url ELSE patch.url,
      key |-> IF patch.key # Mask THEN patch.key
              ELSE IF old # Absent THEN old.key ELSE some]

ImportChanges(c) ==
  { Upsert("provider", p, c.providers[p]) : p \in { q \in Providers : HasProvider(c, q) } }
    \cup { Upsert("offer", o, NoValue) : o \in c.offers }
    \cup { Upsert("model", m, NoValue) : m \in c.models }
    \cup { Upsert("route", r, c.routes[r]) : r \in { q \in Routes : c.routes[q] # Absent } }
    \cup { Upsert("setting", NoValue, v) : v \in {c.settings.value} \ {NoValue} }

Changes(req, live) ==
  CASE req.kind = "putProvider"    -> {Upsert("provider", req.key, req.val)}
    [] req.kind = "patchProvider"  -> {Upsert("provider", req.key, Patched(live, req.key, req.val))}
    [] req.kind = "deleteProvider" -> {Delete("provider", req.key)}
    [] req.kind = "putOffer"       -> {Upsert("offer", req.key, NoValue)}
    [] req.kind = "deleteOffer"    -> {Delete("offer", req.key)}
    [] req.kind = "putModel"       -> {Upsert("model", req.key, NoValue)}
    [] req.kind = "deleteModel"    -> {Delete("model", req.key)}
    [] req.kind = "putRoute"       -> {Upsert("route", req.key, req.val)}
    [] req.kind = "deleteRoute"    -> {Delete("route", req.key)}
    [] req.kind = "putSetting"     -> {Upsert("setting", NoValue, req.val)}
    [] req.kind = "import"         -> ImportChanges(req.val)

\* An import stages each provider and then its offers, the providers in map
\* order, and after them the models, the routes and the settings.
Rank(ch, S) ==
  CASE ch.res = "offer" ->
         IF \E p \in S : p.res = "provider" /\ p.key = ch.key[1] THEN 2 ELSE 0
    [] ch.res = "provider" -> 1
    [] ch.res = "model"    -> 3
    [] ch.res = "route"    -> 4
    [] ch.res = "setting"  -> 5

FirstOf(S) == { ch \in S : \A other \in S : Rank(ch, S) <= Rank(other, S) }

-----------------------------------------------------------------------------
(***************************************************************************)
(* Types and the initial state.                                            *)
(***************************************************************************)

ChangeRow == [id: Nat \ {0}, ch: Change, applied: BOOLEAN]
Profile   == [cfg: Tables, active: BOOLEAN]

\* The five SELECTs of loadFileConfig, in order, and the reload that follows.
LoadSteps  == {"settings", "models", "providers", "offers", "routes", "publish"}
ApplySteps == {"list", "begin", "tx"}
Statements == {"stage", "save", "seed"} \cup ApplySteps \cup (LoadSteps \ {"publish"})
Steps      == {"idle", "acquire", "publish"} \cup Statements

ASSUME FaultyAssumption == Faulty \subseteq Statements

TypeOK ==
  /\ tables \in Tables
  /\ changes \subseteq ChangeRow
  /\ nextId \in Nat \ {0}
  /\ profiles \in [ProfileNames -> Profile \cup {Absent}]
  /\ snapshot \in Tables
  /\ up \in BOOLEAN
  /\ applyMu \in Clients \cup {Free}
  /\ conn \in Clients \cup {Free}
  /\ pc \in [Clients -> Steps]
  /\ todo \in [Clients -> SUBSET Change]
  /\ picked \in [Clients -> SUBSET ChangeRow]
  /\ done \in [Clients -> SUBSET (Nat \ {0})]
  /\ buf \in [Clients -> Tables]
  /\ name \in [Clients -> ProfileNames \cup {Absent}]
  /\ crashes \in Nat
  /\ committed \subseteq Nat \ {0}
  /\ unpublished \in BOOLEAN

Init ==
  /\ tables \in InitialTables
  /\ changes = {}
  /\ nextId = 1
  /\ profiles = [n \in ProfileNames |-> Absent]
  /\ snapshot = YamlConfig
  /\ up = FALSE
  /\ applyMu = Free
  /\ conn = Free
  /\ pc = [c \in Clients |-> "idle"]
  /\ todo = [c \in Clients |-> {}]
  /\ picked = [c \in Clients |-> {}]
  /\ done = [c \in Clients |-> {}]
  /\ buf = [c \in Clients |-> EmptyTables]
  /\ name = [c \in Clients |-> Absent]
  /\ crashes = 0
  /\ committed = {}
  /\ unpublished = FALSE

-----------------------------------------------------------------------------
(***************************************************************************)
(* Parts shared by the actions.                                            *)
(***************************************************************************)

Go(c, from, to) == up /\ pc[c] = from /\ pc' = [pc EXCEPT ![c] = to]

\* Mutant: no deferred Unlock.
NotReleased(c) == applyMu

ReleasedBy(c) == IF applyMu = c THEN Free ELSE applyMu

\* The call returns: it forgets what it worked on, its transaction is over and
\* the deferred Unlock runs.
Return(c) ==
  /\ pc' = [pc EXCEPT ![c] = "idle"]
  /\ todo' = [todo EXCEPT ![c] = {}]
  /\ picked' = [picked EXCEPT ![c] = {}]
  /\ done' = [done EXCEPT ![c] = {}]
  /\ buf' = [buf EXCEPT ![c] = EmptyTables]
  /\ name' = [name EXCEPT ![c] = Absent]
  /\ applyMu' = ReleasedBy(c)
  /\ conn' = IF conn = c THEN Free ELSE conn

Pending == { row \in changes : ~row.applied }

\* Rows that calls in progress have still to stage.
Outstanding == UNION { {c} \X todo[c] : c \in Clients }

-----------------------------------------------------------------------------
(***************************************************************************)
(* Staging.                                                                *)
(***************************************************************************)

\* A handler looks at the live config and decides what to stage.  A rejected
\* request changes nothing and is no step.
Submit(c) ==
  \E req \in Menu :
    /\ Go(c, "idle", "stage")
    /\ Accepted(req, snapshot)
    /\ todo' = [todo EXCEPT ![c] = Changes(req, snapshot)]
    /\ nextId + Cardinality(Outstanding \cup ({c} \X todo'[c])) <= MaxChanges + 1
    /\ UNCHANGED <<disk, process, picked, done, buf, name, crashes, history>>

\* StageChange inserts one row; an import calls it once for every change.
Stage(c) ==
  /\ up /\ pc[c] = "stage" /\ conn = Free
  /\ \E ch \in FirstOf(todo[c]) :
       /\ changes' = changes \cup {[id |-> nextId, ch |-> ch, applied |-> FALSE]}
       /\ todo' = [todo EXCEPT ![c] = @ \ {ch}]
  /\ nextId' = nextId + 1
  /\ pc' = [pc EXCEPT ![c] = IF todo'[c] = {} THEN "idle" ELSE "stage"]
  /\ UNCHANGED <<tables, profiles, process, picked, done, buf, name, crashes, history>>

\* DiscardPendingChanges: one DELETE, which does not wait for a running Apply.
Discard(c) ==
  /\ up /\ pc[c] = "idle" /\ conn = Free
  /\ changes' = { row \in changes : row.applied }
  /\ UNCHANGED <<tables, nextId, profiles, process, call, crashes, history>>

-----------------------------------------------------------------------------
(***************************************************************************)
(* ApplyPendingChanges.                                                    *)
(***************************************************************************)

StartApply(c) ==
  /\ Go(c, "idle", "acquire")
  /\ UNCHANGED <<disk, process, todo, picked, done, buf, name, crashes, history>>

\* Mutant: Apply without the mutex.
NoMutex == TRUE

MutexAvailable == applyMu = Free

Acquire(c) ==
  /\ Go(c, "acquire", "list")
  /\ MutexAvailable
  /\ applyMu' = c
  /\ UNCHANGED <<disk, snapshot, up, conn, todo, picked, done, buf, name, crashes, history>>

List(c) ==
  /\ Go(c, "list", "begin")
  /\ conn = Free
  /\ Pending # {}
  /\ picked' = [picked EXCEPT ![c] = Pending]
  /\ UNCHANGED <<disk, process, todo, done, buf, name, crashes, history>>

NothingPending(c) ==
  /\ up /\ pc[c] = "list" /\ conn = Free
  /\ Pending = {}
  /\ Return(c)
  /\ UNCHANGED <<disk, snapshot, up, crashes, history>>

Begin(c) ==
  /\ Go(c, "begin", "tx")
  /\ conn = Free
  /\ conn' = c
  /\ buf' = [buf EXCEPT ![c] = tables]
  /\ UNCHANGED <<disk, snapshot, up, applyMu, todo, picked, done, name, crashes, history>>

\* Mutant: the rows are listed without ORDER BY.
AnyOrder(rows) == rows

Oldest(rows) == { row \in rows : \A other \in rows : row.id <= other.id }

\* The rows are applied in id order, and as they were listed: one discarded since
\* is applied all the same.
ApplyRow(c) ==
  /\ up /\ pc[c] = "tx"
  /\ \E row \in Oldest(picked[c]) :
       /\ buf' = [buf EXCEPT ![c] = ApplyChange(@, row.ch)]
       /\ picked' = [picked EXCEPT ![c] = @ \ {row}]
       /\ done' = [done EXCEPT ![c] = @ \cup {row.id}]
  /\ UNCHANGED <<disk, process, pc, todo, name, crashes, history>>

\* Mutant: UPDATE ... WHERE applied = 0 instead of WHERE id = ?.
MarkAllApplied(ids) == { [row EXCEPT !.applied = TRUE] : row \in changes }

MarkApplied(ids) ==
  { [row EXCEPT !.applied = @ \/ row.id \in ids] : row \in changes }

Commit(c) ==
  /\ Go(c, "tx", "settings")
  /\ picked[c] = {}
  /\ tables' = buf[c]
  /\ changes' = MarkApplied(done[c])
  /\ committed' = committed \cup done[c]
  /\ conn' = Free
  /\ buf' = [buf EXCEPT ![c] = EmptyTables]
  /\ done' = [done EXCEPT ![c] = {}]
  /\ UNCHANGED <<nextId, profiles, snapshot, up, applyMu, todo, picked, name, crashes, unpublished>>

\* The request context ends: the wait for the connection is given up, or the
\* open transaction is rolled back.  No other statement uses the context.
Disconnect(c) ==
  /\ up /\ pc[c] \in {"begin", "tx"}
  /\ Return(c)
  /\ UNCHANGED <<disk, snapshot, up, crashes, history>>

-----------------------------------------------------------------------------
(***************************************************************************)
(* LoadAll and Runtime.Reload: after an apply and after an activation.     *)
(***************************************************************************)

Select(c, from, to, rows) ==
  /\ Go(c, from, to)
  /\ conn = Free
  /\ buf' = [buf EXCEPT ![c] = rows]
  /\ UNCHANGED <<disk, process, todo, picked, done, name, crashes, history>>

SelectSettings(c) ==
  Select(c, "settings", "models", [buf[c] EXCEPT !.settings = tables.settings])
SelectModels(c) ==
  Select(c, "models", "providers", [buf[c] EXCEPT !.models = tables.models])
SelectProviders(c) ==
  Select(c, "providers", "offers", [buf[c] EXCEPT !.providers = tables.providers])
SelectOffers(c) ==
  Select(c, "offers", "routes", [buf[c] EXCEPT !.offers = tables.offers])
SelectRoutes(c) ==
  Select(c, "routes", "publish", [buf[c] EXCEPT !.routes = tables.routes])

\* The rows make a valid config and the runtime takes it over.
Publish(c) ==
  /\ up /\ pc[c] = "publish"
  /\ snapshot' \in Outcomes(buf[c])
  /\ unpublished' = FALSE
  /\ Return(c)
  /\ UNCHANGED <<disk, up, crashes, committed>>

\* They do not: the call reports an error, the runtime keeps what it has, and the
\* rows stay committed.
RefuseRows(c) ==
  /\ up /\ pc[c] = "publish"
  /\ Outcomes(buf[c]) = {}
  /\ unpublished' = TRUE
  /\ Return(c)
  /\ UNCHANGED <<disk, snapshot, up, crashes, committed>>

\* A statement fails.
Fail(c) ==
  /\ up /\ pc[c] \in Faulty
  /\ conn \in {Free, c}
  /\ unpublished' = (unpublished \/ pc[c] \in LoadSteps)
  /\ Return(c)
  /\ UNCHANGED <<disk, snapshot, up, crashes, committed>>

-----------------------------------------------------------------------------
(***************************************************************************)
(* Profiles.                                                               *)
(***************************************************************************)

\* Mutant: the rows are saved, not the config that was loaded from them.
RawSource == tables

ProfileSource == snapshot

StartSave(c) ==
  \E n \in ProfileNames :
    /\ Go(c, "idle", "save")
    /\ buf' = [buf EXCEPT ![c] = ProfileSource]
    /\ name' = [name EXCEPT ![c] = n]
    /\ UNCHANGED <<disk, process, todo, picked, done, crashes, history>>

\* INSERT OR REPLACE that keeps is_active.
SaveProfile(c) ==
  /\ up /\ pc[c] = "save" /\ conn = Free
  /\ LET n == name[c] IN
     profiles' = [profiles EXCEPT ![n] =
                    [cfg |-> buf[c], active |-> IF @ = Absent THEN FALSE ELSE @.active]]
  /\ Return(c)
  /\ UNCHANGED <<tables, changes, nextId, snapshot, up, crashes, history>>

\* LoadProfile reads the profile in a statement of its own ...
SelectProfile(c) ==
  \E n \in ProfileNames :
    /\ Go(c, "idle", "seed")
    /\ conn = Free
    /\ profiles[n] # Absent
    /\ Valid(profiles[n].cfg)
    /\ buf' = [buf EXCEPT ![c] = profiles[n].cfg]
    /\ name' = [name EXCEPT ![c] = n]
    /\ UNCHANGED <<disk, process, todo, picked, done, crashes, history>>

\* Mutant: the flags of the other profiles are not cleared.
AlsoActive(chosen) ==
  [n \in ProfileNames |->
     IF n = chosen /\ profiles[n] # Absent THEN [profiles[n] EXCEPT !.active = TRUE]
     ELSE profiles[n]]

OnlyActive(chosen) ==
  [n \in ProfileNames |->
     IF profiles[n] = Absent THEN Absent
     ELSE [profiles[n] EXCEPT !.active = (n = chosen)]]

\* ... and then clears and refills the tables and moves the active flag, in one
\* transaction.  If the profile is gone by then, none is active.
SeedFromProfile(c) ==
  /\ Go(c, "seed", "settings")
  /\ conn = Free
  /\ tables' = buf[c]
  /\ profiles' = OnlyActive(name[c])
  /\ buf' = [buf EXCEPT ![c] = EmptyTables]
  /\ name' = [name EXCEPT ![c] = Absent]
  /\ UNCHANGED <<changes, nextId, process, todo, picked, done, crashes, history>>

DeleteProfile(c) ==
  \E n \in ProfileNames :
    /\ up /\ pc[c] = "idle" /\ conn = Free
    /\ profiles' = [profiles EXCEPT ![n] = Absent]
    /\ UNCHANGED <<tables, changes, nextId, process, call, crashes, history>>

\* The name is the primary key: renaming to a name in use is an error.
RenameProfile(c) ==
  \E old, new \in ProfileNames :
    /\ up /\ pc[c] = "idle" /\ conn = Free
    /\ profiles[old] # Absent /\ profiles[new] = Absent
    /\ profiles' = [profiles EXCEPT ![new] = profiles[old], ![old] = Absent]
    /\ UNCHANGED <<tables, changes, nextId, process, call, crashes, history>>

-----------------------------------------------------------------------------
(***************************************************************************)
(* The process.                                                            *)
(***************************************************************************)

\* What is not committed is rolled back; everything in memory is lost.
Crash ==
  /\ up /\ crashes < MaxCrashes
  /\ up' = FALSE
  /\ crashes' = crashes + 1
  /\ applyMu' = Free
  /\ conn' = Free
  /\ pc' = [c \in Clients |-> "idle"]
  /\ todo' = [c \in Clients |-> {}]
  /\ picked' = [c \in Clients |-> {}]
  /\ done' = [c \in Clients |-> {}]
  /\ buf' = [c \in Clients |-> EmptyTables]
  /\ name' = [c \in Clients |-> Absent]
  /\ UNCHANGED <<disk, snapshot, history>>

Start == ~up /\ up' = TRUE /\ UNCHANGED <<disk, applyMu, conn, call, crashes, committed>>

\* runTransform serves what LoadAll returns ...
Boot ==
  /\ Start
  /\ snapshot' \in Outcomes(tables)
  /\ unpublished' = FALSE

\* ... or, if LoadAll fails, logs that it did and serves the YAML config.  Rows that
\* make no valid config are such a failure, and so are a store that holds nothing
\* (the tables are never seeded from the YAML config) and a SELECT that fails,
\* whatever rows there are.
BootFromYaml ==
  /\ Start
  /\ Loadable(tables) => Faulty \cap LoadSteps # {}
  /\ snapshot' = YamlConfig
  /\ unpublished' = TRUE

-----------------------------------------------------------------------------

Load(c) ==
  \/ SelectSettings(c) \/ SelectModels(c) \/ SelectProviders(c)
  \/ SelectOffers(c) \/ SelectRoutes(c)
  \/ Publish(c) \/ RefuseRows(c)

\* A call in progress goes on.
Step(c) ==
  \/ Stage(c)
  \/ Acquire(c) \/ List(c) \/ NothingPending(c)
  \/ Begin(c) \/ ApplyRow(c) \/ Commit(c)
  \/ SaveProfile(c) \/ SeedFromProfile(c)
  \/ Load(c)

\* A client makes a call.
Call(c) ==
  \/ Submit(c) \/ Discard(c) \/ StartApply(c)
  \/ StartSave(c) \/ SelectProfile(c) \/ DeleteProfile(c) \/ RenameProfile(c)

Next ==
  \/ \E c \in Clients : Call(c) \/ Step(c) \/ Disconnect(c) \/ Fail(c)
  \/ Crash
  \/ Boot
  \/ BootFromYaml

Spec == Init /\ [][Next]_vars /\ \A c \in Clients : SF_vars(Step(c))

-----------------------------------------------------------------------------
(***************************************************************************)
(* Properties.                                                             *)
(***************************************************************************)

\* Whoever applies changes next applies only changes younger than all that were
\* ever applied: no row takes effect twice, or after one that was staged later,
\* however many Apply calls run at once (applyMu, ORDER BY id).
InStageOrder ==
  \A c \in Clients : pc[c] = "tx" =>
    \A row \in picked[c], id \in committed \cup done[c] : id < row.id

\* A row says "applied" exactly when a committed transaction carried its effect
\* into the config tables, whatever was staged or discarded meanwhile.
MarkedIffCommitted ==
  \A row \in changes : row.applied <=> row.id \in committed

\* The live config has no dangling reference: its routes lead to providers that can
\* be called, its offers are of known models by known providers.
LiveConfigSound ==
  /\ \A r \in Routes : snapshot.routes[r] # Absent =>
       \E p \in Providers :
         /\ p = snapshot.routes[r].provider
         /\ snapshot.providers[p] \in [url: Values, key: Values]
  /\ \A o \in snapshot.offers : o[2] \in snapshot.models /\ HasProvider(snapshot, o[1])

\* A process in which no call is loading serves the committed rows, unless the last
\* load failed: a call has answered that it could not load what it had committed, or
\* the start has logged that LoadAll failed and serves the YAML config.  With profiles
\* it does not hold: activating one does not take the mutex of Apply.
ServesCommittedRows ==
  up /\ ~unpublished /\ Loadable(tables) /\ (\A c \in Clients : pc[c] \notin LoadSteps)
    => snapshot \in Outcomes(tables)

\* Without profiles the store keeps its promise to the readers of the runtime: while
\* the process runs, every change of the live config is to the rows committed at that
\* moment, and a load that fails, at the start too, is answered or logged.
Live == INSTANCE LiveConfig
          WITH committed <- tables, live <- snapshot, running <- up, failed <- unpublished

ImplementsLiveConfig == Live!LiveSpec

\* Every call that waits for the mutex, or holds it, or loads, returns: no Apply
\* or activation waits for ever on another.
EveryCallReturns == \A c \in Clients : pc[c] # "idle" ~> pc[c] = "idle"

\* At most one profile is marked active, through saves, renames, deletions and
\* concurrent activations.
OneActiveProfile ==
  \A m, n \in ProfileNames :
    profiles[m] # Absent /\ profiles[n] # Absent /\ profiles[m].active /\ profiles[n].active
      => m = n

\* A saved profile can always be loaded again.
ProfilesLoadable ==
  \A n \in ProfileNames : profiles[n] # Absent => Loadable(profiles[n].cfg)

\* What the comment of DiscardPendingChanges says: it "removes all pending
\* (unapplied) changes".  So a row that is gone never takes effect.
\* Does not hold: an Apply that listed the row before it was discarded applies it
\* (one change is enough: Menu <- SettingMenu).
DiscardedNeverApplied == committed \subseteq { row.id : row \in changes }

\* What the package comment of the store says: "staging validation and atomic
\* apply".  So rows that make a valid config are never turned into rows that do not.
\* Does not hold: an import writes its rows one after the other (Menu <- ImportMenu).
StoreStaysLoadable == [][Loadable(tables) => Loadable(tables')]_tables

\* What the answer of POST /changes/apply says: the changes have been applied and are
\* in effect.  So an Apply that answers so without having anything to do finds the
\* committed rows served.  Does not hold: the Apply before it may have committed rows
\* that could not be loaded (Menu <- EditMenu).
AppliedIsServed == [][\A c \in Clients : NothingPending(c) => snapshot \in Outcomes(tables)]_vars
=============================================================================

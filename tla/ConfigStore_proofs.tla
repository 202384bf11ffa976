------------------------ MODULE ConfigStore_proofs ------------------------
(***************************************************************************)
(* Proofs about ConfigStore, for any number of clients, any tables and any *)
(* menu of requests: types, the order in which staged rows are applied,    *)
(* and what the runtime serves (the live config is always sound, a saved   *)
(* profile can be loaded, one profile is active, and, as long as no        *)
(* profiles are used, the store implements LiveConfig).                    *)
(***************************************************************************)
EXTENDS ConfigStore, TLAPS

USE ConstantsAssumption

-----------------------------------------------------------------------------
(***************************************************************************)
(* The data.                                                               *)
(***************************************************************************)

\* Applying a staged change to rows makes rows (applyChangeTx).
LEMMA ApplyChangeType ==
  ASSUME NEW t \in Tables, NEW ch \in Change
  PROVE  ApplyChange(t, ch) \in Tables
<1>1. CASE ch \in UpsertChange
  <2>1. ch.op = "upsert"
    BY <1>1 DEF UpsertChange, Upsert
  <2>2. ApplyUpsert(t, ch) \in Tables
    <3>1. CASE \E p \in Providers, row \in ProviderRow : ch = Upsert("provider", p, row)
      BY <3>1 DEF ApplyUpsert, Upsert, Tables
    <3>2. CASE \E m \in Models : ch = Upsert("model", m, NoValue)
      BY <3>2 DEF ApplyUpsert, Upsert, Tables
    <3>3. CASE \E o \in Providers \X Models : ch = Upsert("offer", o, NoValue)
      BY <3>3 DEF ApplyUpsert, Upsert, Tables
    <3>4. CASE \E r \in Routes, row \in RouteRow : ch = Upsert("route", r, row)
      BY <3>4 DEF ApplyUpsert, Upsert, Tables
    <3>5. CASE \E v \in Values : ch = Upsert("setting", NoValue, v)
      BY <3>5 DEF ApplyUpsert, Upsert, Tables, Settings, Value
    <3> QED
      BY <1>1, <3>1, <3>2, <3>3, <3>4, <3>5 DEF UpsertChange
  <2> QED
    BY <2>1, <2>2 DEF ApplyChange
<1>2. CASE ch \in DeleteChange
  <2>1. ch.op = "delete"
    BY <1>2 DEF DeleteChange, Delete
  <2>2. ApplyDelete(t, ch) \in Tables
    <3>1. CASE \E p \in Providers : ch = Delete("provider", p)
      <4>1. PICK p \in Providers : ch = Delete("provider", p)
        BY <3>1
      <4>2. ch.res = "provider" /\ ch.key = p
        BY <4>1 DEF Delete
      <4>3. ApplyDelete(t, ch) = [t EXCEPT !.providers[p] = Absent,
                                           !.offers = @ \ OffersOf(t, p)]
        BY <4>2 DEF ApplyDelete
      <4>4. [t.providers EXCEPT ![p] = Absent] \in [Providers -> ProviderRow \cup {Absent}]
        BY DEF Tables
      <4>5. t.offers \ OffersOf(t, p) \in SUBSET (Providers \X Models)
        BY DEF Tables
      <4> QED
        BY <4>3, <4>4, <4>5 DEF Tables
    <3>2. CASE \E m \in Models : ch = Delete("model", m)
      BY <3>2 DEF ApplyDelete, Delete, Tables
    <3>3. CASE \E o \in Providers \X Models : ch = Delete("offer", o)
      BY <3>3 DEF ApplyDelete, Delete, Tables
    <3>4. CASE \E r \in Routes : ch = Delete("route", r)
      BY <3>4 DEF ApplyDelete, Delete, Tables
    <3> QED
      BY <1>2, <3>1, <3>2, <3>3, <3>4 DEF DeleteChange
  <2> QED
    BY <2>1, <2>2 DEF ApplyChange
<1> QED
  BY <1>1, <1>2 DEF Change

\* Every config LoadAll may return is valid and has its offers inside providers.
LEMMA OutcomesAreConfigs ==
  ASSUME NEW t \in Tables, NEW c \in Outcomes(t)
  PROVE  IsConfig(c)
<1>1. t.settings.seeded /\ c \in Loaded(t) /\ Valid(c)
  BY DEF Outcomes
<1>2. PICK f \in [Routes -> RouteRow \cup {Absent}] :
        c = [t EXCEPT !.providers = LoadedProviders(t), !.routes = f]
  BY <1>1 DEF Loaded
<1>3. [url |-> NoValue, key |-> NoValue] \in ProviderRow
  BY DEF ProviderRow, Value
<1>4. LoadedProviders(t) \in [Providers -> ProviderRow \cup {Absent}]
  BY <1>3 DEF LoadedProviders, Tables
<1>5. c \in Tables /\ c.settings.seeded
  BY <1>1, <1>2, <1>4 DEF Tables
<1>6. ASSUME NEW o \in c.offers
      PROVE  HasProvider(c, o[1])
  <2>1. o \in t.offers /\ o[1] \in Providers
    BY <1>2 DEF Tables
  <2>2. OffersOf(t, o[1]) # {}
    BY <2>1 DEF OffersOf
  <2>3. LoadedProviders(t)[o[1]] # Absent
    BY <2>1, <2>2, <1>3 DEF LoadedProviders
  <2>4. c.providers = LoadedProviders(t)
    BY <1>2 DEF Tables
  <2> QED
    BY <2>3, <2>4 DEF HasProvider
<1> QED
  BY <1>1, <1>5, <1>6 DEF IsConfig

\* Loading the rows of a config again succeeds: it gives the config back.
LEMMA ConfigsAreLoadable ==
  ASSUME NEW c, IsConfig(c)
  PROVE  Loadable(c)
<1>1. c \in Tables /\ Valid(c) /\ c.settings.seeded
  BY DEF IsConfig
<1>2. LoadedProviders(c) = c.providers
  <2>1. ASSUME NEW p \in Providers, c.providers[p] = Absent
        PROVE  OffersOf(c, p) = {}
    BY <2>1, <1>1 DEF IsConfig, HasProvider, OffersOf
  <2> QED
    BY <2>1, <1>1 DEF LoadedProviders, Tables
<1>3. ASSUME NEW r \in Routes
      PROVE  c.routes[r] \in RouteChoices(c, r)
  BY <1>1 DEF Valid, ValidRoutes, RouteChoices
<1>4. c = [c EXCEPT !.providers = LoadedProviders(c), !.routes = c.routes]
  BY <1>1, <1>2 DEF Tables
<1>5. c \in Loaded(c)
  BY <1>1, <1>3, <1>4 DEF Loaded, Tables
<1> QED
  BY <1>1, <1>5 DEF Loadable, Outcomes

\* The value columns are not all empty: the config file has a provider.
LEMMA SomeValue == Values # {}
<1>1. PICK p \in Providers : HasProvider(YamlConfig, p) /\ YamlConfig.providers[p].url # NoValue
  BY StoreAssumption DEF IsConfig, Valid, ValidProviders
<1> QED
  BY <1>1, StoreAssumption DEF IsConfig, HasProvider, Tables, ProviderRow, Value

\* What the handlers stage are changes (the handlers of providers.go, offers.go,
\* models.go, routes.go and settings.go).
LEMMA ChangesType ==
  ASSUME NEW req, IsRequest(req), NEW live \in Tables
  PROVE  Changes(req, live) \subseteq Change
<1>1. CASE req.kind = "putProvider"
  <2>1. req.key \in Providers /\ req.val \in ProviderRow
    BY <1>1 DEF IsRequest, ProviderRow, Value
  <2> QED
    BY <1>1, <2>1 DEF Changes, Change, UpsertChange
<1>2. CASE req.kind = "patchProvider"
  <2>1. req.key \in Providers /\ req.val \in Patch
    BY <1>2 DEF IsRequest
  <2>2. live.providers[req.key] \in ProviderRow \cup {Absent}
    BY <2>1 DEF Tables
  <2>3. (CHOOSE v \in Values : TRUE) \in Values
    BY SomeValue
  <2>4. Patched(live, req.key, req.val) \in ProviderRow
    BY <2>1, <2>2, <2>3 DEF Patched, Patch, ProviderRow, Value
  <2> QED
    BY <1>2, <2>1, <2>4 DEF Changes, Change, UpsertChange
<1>3. CASE req.kind = "deleteProvider"
  <2>1. req.key \in Providers
    BY <1>3 DEF IsRequest
  <2> QED
    BY <1>3, <2>1 DEF Changes, Change, DeleteChange
<1>4. CASE req.kind \in {"putOffer", "deleteOffer"}
  <2>1. req.key \in Providers \X Models
    BY <1>4 DEF IsRequest
  <2>2. Changes(req, live) \subseteq {Upsert("offer", req.key, NoValue), Delete("offer", req.key)}
    BY <1>4 DEF Changes
  <2> QED
    BY <2>1, <2>2 DEF Change, UpsertChange, DeleteChange
<1>5. CASE req.kind \in {"putModel", "deleteModel"}
  <2>1. req.key \in Models
    BY <1>5 DEF IsRequest
  <2>2. Changes(req, live) \subseteq {Upsert("model", req.key, NoValue), Delete("model", req.key)}
    BY <1>5 DEF Changes
  <2> QED
    BY <2>1, <2>2 DEF Change, UpsertChange, DeleteChange
<1>6. CASE req.kind = "putRoute"
  <2>1. req.key \in Routes /\ req.val \in RouteRow
    BY <1>6 DEF IsRequest
  <2> QED
    BY <1>6, <2>1 DEF Changes, Change, UpsertChange
<1>7. CASE req.kind = "deleteRoute"
  <2>1. req.key \in Routes
    BY <1>7 DEF IsRequest
  <2> QED
    BY <1>7, <2>1 DEF Changes, Change, DeleteChange
<1>8. CASE req.kind = "putSetting"
  <2>1. req.val \in Values
    BY <1>8 DEF IsRequest
  <2> QED
    BY <1>8, <2>1 DEF Changes, Change, UpsertChange
<1>9. CASE req.kind = "import"
  <2>1. req.val \in Tables
    BY <1>9 DEF IsRequest, IsConfig
  <2>2. ImportChanges(req.val) \subseteq UpsertChange
    <3>1. \A p \in Providers : HasProvider(req.val, p) => req.val.providers[p] \in ProviderRow
      BY <2>1 DEF Tables, HasProvider
    <3>2. \A r \in Routes : req.val.routes[r] # Absent => req.val.routes[r] \in RouteRow
      BY <2>1 DEF Tables
    <3>3. req.val.offers \subseteq Providers \X Models /\ req.val.models \subseteq Models
      BY <2>1 DEF Tables
    <3>4. {req.val.settings.value} \ {NoValue} \subseteq Values
      BY <2>1 DEF Tables, Settings, Value
    <3> QED
      BY <3>1, <3>2, <3>3, <3>4 DEF ImportChanges, UpsertChange
  <2> QED
    BY <1>9, <2>2 DEF Changes, Change
<1> QED
  BY <1>1, <1>2, <1>3, <1>4, <1>5, <1>6, <1>7, <1>8, <1>9 DEF IsRequest

LEMMA EmptyTablesType == EmptyTables \in Tables
  BY DEF EmptyTables, Tables, Settings, Value

-----------------------------------------------------------------------------
(***************************************************************************)
(* Type correctness.                                                       *)
(***************************************************************************)

\* Making one profile the active one leaves profiles.
LEMMA OnlyActiveType ==
  ASSUME profiles \in [ProfileNames -> Profile \cup {Absent}], NEW chosen
  PROVE  OnlyActive(chosen) \in [ProfileNames -> Profile \cup {Absent}]
<1>1. ASSUME NEW n \in ProfileNames
      PROVE  (IF profiles[n] = Absent THEN Absent
              ELSE [profiles[n] EXCEPT !.active = (n = chosen)]) \in Profile \cup {Absent}
  <2> DEFINE p == profiles[n]
             b == (n = chosen)
  <2>1. p \in Profile \cup {Absent}
    OBVIOUS
  <2>2. b \in BOOLEAN
    OBVIOUS
  <2> HIDE DEF p, b
  <2>3. CASE p = Absent
    BY <2>3 DEF p
  <2>4. CASE p # Absent
    <3>1. [p EXCEPT !.active = b] \in Profile
      BY <2>1, <2>2, <2>4 DEF Profile
    <3> QED
      BY <2>4, <3>1 DEF p, b
  <2> QED
    BY <2>3, <2>4
<1> QED
  BY <1>1, Zenon DEF OnlyActive

LEMMA TypeInit == Init => TypeOK
<1> SUFFICES ASSUME Init PROVE TypeOK
  OBVIOUS
<1>1. YamlConfig \in Tables /\ tables \in Tables
  BY StoreAssumption DEF Init, IsConfig
<1>2. /\ pc \in [Clients -> Steps]
      /\ todo \in [Clients -> SUBSET Change]
      /\ picked \in [Clients -> SUBSET ChangeRow]
      /\ done \in [Clients -> SUBSET (Nat \ {0})]
      /\ buf \in [Clients -> Tables]
      /\ name \in [Clients -> ProfileNames \cup {Absent}]
  BY EmptyTablesType DEF Init, Steps
<1>3. /\ profiles \in [ProfileNames -> Profile \cup {Absent}]
      /\ changes \subseteq ChangeRow /\ committed \subseteq Nat \ {0}
      /\ nextId \in Nat \ {0} /\ crashes \in Nat
  BY DEF Init
<1> QED
  BY <1>1, <1>2, <1>3 DEF Init, TypeOK

\* A returning call leaves well-typed variables.
LEMMA ReturnType ==
  ASSUME TypeOK, NEW c \in Clients, Return(c)
  PROVE  /\ applyMu' \in Clients \cup {Free}
         /\ conn' \in Clients \cup {Free}
         /\ pc' \in [Clients -> Steps]
         /\ todo' \in [Clients -> SUBSET Change]
         /\ picked' \in [Clients -> SUBSET ChangeRow]
         /\ done' \in [Clients -> SUBSET (Nat \ {0})]
         /\ buf' \in [Clients -> Tables]
         /\ name' \in [Clients -> ProfileNames \cup {Absent}]
  BY EmptyTablesType DEF TypeOK, Return, ReleasedBy, Steps, Statements

\* An action with its own guard keeps every step name a step name.
LEMMA StepNames ==
  /\ LoadSteps \subseteq Steps /\ ApplySteps \subseteq Steps
  /\ {"idle", "stage", "acquire", "save", "seed"} \subseteq Steps
  /\ {"list", "begin", "tx"} \subseteq Steps
  /\ {"settings", "models", "providers", "offers", "routes", "publish"} \subseteq Steps
  BY DEF LoadSteps, ApplySteps, Steps, Statements

LEMMA TypeNext == TypeOK /\ [Next]_vars => TypeOK'
<1> SUFFICES ASSUME TypeOK, [Next]_vars PROVE TypeOK'
  OBVIOUS
<1> USE StepNames
<1>1. ASSUME NEW c \in Clients, Submit(c) PROVE TypeOK'
  <2>1. PICK req \in Menu : todo' = [todo EXCEPT ![c] = Changes(req, snapshot)]
    BY <1>1 DEF Submit
  <2>2. Changes(req, snapshot) \subseteq Change
    BY RequestsAssumption, ChangesType DEF TypeOK
  <2> QED
    BY <1>1, <2>1, <2>2 DEF Submit, Go, TypeOK, disk, process, history
<1>2. ASSUME NEW c \in Clients, Stage(c) PROVE TypeOK'
  <2>1. PICK ch \in FirstOf(todo[c]) :
          /\ changes' = changes \cup {[id |-> nextId, ch |-> ch, applied |-> FALSE]}
          /\ todo' = [todo EXCEPT ![c] = @ \ {ch}]
    BY <1>2 DEF Stage
  <2>2. ch \in Change
    BY <2>1 DEF FirstOf, TypeOK
  <2>3. changes' \subseteq ChangeRow
    <3>1. nextId \in Nat \ {0} /\ changes \subseteq ChangeRow
      BY DEF TypeOK
    <3>2. [id |-> nextId, ch |-> ch, applied |-> FALSE] \in ChangeRow
      BY <2>2, <3>1 DEF ChangeRow
    <3> QED
      BY <2>1, <3>1, <3>2
  <2> QED
    BY <1>2, <2>1, <2>3 DEF Stage, TypeOK, process, history
<1>3. ASSUME NEW c \in Clients, Discard(c) PROVE TypeOK'
  BY <1>3 DEF Discard, TypeOK, process, call, history
<1>4. ASSUME NEW c \in Clients, StartApply(c) PROVE TypeOK'
  BY <1>4 DEF StartApply, Go, TypeOK, disk, process, history
<1>5. ASSUME NEW c \in Clients, Acquire(c) PROVE TypeOK'
  BY <1>5 DEF Acquire, Go, TypeOK, disk, history
<1>6. ASSUME NEW c \in Clients, List(c) PROVE TypeOK'
  BY <1>6 DEF List, Pending, Go, TypeOK, disk, process, history
<1>7. ASSUME NEW c \in Clients, NothingPending(c) PROVE TypeOK'
  BY <1>7, ReturnType DEF NothingPending, TypeOK, disk, history
<1>8. ASSUME NEW c \in Clients, Begin(c) PROVE TypeOK'
  BY <1>8 DEF Begin, Go, TypeOK, disk, history
<1>9. ASSUME NEW c \in Clients, ApplyRow(c) PROVE TypeOK'
  <2>1. PICK row \in Oldest(picked[c]) :
          /\ buf' = [buf EXCEPT ![c] = ApplyChange(@, row.ch)]
          /\ picked' = [picked EXCEPT ![c] = @ \ {row}]
          /\ done' = [done EXCEPT ![c] = @ \cup {row.id}]
    BY <1>9 DEF ApplyRow
  <2>2. row \in ChangeRow
    BY <2>1 DEF Oldest, TypeOK
  <2>3. ApplyChange(buf[c], row.ch) \in Tables
    BY <2>2, ApplyChangeType DEF ChangeRow, TypeOK
  <2>4. row.id \in Nat \ {0}
    BY <2>2 DEF ChangeRow
  <2> QED
    BY <1>9, <2>1, <2>3, <2>4 DEF ApplyRow, TypeOK, disk, process, history
<1>10. ASSUME NEW c \in Clients, Commit(c) PROVE TypeOK'
  <2>1. MarkApplied(done[c]) \subseteq ChangeRow
    <3>1. ASSUME NEW row \in changes
          PROVE  [row EXCEPT !.applied = row.applied \/ row.id \in done[c]] \in ChangeRow
      <4>1. row \in [id : Nat \ {0}, ch : Change, applied : BOOLEAN]
        BY Zenon DEF TypeOK, ChangeRow
      <4> DEFINE b == row.applied \/ row.id \in done[c]
      <4>2. b \in BOOLEAN
        OBVIOUS
      <4> HIDE DEF b
      <4>3. [row EXCEPT !.applied = b] \in ChangeRow
        BY <4>1, <4>2 DEF ChangeRow
      <4> QED
        BY <4>3 DEF b
    <3> QED
      BY <3>1, Zenon DEF MarkApplied
  <2> QED
    BY <1>10, <2>1, EmptyTablesType DEF Commit, Go, TypeOK
<1>11. ASSUME NEW c \in Clients, Disconnect(c) PROVE TypeOK'
  BY <1>11, ReturnType DEF Disconnect, TypeOK, disk, history
<1>12. ASSUME NEW c \in Clients, Load(c) PROVE TypeOK'
  <2>1. ASSUME NEW from \in Steps, NEW to \in Steps, NEW rows \in Tables,
               Select(c, from, to, rows)
        PROVE  TypeOK'
    BY <2>1 DEF Select, Go, TypeOK, disk, process, history
  <2>2. /\ [buf[c] EXCEPT !.settings = tables.settings] \in Tables
        /\ [buf[c] EXCEPT !.models = tables.models] \in Tables
        /\ [buf[c] EXCEPT !.providers = tables.providers] \in Tables
        /\ [buf[c] EXCEPT !.offers = tables.offers] \in Tables
        /\ [buf[c] EXCEPT !.routes = tables.routes] \in Tables
    BY DEF TypeOK, Tables
  <2>3. CASE Publish(c)
    <3>1. snapshot' \in Tables
      BY <2>3, OutcomesAreConfigs DEF Publish, IsConfig, TypeOK
    <3> QED
      BY <2>3, <3>1, ReturnType DEF Publish, TypeOK, disk
  <2>4. CASE RefuseRows(c)
    BY <2>4, ReturnType DEF RefuseRows, TypeOK, disk
  <2> QED
    BY <1>12, <2>1, <2>2, <2>3, <2>4
    DEF Load, SelectSettings, SelectModels, SelectProviders, SelectOffers, SelectRoutes
<1>13. ASSUME NEW c \in Clients, Fail(c) PROVE TypeOK'
  BY <1>13, ReturnType DEF Fail, TypeOK, disk
<1>14. ASSUME NEW c \in Clients, StartSave(c) PROVE TypeOK'
  BY <1>14 DEF StartSave, ProfileSource, Go, TypeOK, disk, process, history
<1>15. ASSUME NEW c \in Clients, SaveProfile(c) PROVE TypeOK'
  <2>1. \A n \in ProfileNames :
          [cfg |-> buf[c],
           active |-> IF profiles[n] = Absent THEN FALSE ELSE profiles[n].active] \in Profile
    BY DEF Profile, TypeOK
  <2>2. profiles' \in [ProfileNames -> Profile \cup {Absent}]
    BY <1>15, <2>1 DEF SaveProfile, TypeOK
  <2> QED
    BY <1>15, <2>2, ReturnType DEF SaveProfile, TypeOK, history
<1>16. ASSUME NEW c \in Clients, SelectProfile(c) PROVE TypeOK'
  BY <1>16 DEF SelectProfile, Profile, Go, TypeOK, disk, process, history
<1>17. ASSUME NEW c \in Clients, SeedFromProfile(c) PROVE TypeOK'
  <2>1. OnlyActive(name[c]) \in [ProfileNames -> Profile \cup {Absent}]
    BY OnlyActiveType DEF TypeOK
  <2> QED
    BY <1>17, <2>1, EmptyTablesType DEF SeedFromProfile, Go, TypeOK, process, history
<1>18. ASSUME NEW c \in Clients, DeleteProfile(c) PROVE TypeOK'
  BY <1>18 DEF DeleteProfile, TypeOK, process, call, history
<1>19. ASSUME NEW c \in Clients, RenameProfile(c) PROVE TypeOK'
  BY <1>19 DEF RenameProfile, TypeOK, process, call, history
<1>20. CASE Crash
  <2>1. /\ pc' \in [Clients -> Steps]
        /\ todo' \in [Clients -> SUBSET Change]
        /\ picked' \in [Clients -> SUBSET ChangeRow]
        /\ done' \in [Clients -> SUBSET (Nat \ {0})]
        /\ buf' \in [Clients -> Tables]
        /\ name' \in [Clients -> ProfileNames \cup {Absent}]
    BY <1>20, EmptyTablesType DEF Crash
  <2>2. crashes' \in Nat
    <3>1. crashes \in Nat
      BY DEF TypeOK
    <3> QED
      BY <1>20, <3>1 DEF Crash
  <2>3. up' \in BOOLEAN
    BY <1>20, Zenon DEF Crash
  <2> QED
    BY <1>20, <2>1, <2>2, <2>3 DEF Crash, TypeOK, disk, history
<1>21. CASE Boot \/ BootFromYaml
  <2>1. YamlConfig \in Tables
    BY StoreAssumption DEF IsConfig
  <2>2. snapshot' \in Tables
    BY <1>21, <2>1, OutcomesAreConfigs DEF Boot, BootFromYaml, IsConfig, TypeOK
  <2> QED
    BY <1>21, <2>2 DEF Boot, BootFromYaml, Start, TypeOK, disk, call
<1>22. CASE UNCHANGED vars
  BY <1>22 DEF vars, TypeOK, disk, process, call, history
<1> QED
  BY <1>1, <1>2, <1>3, <1>4, <1>5, <1>6, <1>7, <1>8, <1>9, <1>10, <1>11, <1>12, <1>13,
     <1>14, <1>15, <1>16, <1>17, <1>18, <1>19, <1>20, <1>21, <1>22
  DEF Next, Call, Step

\* The variables of the store, the runtime and the calls keep their types.
THEOREM TypeCorrect == Spec => []TypeOK
<1>1. Init => TypeOK
  BY TypeInit
<1>2. TypeOK /\ [Next]_vars => TypeOK'
  BY TypeNext
<1> QED
  BY <1>1, <1>2, PTL DEF Spec

-----------------------------------------------------------------------------
(***************************************************************************)
(* The ledger of changes.                                                  *)
(***************************************************************************)

\* Only the holder of the mutex lists, applies and commits.
ApplyHoldsMutex == \A c \in Clients : pc[c] \in ApplySteps => applyMu = c

\* A call works on listed rows only between listing and commit.
NothingListed ==
  \A c \in Clients : pc[c] \notin {"begin", "tx"} => picked[c] = {} /\ done[c] = {}

\* Ids are below the next one and name one row.
IdsIssued ==
  /\ \A row \in changes : row.id < nextId
  /\ \A r, s \in changes : r.id = s.id => r = s
  /\ \A id \in committed : id < nextId
  /\ \A c \in Clients :
       /\ \A row \in picked[c] : row.id < nextId
       /\ \A r, s \in picked[c] : r.id = s.id => r = s
       /\ \A id \in done[c] : id < nextId

\* What is pending is younger than what has been committed.
PendingIsYoung ==
  \A row \in Pending, id \in committed : id < row.id

\* What is listed is younger than what has been applied before it.
ListedIsYoung ==
  \A c \in Clients : \A row \in picked[c], id \in committed \cup done[c] : id < row.id

\* Of the pending rows a call has listed all but the youngest.
ListedIsOldest ==
  \A c \in Clients : pc[c] \in {"begin", "tx"} =>
    \A row \in Pending :
      \/ row.id \in done[c]
      \/ row \in picked[c]
      \/ (\A id \in done[c] : id < row.id) /\ (\A r \in picked[c] : r.id < row.id)

Ledger ==
  /\ TypeOK
  /\ ApplyHoldsMutex
  /\ NothingListed
  /\ IdsIssued
  /\ MarkedIffCommitted
  /\ PendingIsYoung
  /\ ListedIsYoung
  /\ ListedIsOldest

LEMMA LedgerInit == Init => Ledger
<1> SUFFICES ASSUME Init PROVE Ledger
  OBVIOUS
<1>1. TypeOK
  BY TypeInit
<1>2. ApplyHoldsMutex /\ NothingListed
  BY DEF Init, ApplyHoldsMutex, NothingListed, ApplySteps
<1>3. IdsIssued /\ MarkedIffCommitted
  BY DEF Init, IdsIssued, MarkedIffCommitted
<1>4. PendingIsYoung /\ ListedIsYoung /\ ListedIsOldest
  BY DEF Init, PendingIsYoung, ListedIsYoung, ListedIsOldest, Pending
<1> QED
  BY <1>1, <1>2, <1>3, <1>4 DEF Ledger

\* A step that leaves the rows alone, and enters and leaves no apply, keeps the
\* ledger if the mutex does what it is for.
LEMMA LedgerQuiet ==
  ASSUME Ledger, TypeOK', ApplyHoldsMutex',
         UNCHANGED <<changes, nextId, committed, picked, done>>,
         \A d \in Clients : pc'[d] \in {"begin", "tx"} <=> pc[d] \in {"begin", "tx"}
  PROVE  Ledger'
<1>1. NothingListed'
  BY DEF Ledger, NothingListed
<1>2. IdsIssued' /\ MarkedIffCommitted'
  BY DEF Ledger, IdsIssued, MarkedIffCommitted
<1>3. PendingIsYoung' /\ ListedIsYoung' /\ ListedIsOldest'
  BY DEF Ledger, PendingIsYoung, ListedIsYoung, ListedIsOldest, Pending
<1> QED
  BY <1>1, <1>2, <1>3 DEF Ledger

\* A returning call forgets what it listed and gives up the mutex.
LEMMA LedgerReturn ==
  ASSUME Ledger, TypeOK', NEW c \in Clients, Return(c),
         UNCHANGED <<changes, nextId, committed>>
  PROVE  Ledger'
<1>1. /\ pc' = [pc EXCEPT ![c] = "idle"]
      /\ picked' = [picked EXCEPT ![c] = {}]
      /\ done' = [done EXCEPT ![c] = {}]
      /\ applyMu' = IF applyMu = c THEN Free ELSE applyMu
  BY DEF Return, ReleasedBy
<1>2. pc \in [Clients -> Steps] /\ picked \in [Clients -> SUBSET ChangeRow]
      /\ done \in [Clients -> SUBSET (Nat \ {0})]
  BY DEF Ledger, TypeOK
<1>3. pc'[c] = "idle" /\ picked'[c] = {} /\ done'[c] = {}
  BY <1>1, <1>2
<1>4. \A d \in Clients \ {c} : pc'[d] = pc[d] /\ picked'[d] = picked[d] /\ done'[d] = done[d]
  BY <1>1, <1>2
<1>5. ApplyHoldsMutex'
  BY <1>1, <1>3, <1>4 DEF Ledger, ApplyHoldsMutex, ApplySteps
<1>6. NothingListed'
  BY <1>3, <1>4 DEF Ledger, NothingListed
<1>7. IdsIssued' /\ MarkedIffCommitted'
  BY <1>3, <1>4 DEF Ledger, IdsIssued, MarkedIffCommitted
<1>8. PendingIsYoung'
  BY DEF Ledger, PendingIsYoung, Pending
<1>9. ListedIsYoung' /\ ListedIsOldest'
  BY <1>3, <1>4 DEF Ledger, ListedIsYoung, ListedIsOldest, Pending
<1> QED
  BY <1>5, <1>6, <1>7, <1>8, <1>9 DEF Ledger

LEMMA LedgerStage ==
  ASSUME Ledger, TypeOK', NEW c \in Clients, Stage(c)
  PROVE  Ledger'
<1>1. PICK ch \in FirstOf(todo[c]) :
        changes' = changes \cup {[id |-> nextId, ch |-> ch, applied |-> FALSE]}
  BY DEF Stage
<1>2. /\ nextId' = nextId + 1
      /\ UNCHANGED <<committed, picked, done, applyMu>>
      /\ pc[c] = "stage"
      /\ pc' = [pc EXCEPT ![c] = IF todo'[c] = {} THEN "idle" ELSE "stage"]
  BY DEF Stage, process, history
<1>3. /\ nextId \in Nat /\ pc \in [Clients -> Steps]
      /\ \A row \in changes : row.id \in Nat
      /\ \A d \in Clients : (\A row \in picked[d] : row.id \in Nat) /\ done[d] \subseteq Nat
      /\ committed \subseteq Nat
  BY DEF Ledger, TypeOK, ChangeRow
<1>4. \A d \in Clients : pc'[d] = pc[d] \/ (d = c /\ pc'[d] \in {"idle", "stage"})
  BY <1>2, <1>3
<1>5. ApplyHoldsMutex' /\ NothingListed'
  BY <1>2, <1>4 DEF Ledger, ApplyHoldsMutex, ApplySteps, NothingListed
<1>6. IdsIssued'
  <2>1. \A row \in changes' : row.id < nextId'
    BY <1>1, <1>2, <1>3 DEF Ledger, IdsIssued
  <2>2. \A r, s \in changes' : r.id = s.id => r = s
    <3> DEFINE new == [id |-> nextId, ch |-> ch, applied |-> FALSE]
    <3>1. changes' = changes \cup {new} /\ new.id = nextId
      BY <1>1
    <3>2. \A row \in changes : row.id < nextId
      BY DEF Ledger, IdsIssued
    <3>3. \A row \in changes : row.id # new.id
      BY <1>3, <3>1, <3>2
    <3>4. \A r, s \in changes : r.id = s.id => r = s
      BY DEF Ledger, IdsIssued
    <3> HIDE DEF new
    <3> QED
      BY <3>1, <3>3, <3>4
  <2>3. \A id \in committed' : id < nextId'
    BY <1>2, <1>3 DEF Ledger, IdsIssued
  <2>4. \A d \in Clients :
          /\ \A row \in picked'[d] : row.id < nextId'
          /\ \A r, s \in picked'[d] : r.id = s.id => r = s
          /\ \A id \in done'[d] : id < nextId'
    BY <1>2, <1>3 DEF Ledger, IdsIssued
  <2> QED
    BY <2>1, <2>2, <2>3, <2>4 DEF IdsIssued
<1>7. MarkedIffCommitted'
  <2>1. nextId \notin committed
    BY <1>3 DEF Ledger, IdsIssued
  <2> QED
    BY <1>1, <1>2, <2>1 DEF Ledger, MarkedIffCommitted
<1>8. \A row \in Pending' : row \in Pending \/ row.id = nextId
  BY <1>1 DEF Pending
<1>9. PendingIsYoung' /\ ListedIsYoung'
  BY <1>2, <1>8 DEF Ledger, IdsIssued, PendingIsYoung, ListedIsYoung
<1>10. ListedIsOldest'
  BY <1>2, <1>4, <1>8 DEF Ledger, IdsIssued, ListedIsOldest
<1> QED
  BY <1>5, <1>6, <1>7, <1>9, <1>10 DEF Ledger

LEMMA LedgerDiscard ==
  ASSUME Ledger, TypeOK', NEW c \in Clients, Discard(c)
  PROVE  Ledger'
<1>1. /\ changes' = { row \in changes : row.applied }
      /\ UNCHANGED <<nextId, committed, picked, done, applyMu, pc>>
  BY DEF Discard, process, call, history
<1>2. Pending' = {} /\ changes' \subseteq changes
  BY <1>1 DEF Pending
<1>3. ApplyHoldsMutex' /\ NothingListed'
  BY <1>1 DEF Ledger, ApplyHoldsMutex, NothingListed
<1>4. IdsIssued' /\ MarkedIffCommitted'
  BY <1>1, <1>2 DEF Ledger, IdsIssued, MarkedIffCommitted
<1>5. PendingIsYoung' /\ ListedIsYoung' /\ ListedIsOldest'
  BY <1>1, <1>2 DEF Ledger, PendingIsYoung, ListedIsYoung, ListedIsOldest
<1> QED
  BY <1>3, <1>4, <1>5 DEF Ledger

LEMMA LedgerList ==
  ASSUME Ledger, TypeOK', NEW c \in Clients, List(c)
  PROVE  Ledger'
<1>1. /\ pc[c] = "list" /\ pc' = [pc EXCEPT ![c] = "begin"]
      /\ picked' = [picked EXCEPT ![c] = Pending]
      /\ UNCHANGED <<changes, nextId, committed, done, applyMu>>
  BY DEF List, Go, disk, process, history
<1>2. pc \in [Clients -> Steps] /\ picked \in [Clients -> SUBSET ChangeRow]
  BY DEF Ledger, TypeOK
<1>3. pc'[c] = "begin" /\ picked'[c] = Pending /\ done[c] = {} /\ applyMu = c
  BY <1>1, <1>2 DEF Ledger, NothingListed, ApplyHoldsMutex, ApplySteps
<1>4. \A d \in Clients \ {c} : pc'[d] = pc[d] /\ picked'[d] = picked[d]
  BY <1>1, <1>2
<1>5. Pending' = Pending /\ Pending \subseteq changes
  BY <1>1 DEF Pending
<1>6. ApplyHoldsMutex' /\ NothingListed'
  BY <1>1, <1>3, <1>4 DEF Ledger, ApplyHoldsMutex, NothingListed
<1>7. IdsIssued' /\ MarkedIffCommitted'
  BY <1>1, <1>3, <1>4, <1>5 DEF Ledger, IdsIssued, MarkedIffCommitted
<1>8. PendingIsYoung' /\ ListedIsYoung'
  BY <1>1, <1>3, <1>4, <1>5 DEF Ledger, PendingIsYoung, ListedIsYoung
<1>9. ListedIsOldest'
  BY <1>1, <1>3, <1>4, <1>5 DEF Ledger, ListedIsOldest
<1> QED
  BY <1>6, <1>7, <1>8, <1>9 DEF Ledger

LEMMA LedgerApplyRow ==
  ASSUME Ledger, TypeOK', NEW c \in Clients, ApplyRow(c)
  PROVE  Ledger'
<1>1. PICK row \in Oldest(picked[c]) :
        /\ picked' = [picked EXCEPT ![c] = @ \ {row}]
        /\ done' = [done EXCEPT ![c] = @ \cup {row.id}]
  BY DEF ApplyRow
<1>2. pc[c] = "tx" /\ UNCHANGED <<changes, nextId, committed, applyMu, pc>>
  BY DEF ApplyRow, disk, process, history
<1>3. /\ picked \in [Clients -> SUBSET ChangeRow]
      /\ done \in [Clients -> SUBSET (Nat \ {0})]
  BY DEF Ledger, TypeOK
<1>4. picked'[c] = picked[c] \ {row} /\ done'[c] = done[c] \cup {row.id}
  BY <1>1, <1>3
<1>5. \A d \in Clients \ {c} : picked'[d] = picked[d] /\ done'[d] = done[d]
  BY <1>1, <1>3
<1>6. \A other \in picked[c] : other.id \in Nat /\ row.id \in Nat /\ row.id <= other.id
  BY <1>1, <1>3 DEF Oldest, ChangeRow
<1>7. \A other \in picked'[c] : row.id < other.id
  BY <1>1, <1>4, <1>6 DEF Ledger, IdsIssued, Oldest
<1>8. row \in picked[c]
  BY <1>1 DEF Oldest
<1>9. ApplyHoldsMutex' /\ NothingListed'
  BY <1>2, <1>5 DEF Ledger, ApplyHoldsMutex, NothingListed
<1>10. IdsIssued' /\ MarkedIffCommitted'
  BY <1>2, <1>4, <1>5, <1>8 DEF Ledger, IdsIssued, MarkedIffCommitted
<1>11. PendingIsYoung' /\ ListedIsYoung'
  BY <1>2, <1>4, <1>5, <1>7 DEF Ledger, PendingIsYoung, ListedIsYoung, Pending
<1>12. ListedIsOldest'
  BY <1>2, <1>4, <1>5, <1>8 DEF Ledger, ListedIsOldest, Pending
<1> QED
  BY <1>9, <1>10, <1>11, <1>12 DEF Ledger

LEMMA LedgerCommit ==
  ASSUME Ledger, TypeOK', NEW c \in Clients, Commit(c)
  PROVE  Ledger'
<1>1. /\ pc[c] = "tx" /\ pc' = [pc EXCEPT ![c] = "settings"]
      /\ picked[c] = {}
      /\ changes' = MarkApplied(done[c])
      /\ committed' = committed \cup done[c]
      /\ done' = [done EXCEPT ![c] = {}]
      /\ UNCHANGED <<nextId, picked, applyMu>>
  BY DEF Commit, Go
<1>2. /\ pc \in [Clients -> Steps] /\ done \in [Clients -> SUBSET (Nat \ {0})]
      /\ changes \subseteq ChangeRow
  BY DEF Ledger, TypeOK
<1>3. \A d \in Clients : pc'[d] \notin {"begin", "tx"} /\ done'[d] = {} /\ picked'[d] = {}
  <2>1. pc'[c] = "settings" /\ done'[c] = {} /\ picked'[c] = {}
    BY <1>1, <1>2
  <2>2. ASSUME NEW d \in Clients \ {c}
        PROVE  pc'[d] \notin {"begin", "tx"} /\ done'[d] = {} /\ picked'[d] = {}
    <3>1. pc[d] \notin {"begin", "tx"}
      BY <1>1, <2>2 DEF Ledger, ApplyHoldsMutex, ApplySteps
    <3> QED
      BY <1>1, <1>2, <3>1 DEF Ledger, NothingListed
  <2> QED
    BY <2>1, <2>2
<1>4. ApplyHoldsMutex'
  <2>1. \A d \in Clients : pc'[d] = pc[d] \/ pc'[d] = "settings"
    BY <1>1, <1>2
  <2> QED
    BY <1>1, <2>1 DEF Ledger, ApplyHoldsMutex, ApplySteps
<1>5. \A row \in changes' : \E old \in changes :
        /\ row = [old EXCEPT !.applied = @ \/ old.id \in done[c]]
        /\ row.id = old.id
        /\ row.applied <=> (old.applied \/ old.id \in done[c])
  BY <1>1, <1>2 DEF MarkApplied, ChangeRow
<1>6. IdsIssued'
  <2>1. \A row \in changes' : row.id < nextId'
    BY <1>1, <1>5 DEF Ledger, IdsIssued
  <2>2. \A r, s \in changes' : r.id = s.id => r = s
    <3> SUFFICES ASSUME NEW r \in changes', NEW s \in changes', r.id = s.id PROVE r = s
      OBVIOUS
    <3>1. PICK x \in changes : r = [x EXCEPT !.applied = @ \/ x.id \in done[c]] /\ r.id = x.id
      BY <1>5
    <3>2. PICK y \in changes : s = [y EXCEPT !.applied = @ \/ y.id \in done[c]] /\ s.id = y.id
      BY <1>5
    <3>3. x = y
      BY <3>1, <3>2 DEF Ledger, IdsIssued
    <3> QED
      BY <3>1, <3>2, <3>3, Zenon
  <2>3. \A id \in committed' : id < nextId'
    BY <1>1 DEF Ledger, IdsIssued
  <2> QED
    BY <1>3, <2>1, <2>2, <2>3 DEF IdsIssued
<1>7. MarkedIffCommitted'
  BY <1>1, <1>5 DEF Ledger, MarkedIffCommitted
<1>8. PendingIsYoung'
  <2> SUFFICES ASSUME NEW row \in Pending', NEW id \in committed'
               PROVE  id < row.id
    BY DEF PendingIsYoung
  <2>1. PICK old \in Pending : old.id = row.id /\ old.id \notin done[c]
    BY <1>5 DEF Pending
  <2>2. CASE id \in committed
    BY <2>1, <2>2 DEF Ledger, PendingIsYoung
  <2>3. CASE id \in done[c]
    BY <1>1, <2>1, <2>3 DEF Ledger, ListedIsOldest
  <2> QED
    BY <1>1, <2>2, <2>3
<1>9. ListedIsYoung' /\ ListedIsOldest' /\ NothingListed'
  BY <1>3 DEF ListedIsYoung, ListedIsOldest, NothingListed
<1> QED
  BY <1>4, <1>6, <1>7, <1>8, <1>9 DEF Ledger

LEMMA LedgerCrash ==
  ASSUME Ledger, TypeOK', Crash
  PROVE  Ledger'
<1>1. /\ \A d \in Clients : pc'[d] = "idle" /\ picked'[d] = {} /\ done'[d] = {}
      /\ UNCHANGED <<changes, nextId, committed>>
  BY DEF Crash, disk, history
<1>2. ApplyHoldsMutex' /\ NothingListed' /\ ListedIsYoung' /\ ListedIsOldest'
  BY <1>1 DEF ApplyHoldsMutex, ApplySteps, NothingListed, ListedIsYoung, ListedIsOldest
<1>3. IdsIssued' /\ MarkedIffCommitted' /\ PendingIsYoung'
  BY <1>1 DEF Ledger, IdsIssued, MarkedIffCommitted, PendingIsYoung, Pending
<1> QED
  BY <1>2, <1>3 DEF Ledger

\* A call that goes from one step to another, neither of them inside an apply, or
\* the first with the mutex just taken.
LEMMA LedgerGo ==
  ASSUME Ledger, TypeOK', NEW c \in Clients, NEW from, NEW to, Go(c, from, to),
         UNCHANGED <<changes, nextId, committed, picked, done>>,
         from \in {"begin", "tx"} <=> to \in {"begin", "tx"},
         \/ applyMu' = applyMu /\ (to \in ApplySteps => from \in ApplySteps)
         \/ applyMu = Free /\ applyMu' = c
  PROVE  Ledger'
<1>1. pc \in [Clients -> Steps]
  BY DEF Ledger, TypeOK
<1>2. pc[c] = from /\ pc'[c] = to
  BY <1>1 DEF Go
<1>3. \A d \in Clients \ {c} : pc'[d] = pc[d]
  BY <1>1 DEF Go
<1>4. ApplyHoldsMutex'
  BY <1>2, <1>3, StoreAssumption DEF Ledger, ApplyHoldsMutex
<1> QED
  BY <1>2, <1>3, <1>4, LedgerQuiet

LEMMA LedgerNext == Ledger /\ [Next]_vars => Ledger'
<1> SUFFICES ASSUME Ledger, [Next]_vars PROVE Ledger'
  OBVIOUS
<1>0. TypeOK'
  BY TypeNext DEF Ledger
<1>1. ASSUME NEW c \in Clients, Submit(c) PROVE Ledger'
  <2>1. /\ Go(c, "idle", "stage")
        /\ UNCHANGED <<changes, nextId, committed, picked, done, applyMu>>
    BY <1>1 DEF Submit, disk, process, history
  <2> QED
    BY <1>0, <2>1, LedgerGo DEF ApplySteps
<1>2. ASSUME NEW c \in Clients, Stage(c) PROVE Ledger'
  BY <1>0, <1>2, LedgerStage
<1>3. ASSUME NEW c \in Clients, Discard(c) PROVE Ledger'
  BY <1>0, <1>3, LedgerDiscard
<1>4. ASSUME NEW c \in Clients, StartApply(c) PROVE Ledger'
  <2>1. /\ Go(c, "idle", "acquire")
        /\ UNCHANGED <<changes, nextId, committed, picked, done, applyMu>>
    BY <1>4 DEF StartApply, disk, process, history
  <2> QED
    BY <1>0, <2>1, LedgerGo DEF ApplySteps
<1>5. ASSUME NEW c \in Clients, Acquire(c) PROVE Ledger'
  <2>1. /\ Go(c, "acquire", "list") /\ applyMu = Free /\ applyMu' = c
        /\ UNCHANGED <<changes, nextId, committed, picked, done>>
    BY <1>5 DEF Acquire, MutexAvailable, disk, history
  <2> QED
    BY <1>0, <2>1, LedgerGo
<1>6. ASSUME NEW c \in Clients, List(c) PROVE Ledger'
  BY <1>0, <1>6, LedgerList
<1>7. ASSUME NEW c \in Clients,
             NothingPending(c) \/ Disconnect(c) \/ Fail(c) \/ SaveProfile(c)
               \/ Publish(c) \/ RefuseRows(c)
      PROVE  Ledger'
  <2>1. Return(c) /\ UNCHANGED <<changes, nextId, committed>>
    BY <1>7 DEF NothingPending, Disconnect, Fail, SaveProfile, Publish, RefuseRows, disk, history
  <2> QED
    BY <1>0, <2>1, LedgerReturn
<1>8. ASSUME NEW c \in Clients, Begin(c) PROVE Ledger'
  <2>1. /\ Go(c, "begin", "tx")
        /\ UNCHANGED <<changes, nextId, committed, picked, done, applyMu>>
    BY <1>8 DEF Begin, disk, history
  <2> QED
    BY <1>0, <2>1, LedgerGo DEF ApplySteps
<1>9. ASSUME NEW c \in Clients, ApplyRow(c) PROVE Ledger'
  BY <1>0, <1>9, LedgerApplyRow
<1>10. ASSUME NEW c \in Clients, Commit(c) PROVE Ledger'
  BY <1>0, <1>10, LedgerCommit
<1>11. ASSUME NEW c \in Clients, NEW from \in LoadSteps, NEW to \in LoadSteps, NEW rows,
              Select(c, from, to, rows)
       PROVE  Ledger'
  <2>1. /\ Go(c, from, to)
        /\ UNCHANGED <<changes, nextId, committed, picked, done, applyMu>>
    BY <1>11 DEF Select, disk, process, history
  <2>2. from \notin ApplySteps /\ to \notin ApplySteps
    BY DEF ApplySteps, LoadSteps
  <2> QED
    BY <1>0, <2>1, <2>2, LedgerGo DEF ApplySteps
<1>12. ASSUME NEW c \in Clients, Load(c) PROVE Ledger'
  BY <1>7, <1>11, <1>12
  DEF Load, SelectSettings, SelectModels, SelectProviders, SelectOffers, SelectRoutes, LoadSteps
<1>13. ASSUME NEW c \in Clients, StartSave(c) PROVE Ledger'
  <2>1. /\ Go(c, "idle", "save")
        /\ UNCHANGED <<changes, nextId, committed, picked, done, applyMu>>
    BY <1>13 DEF StartSave, disk, process, history
  <2> QED
    BY <1>0, <2>1, LedgerGo DEF ApplySteps
<1>14. ASSUME NEW c \in Clients, SelectProfile(c) PROVE Ledger'
  <2>1. /\ Go(c, "idle", "seed")
        /\ UNCHANGED <<changes, nextId, committed, picked, done, applyMu>>
    BY <1>14 DEF SelectProfile, disk, process, history
  <2> QED
    BY <1>0, <2>1, LedgerGo DEF ApplySteps
<1>15. ASSUME NEW c \in Clients, SeedFromProfile(c) PROVE Ledger'
  <2>1. /\ Go(c, "seed", "settings")
        /\ UNCHANGED <<changes, nextId, committed, picked, done, applyMu>>
    BY <1>15 DEF SeedFromProfile, process, history
  <2> QED
    BY <1>0, <2>1, LedgerGo DEF ApplySteps
<1>16. CASE \/ \E c \in Clients : DeleteProfile(c) \/ RenameProfile(c)
            \/ Boot \/ BootFromYaml
            \/ UNCHANGED vars
  <2>1. UNCHANGED <<changes, nextId, committed, picked, done, pc, applyMu>>
    BY <1>16 DEF DeleteProfile, RenameProfile, Boot, BootFromYaml, Start, vars, disk, process, call, history
  <2>2. ApplyHoldsMutex'
    BY <2>1 DEF Ledger, ApplyHoldsMutex
  <2> QED
    BY <1>0, <2>1, <2>2, LedgerQuiet
<1>17. CASE Crash
  BY <1>0, <1>17, LedgerCrash
<1> QED
  BY <1>1, <1>2, <1>3, <1>4, <1>5, <1>6, <1>7, <1>8, <1>9, <1>10, <1>12, <1>13, <1>14,
     <1>15, <1>16, <1>17
  DEF Next, Call, Step

LEMMA LedgerCorrect == Spec => []Ledger
<1>1. Init => Ledger
  BY LedgerInit
<1>2. Ledger /\ [Next]_vars => Ledger'
  BY LedgerNext
<1> QED
  BY <1>1, <1>2, PTL DEF Spec

\* No row takes effect twice or out of the order it was staged in, for any number
\* of concurrent Apply, Discard and staging calls, failures and crashes.
THEOREM AppliedInStageOrder == Spec => []InStageOrder
<1>1. Ledger => InStageOrder
  BY DEF Ledger, ListedIsYoung, InStageOrder
<1> QED
  BY <1>1, LedgerCorrect, PTL

\* A row is marked applied exactly when its effect has been committed.
THEOREM MarksAreTrue == Spec => []MarkedIffCommitted
<1>1. Ledger => MarkedIffCommitted
  BY DEF Ledger
<1> QED
  BY <1>1, LedgerCorrect, PTL

-----------------------------------------------------------------------------
(***************************************************************************)
(* Whatever is served or saved is a config.                                *)
(***************************************************************************)

\* The runtime, the saved profiles, and what a save or an activation carries from
\* the one to the other, are configs.
OnlyConfigs ==
  /\ TypeOK
  /\ IsConfig(snapshot)
  /\ \A n \in ProfileNames : profiles[n] # Absent => IsConfig(profiles[n].cfg)
  /\ \A c \in Clients : pc[c] = "save" => IsConfig(buf[c])

LEMMA OnlyConfigsInit == Init => OnlyConfigs
  BY TypeInit, StoreAssumption DEF Init, OnlyConfigs

\* A step that saves no profile and begins no save.
LEMMA OnlyConfigsQuiet ==
  ASSUME OnlyConfigs, TypeOK', IsConfig(snapshot'),
         \A n \in ProfileNames : profiles'[n] # Absent => IsConfig(profiles'[n].cfg),
         \A c \in Clients : pc'[c] = "save" => pc[c] = "save" /\ buf'[c] = buf[c]
  PROVE  OnlyConfigs'
  BY DEF OnlyConfigs

LEMMA OnlyConfigsNext == OnlyConfigs /\ [Next]_vars => OnlyConfigs'
<1> SUFFICES ASSUME OnlyConfigs, [Next]_vars PROVE OnlyConfigs'
  OBVIOUS
<1>0. /\ TypeOK'
      /\ IsConfig(snapshot)
      /\ \A n \in ProfileNames : profiles[n] # Absent => IsConfig(profiles[n].cfg)
      /\ pc \in [Clients -> Steps] /\ buf \in [Clients -> Tables]
      /\ profiles \in [ProfileNames -> Profile \cup {Absent}]
  BY TypeNext DEF OnlyConfigs, TypeOK
<1>1. ASSUME NEW c \in Clients, Return(c), UNCHANGED profiles, IsConfig(snapshot')
      PROVE  OnlyConfigs'
  <2>1. \A d \in Clients : pc'[d] = "save" => pc[d] = "save" /\ buf'[d] = buf[d]
    BY <1>0, <1>1 DEF Return
  <2> QED
    BY <1>0, <1>1, <2>1, OnlyConfigsQuiet
<1>2. ASSUME NEW c \in Clients, NEW from, NEW to, Go(c, from, to), to # "save",
             UNCHANGED <<profiles, snapshot>>,
             \A d \in Clients \ {c} : buf'[d] = buf[d]
      PROVE  OnlyConfigs'
  <2>1. \A d \in Clients : pc'[d] = "save" => pc[d] = "save" /\ buf'[d] = buf[d]
    BY <1>0, <1>2 DEF Go
  <2> QED
    BY <1>0, <1>2, <2>1, OnlyConfigsQuiet
<1>3. ASSUME NEW c \in Clients,
             NothingPending(c) \/ Disconnect(c) \/ Fail(c) \/ RefuseRows(c)
      PROVE  OnlyConfigs'
  BY <1>0, <1>1, <1>3 DEF NothingPending, Disconnect, Fail, RefuseRows, disk
<1>4. ASSUME NEW c \in Clients, Publish(c) PROVE OnlyConfigs'
  <2>1. IsConfig(snapshot')
    BY <1>0, <1>4, OutcomesAreConfigs DEF Publish
  <2> QED
    BY <1>1, <1>4, <2>1 DEF Publish, disk
<1>5. ASSUME NEW c \in Clients, Submit(c) PROVE OnlyConfigs'
  <2>1. Go(c, "idle", "stage") /\ UNCHANGED <<profiles, snapshot, buf>>
    BY <1>5 DEF Submit, disk, process
  <2> QED
    BY <1>2, <2>1
<1>6. ASSUME NEW c \in Clients, StartApply(c) \/ Acquire(c) \/ List(c) PROVE OnlyConfigs'
  <2>1. /\ UNCHANGED <<profiles, snapshot, buf>>
        /\ Go(c, "idle", "acquire") \/ Go(c, "acquire", "list") \/ Go(c, "list", "begin")
    BY <1>6 DEF StartApply, Acquire, List, disk, process
  <2> QED
    BY <1>2, <2>1
<1>7. ASSUME NEW c \in Clients, Begin(c) \/ Commit(c) PROVE OnlyConfigs'
  <2>1. /\ UNCHANGED <<profiles, snapshot>>
        /\ \A d \in Clients \ {c} : buf'[d] = buf[d]
        /\ Go(c, "begin", "tx") \/ Go(c, "tx", "settings")
    BY <1>0, <1>7 DEF Begin, Commit, disk
  <2> QED
    BY <1>2, <2>1
<1>8. ASSUME NEW c \in Clients, NEW from, NEW to, NEW rows, to # "save",
             Select(c, from, to, rows)
      PROVE  OnlyConfigs'
  <2>1. /\ UNCHANGED <<profiles, snapshot>> /\ Go(c, from, to)
        /\ \A d \in Clients \ {c} : buf'[d] = buf[d]
    BY <1>0, <1>8 DEF Select, disk, process
  <2> QED
    BY <1>2, <1>8, <2>1
<1>9. ASSUME NEW c \in Clients, Load(c) PROVE OnlyConfigs'
  BY <1>3, <1>4, <1>8, <1>9
  DEF Load, SelectSettings, SelectModels, SelectProviders, SelectOffers, SelectRoutes
<1>10. ASSUME NEW c \in Clients, Stage(c) PROVE OnlyConfigs'
  <2>1. \A d \in Clients : pc'[d] = "save" => pc[d] = "save" /\ buf'[d] = buf[d]
    BY <1>0, <1>10 DEF Stage
  <2> QED
    BY <1>0, <1>10, <2>1, OnlyConfigsQuiet DEF Stage, process
<1>11. ASSUME NEW c \in Clients, ApplyRow(c) PROVE OnlyConfigs'
  <2>1. \A d \in Clients : pc'[d] = "save" => pc[d] = "save" /\ buf'[d] = buf[d]
    BY <1>0, <1>11 DEF ApplyRow
  <2> QED
    BY <1>0, <1>11, <2>1, OnlyConfigsQuiet DEF ApplyRow, disk, process
<1>12. ASSUME NEW c \in Clients, StartSave(c) PROVE OnlyConfigs'
  <2>1. \A d \in Clients : pc'[d] = "save" => IsConfig(buf'[d])
    BY <1>0, <1>12 DEF StartSave, ProfileSource, Go, OnlyConfigs
  <2> QED
    BY <1>0, <1>12, <2>1 DEF StartSave, OnlyConfigs, disk, process
<1>13. ASSUME NEW c \in Clients, SaveProfile(c) PROVE OnlyConfigs'
  <2>1. IsConfig(buf[c])
    BY <1>13 DEF SaveProfile, OnlyConfigs
  <2>2. \A n \in ProfileNames : profiles'[n] # Absent => IsConfig(profiles'[n].cfg)
    BY <1>0, <1>13, <2>1 DEF SaveProfile
  <2>3. \A d \in Clients : pc'[d] = "save" => pc[d] = "save" /\ buf'[d] = buf[d]
    BY <1>0, <1>13 DEF SaveProfile, Return
  <2> QED
    BY <1>0, <1>13, <2>2, <2>3, OnlyConfigsQuiet DEF SaveProfile
<1>14. ASSUME NEW c \in Clients, SelectProfile(c) PROVE OnlyConfigs'
  <2>1. /\ UNCHANGED <<profiles, snapshot>> /\ Go(c, "idle", "seed")
        /\ \A d \in Clients \ {c} : buf'[d] = buf[d]
    BY <1>0, <1>14 DEF SelectProfile, disk, process
  <2> QED
    BY <1>2, <2>1
<1>15. ASSUME NEW c \in Clients, SeedFromProfile(c) PROVE OnlyConfigs'
  <2>1. \A n \in ProfileNames : profiles'[n] # Absent => IsConfig(profiles'[n].cfg)
    <3>1. \A n \in ProfileNames : profiles'[n] # Absent =>
            profiles[n] # Absent /\ profiles'[n].cfg = profiles[n].cfg
      BY <1>0, <1>15 DEF SeedFromProfile, OnlyActive, Profile
    <3> QED
      BY <1>0, <3>1
  <2>2. \A d \in Clients : pc'[d] = "save" => pc[d] = "save" /\ buf'[d] = buf[d]
    BY <1>0, <1>15 DEF SeedFromProfile, Go
  <2> QED
    BY <1>0, <1>15, <2>1, <2>2, OnlyConfigsQuiet DEF SeedFromProfile, process
<1>16. ASSUME NEW c \in Clients, Discard(c) \/ DeleteProfile(c) \/ RenameProfile(c)
       PROVE  OnlyConfigs'
  <2>1. \A n \in ProfileNames : profiles'[n] # Absent => IsConfig(profiles'[n].cfg)
    BY <1>0, <1>16 DEF Discard, DeleteProfile, RenameProfile
  <2>2. UNCHANGED <<pc, buf, snapshot>>
    BY <1>16 DEF Discard, DeleteProfile, RenameProfile, call, process
  <2> QED
    BY <1>0, <2>1, <2>2, OnlyConfigsQuiet
<1>17. CASE Crash
  <2>1. \A c \in Clients : pc'[c] = "idle"
    BY <1>17 DEF Crash
  <2> QED
    BY <1>0, <1>17, <2>1, OnlyConfigsQuiet DEF Crash, disk
<1>18. CASE Boot \/ BootFromYaml
  <2>1. IsConfig(snapshot')
    BY <1>18, OutcomesAreConfigs, StoreAssumption DEF Boot, BootFromYaml, OnlyConfigs, TypeOK
  <2> QED
    BY <1>0, <1>18, <2>1, OnlyConfigsQuiet DEF Boot, BootFromYaml, Start, disk, call
<1>19. CASE UNCHANGED vars
  BY <1>0, <1>19, OnlyConfigsQuiet DEF vars, disk, process, call
<1> QED
  BY <1>3, <1>5, <1>6, <1>7, <1>9, <1>10, <1>11, <1>12, <1>13, <1>14, <1>15, <1>16, <1>17,
     <1>18, <1>19
  DEF Next, Call, Step

LEMMA OnlyConfigsCorrect == Spec => []OnlyConfigs
<1>1. Init => OnlyConfigs
  BY OnlyConfigsInit
<1>2. OnlyConfigs /\ [Next]_vars => OnlyConfigs'
  BY OnlyConfigsNext
<1> QED
  BY <1>1, <1>2, PTL DEF Spec

\* The live config never has a dangling reference.
THEOREM LiveConfigIsSound == Spec => []LiveConfigSound
<1>1. OnlyConfigs => LiveConfigSound
  <2> SUFFICES ASSUME OnlyConfigs PROVE LiveConfigSound
    OBVIOUS
  <2>1. IsConfig(snapshot) /\ snapshot \in Tables
    BY DEF OnlyConfigs, TypeOK
  <2>2. ASSUME NEW r \in Routes, snapshot.routes[r] # Absent
        PROVE  LET p == snapshot.routes[r].provider
               IN p \in Providers /\ snapshot.providers[p] \in [url: Values, key: Values]
    <3>1. snapshot.routes[r] \in RouteRow
      BY <2>1, <2>2 DEF Tables
    <3>2. /\ snapshot.routes[r].provider \in Providers
          /\ HasProvider(snapshot, snapshot.routes[r].provider)
      BY <2>1, <2>2, <3>1 DEF IsConfig, Valid, ValidRoutes, RouteRow
    <3>3. snapshot.providers[snapshot.routes[r].provider] \in ProviderRow
      BY <2>1, <3>2 DEF Tables, HasProvider
    <3> QED
      BY <2>1, <3>2, <3>3 DEF IsConfig, Valid, ValidProviders, ProviderRow, Value
  <2>3. \A o \in snapshot.offers : o[2] \in snapshot.models /\ HasProvider(snapshot, o[1])
    BY <2>1 DEF IsConfig, Valid, ValidProviders
  <2> QED
    BY <2>2, <2>3 DEF LiveConfigSound
<1> QED
  BY <1>1, OnlyConfigsCorrect, PTL

\* Every saved profile can be loaded again.
THEOREM ProfilesCanBeLoaded == Spec => []ProfilesLoadable
<1>1. OnlyConfigs => ProfilesLoadable
  BY ConfigsAreLoadable DEF OnlyConfigs, ProfilesLoadable
<1> QED
  BY <1>1, OnlyConfigsCorrect, PTL

-----------------------------------------------------------------------------
(***************************************************************************)
(* One active profile.                                                     *)
(***************************************************************************)

LEMMA OneActiveNext == TypeOK /\ OneActiveProfile /\ [Next]_vars => OneActiveProfile'
<1> SUFFICES ASSUME TypeOK, OneActiveProfile, [Next]_vars PROVE OneActiveProfile'
  OBVIOUS
<1>0. profiles \in [ProfileNames -> Profile \cup {Absent}]
  BY DEF TypeOK
<1>1. CASE UNCHANGED profiles
  BY <1>1 DEF OneActiveProfile
<1>2. ASSUME NEW c \in Clients, SaveProfile(c) PROVE OneActiveProfile'
  <2>1. ASSUME NEW n \in ProfileNames, profiles'[n] # Absent, profiles'[n].active
        PROVE  profiles[n] # Absent /\ profiles[n].active
    BY <1>0, <1>2, <2>1 DEF SaveProfile
  <2> QED
    BY <2>1 DEF OneActiveProfile
<1>3. ASSUME NEW c \in Clients, SeedFromProfile(c) PROVE OneActiveProfile'
  <2>1. ASSUME NEW n \in ProfileNames, profiles'[n] # Absent, profiles'[n].active
        PROVE  n = name[c]
    BY <1>0, <1>3, <2>1 DEF SeedFromProfile, OnlyActive, Profile
  <2> QED
    BY <2>1 DEF OneActiveProfile
<1>4. ASSUME NEW c \in Clients, DeleteProfile(c) PROVE OneActiveProfile'
  BY <1>0, <1>4 DEF DeleteProfile, OneActiveProfile
<1>5. ASSUME NEW c \in Clients, RenameProfile(c) PROVE OneActiveProfile'
  <2>1. PICK old, new \in ProfileNames :
          /\ profiles[old] # Absent /\ profiles[new] = Absent
          /\ profiles' = [profiles EXCEPT ![new] = profiles[old], ![old] = Absent]
    BY <1>5 DEF RenameProfile
  <2>2. \A n \in ProfileNames :
          profiles'[n] = IF n = old THEN Absent
                         ELSE IF n = new THEN profiles[old] ELSE profiles[n]
    BY <1>0, <2>1
  <2> QED
    BY <2>1, <2>2 DEF OneActiveProfile
<1>6. ASSUME NEW c \in Clients, Load(c) PROVE UNCHANGED profiles
  BY <1>6 DEF Load, SelectSettings, SelectModels, SelectProviders, SelectOffers, SelectRoutes,
              Select, Publish, RefuseRows, disk
<1>7. ASSUME NEW c \in Clients,
             \/ Submit(c) \/ Stage(c) \/ Discard(c) \/ StartApply(c) \/ Acquire(c) \/ List(c)
             \/ NothingPending(c) \/ Begin(c) \/ ApplyRow(c) \/ Commit(c) \/ Disconnect(c)
             \/ Fail(c) \/ StartSave(c) \/ SelectProfile(c)
      PROVE  UNCHANGED profiles
  BY <1>7 DEF Submit, Stage, Discard, StartApply, Acquire, List, NothingPending, Begin,
              ApplyRow, Commit, Disconnect, Fail, StartSave, SelectProfile, disk
<1>8. Crash \/ Boot \/ BootFromYaml \/ UNCHANGED vars => UNCHANGED profiles
  BY DEF Crash, Boot, BootFromYaml, Start, vars, disk
<1> QED
  BY <1>1, <1>2, <1>3, <1>4, <1>5, <1>6, <1>7, <1>8 DEF Next, Call, Step

\* Saves, renames, deletions and concurrent activations leave at most one profile
\* marked active.
THEOREM AtMostOneActive == Spec => []OneActiveProfile
<1>1. Init => OneActiveProfile
  BY DEF Init, OneActiveProfile
<1>2. TypeOK /\ OneActiveProfile /\ [Next]_vars => OneActiveProfile'
  BY OneActiveNext
<1> QED
  BY <1>1, <1>2, TypeCorrect, PTL DEF Spec

-----------------------------------------------------------------------------
(***************************************************************************)
(* Without profiles the store implements LiveConfig.                       *)
(***************************************************************************)

\* The holder of the mutex alone commits and loads, so what it has read so far is
\* what the tables still hold.
ReadSoFar(c) ==
  /\ pc[c] \in {"models", "providers", "offers", "routes", "publish"} =>
       buf[c].settings = tables.settings
  /\ pc[c] \in {"providers", "offers", "routes", "publish"} => buf[c].models = tables.models
  /\ pc[c] \in {"offers", "routes", "publish"} => buf[c].providers = tables.providers
  /\ pc[c] \in {"routes", "publish"} => buf[c].offers = tables.offers
  /\ pc[c] = "publish" => buf[c].routes = tables.routes

Loading ==
  /\ TypeOK
  /\ \A c \in Clients : pc[c] \in ApplySteps \cup LoadSteps => applyMu = c
  /\ \A c \in Clients : pc[c] \notin {"save", "seed"}
  /\ \A c \in Clients : ReadSoFar(c)

LEMMA LoadingInit == Init => Loading
  BY TypeInit DEF Init, Loading, ReadSoFar, ApplySteps, LoadSteps

\* A call that stays outside of loading, or leaves it.
LEMMA LoadingQuiet ==
  ASSUME Loading, TypeOK', UNCHANGED tables,
         \A c \in Clients :
           \/ pc'[c] = pc[c] /\ (pc[c] \in LoadSteps => buf'[c] = buf[c])
                /\ (applyMu = c => applyMu' = c)
           \/ pc'[c] \in {"idle", "stage", "acquire"}
           \/ pc'[c] \in ApplySteps /\ applyMu' = c
  PROVE  Loading'
<1>1. \A c \in Clients : pc'[c] \in ApplySteps \cup LoadSteps => applyMu' = c
  BY DEF Loading, ApplySteps, LoadSteps
<1>2. \A c \in Clients : pc'[c] \notin {"save", "seed"}
  BY DEF Loading, ApplySteps
<1>3. \A c \in Clients : ReadSoFar(c)'
  BY DEF Loading, ReadSoFar, ApplySteps, LoadSteps
<1> QED
  BY <1>1, <1>2, <1>3 DEF Loading

LEMMA LoadingNext == ProfileNames = {} /\ Loading /\ [Next]_vars => Loading'
<1> SUFFICES ASSUME ProfileNames = {}, Loading, [Next]_vars PROVE Loading'
  OBVIOUS
<1>0. /\ TypeOK'
      /\ pc \in [Clients -> Steps] /\ buf \in [Clients -> Tables] /\ tables \in Tables
  BY TypeNext DEF Loading, TypeOK
<1>1. ASSUME NEW c \in Clients, Return(c), UNCHANGED tables PROVE Loading'
  <2>1. pc'[c] = "idle"
    BY <1>0, <1>1 DEF Return
  <2>2. \A d \in Clients \ {c} :
          pc'[d] = pc[d] /\ buf'[d] = buf[d] /\ (applyMu = d => applyMu' = d)
    BY <1>0, <1>1 DEF Return, ReleasedBy
  <2> QED
    BY <1>0, <1>1, <2>1, <2>2, LoadingQuiet
<1>2. ASSUME NEW c \in Clients, NEW from, NEW to, Go(c, from, to),
             UNCHANGED <<tables, buf>>,
             \/ applyMu' = applyMu /\ to \in {"stage", "acquire"}
             \/ applyMu' = applyMu /\ to \in ApplySteps /\ from \in ApplySteps
             \/ applyMu = Free /\ applyMu' = c /\ to \in ApplySteps
      PROVE  Loading'
  <2>1. pc[c] = from /\ pc'[c] = to
    BY <1>0, <1>2 DEF Go
  <2>2. \A d \in Clients \ {c} : pc'[d] = pc[d] /\ (applyMu = d => applyMu' = d)
    BY <1>0, <1>2, StoreAssumption DEF Go
  <2>3. pc'[c] \in {"stage", "acquire"} \/ (pc'[c] \in ApplySteps /\ applyMu' = c)
    BY <1>2, <2>1 DEF Loading
  <2> QED
    BY <1>0, <1>2, <2>2, <2>3, LoadingQuiet
<1>3. ASSUME NEW c \in Clients,
             NothingPending(c) \/ Disconnect(c) \/ Fail(c) \/ Publish(c) \/ RefuseRows(c)
      PROVE  Loading'
  BY <1>1, <1>3 DEF NothingPending, Disconnect, Fail, Publish, RefuseRows, disk
<1>4. ASSUME NEW c \in Clients, Submit(c) \/ StartApply(c) \/ Acquire(c) \/ List(c)
      PROVE  Loading'
  <2>1. /\ UNCHANGED <<tables, buf>>
        /\ \/ Go(c, "idle", "stage") /\ applyMu' = applyMu
           \/ Go(c, "idle", "acquire") /\ applyMu' = applyMu
           \/ Go(c, "acquire", "list") /\ applyMu = Free /\ applyMu' = c
           \/ Go(c, "list", "begin") /\ applyMu' = applyMu
    BY <1>4 DEF Submit, StartApply, Acquire, MutexAvailable, List, disk, process
  <2>2. "list" \in ApplySteps /\ "begin" \in ApplySteps
    BY DEF ApplySteps
  <2> QED
    BY <1>2, <2>1, <2>2
<1>5. ASSUME NEW c \in Clients, Stage(c) PROVE Loading'
  <2>1. UNCHANGED <<tables, buf, applyMu>>
    BY <1>5 DEF Stage, process
  <2>2. \A d \in Clients : pc'[d] = pc[d] \/ pc'[d] \in {"idle", "stage"}
    BY <1>0, <1>5 DEF Stage
  <2> QED
    BY <1>0, <2>1, <2>2, LoadingQuiet
<1>6. ASSUME NEW c \in Clients, Begin(c) \/ ApplyRow(c) PROVE Loading'
  <2>1. UNCHANGED <<tables, applyMu>> /\ pc[c] \in ApplySteps /\ pc'[c] = "tx"
    BY <1>0, <1>6 DEF Begin, ApplyRow, Go, ApplySteps, disk, process
  <2>2. \A d \in Clients \ {c} : pc'[d] = pc[d] /\ buf'[d] = buf[d]
    BY <1>0, <1>6 DEF Begin, ApplyRow, Go
  <2>3. applyMu' = c /\ pc'[c] \in ApplySteps
    BY <2>1 DEF Loading, ApplySteps
  <2> QED
    BY <1>0, <2>1, <2>2, <2>3, LoadingQuiet
<1>7. ASSUME NEW c \in Clients, Commit(c) PROVE Loading'
  <2>1. pc[c] = "tx" /\ applyMu' = applyMu /\ pc' = [pc EXCEPT ![c] = "settings"]
    BY <1>7 DEF Commit, Go
  <2>2. applyMu = c
    BY <2>1 DEF Loading, ApplySteps
  <2>3. \A d \in Clients \ {c} : pc'[d] = pc[d] /\ pc[d] \notin ApplySteps \cup LoadSteps
    BY <1>0, <2>1, <2>2 DEF Loading
  <2>4. pc'[c] = "settings"
    BY <1>0, <2>1
  <2>5. \A d \in Clients : ReadSoFar(d)'
    BY <2>3, <2>4 DEF ReadSoFar, LoadSteps
  <2>6. \A d \in Clients : pc'[d] \notin {"save", "seed"}
    BY <2>3, <2>4 DEF Loading
  <2> QED
    BY <1>0, <2>1, <2>2, <2>3, <2>4, <2>5, <2>6 DEF Loading
<1>8. ASSUME NEW c \in Clients, Load(c) PROVE Loading'
  <2>1. CASE Publish(c) \/ RefuseRows(c)
    BY <1>3, <2>1
  <2>2. ASSUME NEW from \in LoadSteps, NEW to \in LoadSteps, NEW rows \in Tables,
               Select(c, from, to, rows), ReadSoFar(c)'
        PROVE  Loading'
    <3>1. UNCHANGED <<tables, applyMu>> /\ pc[c] = from /\ pc'[c] = to /\ applyMu = c
      BY <1>0, <2>2 DEF Select, Go, Loading, disk, process
    <3>2. \A d \in Clients \ {c} : pc'[d] = pc[d] /\ buf'[d] = buf[d]
      BY <1>0, <2>2 DEF Select, Go
    <3>3. \A d \in Clients : ReadSoFar(d)'
      BY <2>2, <3>1, <3>2 DEF Loading, ReadSoFar
    <3>4. \A d \in Clients : pc'[d] \notin {"save", "seed"}
      BY <3>1, <3>2 DEF Loading, LoadSteps
    <3> QED
      BY <1>0, <3>1, <3>2, <3>3, <3>4 DEF Loading
  <2>3. ReadSoFar(c) /\ buf[c] \in Tables
    BY <1>0 DEF Loading
  <2>4. CASE SelectSettings(c)
    <3>1. pc'[c] = "models" /\ tables' = tables
          /\ buf'[c] = [buf[c] EXCEPT !.settings = tables.settings]
      BY <1>0, <2>4 DEF SelectSettings, Select, Go, disk
    <3>2. ReadSoFar(c)' /\ buf'[c] \in Tables
      BY <1>0, <2>3, <3>1 DEF ReadSoFar, Tables
    <3> QED
      BY <1>0, <2>2, <2>4, <3>1, <3>2 DEF SelectSettings, LoadSteps, Select
  <2>5. CASE SelectModels(c)
    <3>1. pc[c] = "models" /\ pc'[c] = "providers" /\ tables' = tables
          /\ buf'[c] = [buf[c] EXCEPT !.models = tables.models]
      BY <1>0, <2>5 DEF SelectModels, Select, Go, disk
    <3>2. ReadSoFar(c)' /\ buf'[c] \in Tables
      BY <1>0, <2>3, <3>1 DEF ReadSoFar, Tables
    <3> QED
      BY <1>0, <2>2, <2>5, <3>1, <3>2 DEF SelectModels, LoadSteps, Select
  <2>6. CASE SelectProviders(c)
    <3>1. pc[c] = "providers" /\ pc'[c] = "offers" /\ tables' = tables
          /\ buf'[c] = [buf[c] EXCEPT !.providers = tables.providers]
      BY <1>0, <2>6 DEF SelectProviders, Select, Go, disk
    <3>2. ReadSoFar(c)' /\ buf'[c] \in Tables
      BY <1>0, <2>3, <3>1 DEF ReadSoFar, Tables
    <3> QED
      BY <1>0, <2>2, <2>6, <3>1, <3>2 DEF SelectProviders, LoadSteps, Select
  <2>7. CASE SelectOffers(c)
    <3>1. pc[c] = "offers" /\ pc'[c] = "routes" /\ tables' = tables
          /\ buf'[c] = [buf[c] EXCEPT !.offers = tables.offers]
      BY <1>0, <2>7 DEF SelectOffers, Select, Go, disk
    <3>2. ReadSoFar(c)' /\ buf'[c] \in Tables
      BY <1>0, <2>3, <3>1 DEF ReadSoFar, Tables
    <3> QED
      BY <1>0, <2>2, <2>7, <3>1, <3>2 DEF SelectOffers, LoadSteps, Select
  <2>8. CASE SelectRoutes(c)
    <3>1. pc[c] = "routes" /\ pc'[c] = "publish" /\ tables' = tables
          /\ buf'[c] = [buf[c] EXCEPT !.routes = tables.routes]
      BY <1>0, <2>8 DEF SelectRoutes, Select, Go, disk
    <3>2. ReadSoFar(c)' /\ buf'[c] \in Tables
      BY <1>0, <2>3, <3>1 DEF ReadSoFar, Tables
    <3> QED
      BY <1>0, <2>2, <2>8, <3>1, <3>2 DEF SelectRoutes, LoadSteps, Select
  <2> QED
    BY <1>8, <2>1, <2>4, <2>5, <2>6, <2>7, <2>8 DEF Load
<1>9. ASSUME NEW c \in Clients
      PROVE  ~SaveProfile(c) /\ ~SeedFromProfile(c) /\ ~StartSave(c) /\ ~SelectProfile(c)
             /\ ~DeleteProfile(c) /\ ~RenameProfile(c)
  BY DEF SaveProfile, SeedFromProfile, StartSave, SelectProfile, DeleteProfile, RenameProfile,
         Go, Loading
<1>10. CASE \/ \E c \in Clients : Discard(c)
            \/ Boot \/ BootFromYaml
            \/ UNCHANGED vars
  <2>1. UNCHANGED <<tables, pc, buf, applyMu>>
    BY <1>10 DEF Discard, Boot, BootFromYaml, Start, vars, disk, process, call
  <2> QED
    BY <1>0, <2>1, LoadingQuiet
<1>11. CASE Crash
  <2>1. UNCHANGED tables /\ \A c \in Clients : pc'[c] = "idle"
    BY <1>11 DEF Crash, disk
  <2> QED
    BY <1>0, <2>1, LoadingQuiet
<1> QED
  BY <1>3, <1>4, <1>5, <1>6, <1>7, <1>8, <1>9, <1>10, <1>11 DEF Next, Call, Step

\* What a call publishes is what LoadAll makes of the committed rows.
LEMMA PublishesTables ==
  ASSUME Loading, NEW c \in Clients, pc[c] = "publish"
  PROVE  buf[c] = tables
<1>1. buf[c] \in Tables /\ tables \in Tables
  BY DEF Loading, TypeOK
<1>2. /\ buf[c].settings = tables.settings /\ buf[c].models = tables.models
      /\ buf[c].providers = tables.providers /\ buf[c].offers = tables.offers
      /\ buf[c].routes = tables.routes
  BY DEF Loading, ReadSoFar
<1> QED
  BY <1>1, <1>2 DEF Tables

\* LiveConfig has its own copy of ConfigTables, with the same meaning.
LEMMA SameOutcomes == \A t : Live!Outcomes(t) = Outcomes(t) /\ Live!Loadable(t) = Loadable(t)
<1>1. \A t : Live!Loaded(t) = Loaded(t)
  BY DEF Live!Loaded, Loaded, Live!LoadedProviders, LoadedProviders, Live!OffersOf, OffersOf,
         Live!RouteChoices, RouteChoices, Live!Offering, Offering, Live!RouteRow, RouteRow
<1>2. \A c : Live!Valid(c) = Valid(c)
  BY DEF Live!Valid, Valid, Live!ValidProviders, ValidProviders, Live!ValidRoutes, ValidRoutes,
         Live!HasProvider, HasProvider
<1> QED
  BY <1>1, <1>2 DEF Live!Outcomes, Outcomes, Live!Loadable, Loadable

LEMMA LiveStep ==
  ASSUME ProfileNames = {}, Loading, [Next]_vars
  PROVE  [Live!LiveNext]_(Live!liveVars)
<1>1. CASE up /\ UNCHANGED <<snapshot, up, unpublished>>
  BY <1>1 DEF Live!LiveNext, Live!CommitRows
<1>2. ASSUME NEW c \in Clients, Publish(c) PROVE Live!Publish
  <2>1. snapshot' \in Outcomes(tables)
    BY <1>2, PublishesTables DEF Publish
  <2> QED
    BY <1>2, <2>1, SameOutcomes DEF Live!Publish, Publish, disk
<1>3. CASE Boot \/ BootFromYaml
  BY <1>3, SameOutcomes DEF Live!LiveNext, Live!Start, Boot, BootFromYaml, Start, disk
<1>4. ASSUME NEW c \in Clients, Load(c)
      PROVE  Publish(c) \/ RefuseRows(c) \/ (up /\ UNCHANGED <<snapshot, up, unpublished>>)
  BY <1>4 DEF Load, SelectSettings, SelectModels, SelectProviders, SelectOffers, SelectRoutes,
              Select, Go, process, history
<1>5. ASSUME NEW c \in Clients,
             \/ Submit(c) \/ Stage(c) \/ Discard(c) \/ StartApply(c) \/ Acquire(c) \/ List(c)
             \/ NothingPending(c) \/ Begin(c) \/ ApplyRow(c) \/ Commit(c) \/ Disconnect(c)
             \/ StartSave(c) \/ SaveProfile(c) \/ SelectProfile(c)
             \/ SeedFromProfile(c) \/ DeleteProfile(c) \/ RenameProfile(c)
      PROVE  up /\ UNCHANGED <<snapshot, up, unpublished>>
  BY <1>5 DEF Submit, Stage, Discard, StartApply, Acquire, List, NothingPending, Begin, ApplyRow,
              Commit, Disconnect, StartSave, SaveProfile, SelectProfile, SeedFromProfile,
              DeleteProfile, RenameProfile, Go, process, history
<1>6. ASSUME NEW c \in Clients, RefuseRows(c) PROVE Live!LoadFails
  BY <1>6 DEF RefuseRows, Live!LoadFails, disk
<1>7. ASSUME NEW c \in Clients, Fail(c)
      PROVE  Live!LoadFails \/ (up /\ UNCHANGED <<snapshot, up, unpublished>>)
  <2>1. up /\ UNCHANGED <<tables, snapshot, up>> /\ unpublished' = (unpublished \/ pc[c] \in LoadSteps)
    BY <1>7 DEF Fail, disk
  <2>2. CASE pc[c] \in LoadSteps
    BY <2>1, <2>2 DEF Live!LoadFails
  <2>3. CASE pc[c] \notin LoadSteps
    <3>1. unpublished \in BOOLEAN
      BY DEF Loading, TypeOK
    <3>2. unpublished' = unpublished
      BY <2>1, <2>3, <3>1
    <3> QED
      BY <2>1, <3>2
  <2> QED
    BY <2>2, <2>3
<1>8. CASE Crash
  BY <1>8 DEF Crash, disk, history, Live!Stop, Live!LiveNext
<1>9. CASE UNCHANGED vars
  BY <1>9 DEF vars, disk, process, history, Live!liveVars
<1> QED
  BY <1>1, <1>2, <1>3, <1>4, <1>5, <1>6, <1>7, <1>8, <1>9 DEF Next, Call, Step, Live!LiveNext

\* A process that is up, whose last load has not failed and that is not loading
\* serves the committed rows.
LEMMA ServesNext ==
  ProfileNames = {} /\ Loading /\ ServesCommittedRows /\ [Next]_vars => ServesCommittedRows'
<1> SUFFICES ASSUME ProfileNames = {}, Loading, ServesCommittedRows, [Next]_vars
             PROVE  ServesCommittedRows'
  OBVIOUS
<1>0. pc \in [Clients -> Steps]
  BY DEF Loading, TypeOK
<1>1. ASSUME UNCHANGED <<tables, snapshot, up>>,
             unpublished' = FALSE => unpublished = FALSE,
             unpublished \in BOOLEAN, unpublished' \in BOOLEAN,
             \A c \in Clients : pc[c] \in LoadSteps => pc'[c] \in LoadSteps \/ unpublished'
      PROVE  ServesCommittedRows'
  BY <1>1 DEF ServesCommittedRows
<1>2. unpublished \in BOOLEAN /\ unpublished' \in BOOLEAN
  BY TypeNext DEF Loading, TypeOK
<1>3. ASSUME NEW c \in Clients, Publish(c) PROVE ServesCommittedRows'
  <2>1. snapshot' \in Outcomes(tables) /\ tables' = tables
    BY <1>3, PublishesTables DEF Publish, disk
  <2> QED
    BY <2>1 DEF ServesCommittedRows
<1>4. ASSUME NEW c \in Clients, NEW from, NEW to, Go(c, from, to), from \notin LoadSteps,
             UNCHANGED <<tables, snapshot, unpublished>>
      PROVE  ServesCommittedRows'
  <2>1. up' = up \/ ~up'
    BY <1>4 DEF Go
  <2>2. \A d \in Clients : pc[d] \in LoadSteps => pc'[d] \in LoadSteps
    BY <1>0, <1>4 DEF Go
  <2> QED
    BY <1>4, <2>1, <2>2 DEF ServesCommittedRows, Go
<1>5. ASSUME NEW c \in Clients, Return(c), UNCHANGED <<tables, snapshot, up>>,
             unpublished' = (unpublished \/ pc[c] \in LoadSteps)
      PROVE  ServesCommittedRows'
  <2>1. \A d \in Clients : pc[d] \in LoadSteps => pc'[d] \in LoadSteps \/ unpublished'
    BY <1>0, <1>5 DEF Return
  <2> QED
    BY <1>1, <1>2, <1>5, <2>1
<1>6. ASSUME NEW c \in Clients,
             NothingPending(c) \/ Disconnect(c) \/ Fail(c) \/ RefuseRows(c)
      PROVE  ServesCommittedRows'
  <2>1. {"list", "begin", "tx"} \cap LoadSteps = {} /\ "publish" \in LoadSteps
    BY DEF LoadSteps
  <2>2. Return(c) /\ UNCHANGED <<tables, snapshot, up>>
    BY <1>6 DEF NothingPending, Disconnect, Fail, RefuseRows, disk
  <2>3. unpublished' = (unpublished \/ pc[c] \in LoadSteps)
    <3>1. CASE NothingPending(c) \/ Disconnect(c)
      <4>1. pc[c] \notin LoadSteps /\ unpublished' = unpublished
        BY <2>1, <3>1 DEF NothingPending, Disconnect, history
      <4> QED
        BY <1>2, <4>1
    <3>2. CASE RefuseRows(c)
      BY <2>1, <3>2 DEF RefuseRows
    <3>3. CASE Fail(c)
      BY <3>3 DEF Fail
    <3> QED
      BY <1>6, <3>1, <3>2, <3>3
  <2> QED
    BY <1>5, <2>2, <2>3
<1>7. ASSUME NEW c \in Clients,
             Submit(c) \/ StartApply(c) \/ Acquire(c) \/ List(c) \/ Begin(c)
      PROVE  ServesCommittedRows'
  <2>1. \E from \in {"idle", "acquire", "list", "begin"}, to \in Steps : Go(c, from, to)
    BY <1>7 DEF Submit, StartApply, Acquire, List, Begin, Steps, Statements, ApplySteps
  <2>2. UNCHANGED <<tables, snapshot, unpublished>>
    BY <1>7 DEF Submit, StartApply, Acquire, List, Begin, disk, process, history
  <2>3. {"idle", "acquire", "list", "begin"} \cap LoadSteps = {}
    BY DEF LoadSteps
  <2> QED
    BY <1>4, <2>1, <2>2, <2>3
<1>8. ASSUME NEW c \in Clients, Stage(c) \/ Discard(c) \/ ApplyRow(c)
      PROVE  ServesCommittedRows'
  <2>1. UNCHANGED <<tables, snapshot, up, unpublished>>
    BY <1>8 DEF Stage, Discard, ApplyRow, disk, process, history
  <2>2. \A d \in Clients : pc[d] \in LoadSteps => pc'[d] = pc[d]
    BY <1>0, <1>8 DEF Stage, Discard, ApplyRow, call, LoadSteps
  <2> QED
    BY <1>1, <1>2, <2>1, <2>2
<1>9. ASSUME NEW c \in Clients, Commit(c) PROVE ServesCommittedRows'
  <2>1. pc'[c] \in LoadSteps
    BY <1>0, <1>9 DEF Commit, Go, LoadSteps
  <2> QED
    BY <2>1 DEF ServesCommittedRows
<1>10. ASSUME NEW c \in Clients,
              \/ SelectSettings(c) \/ SelectModels(c) \/ SelectProviders(c)
              \/ SelectOffers(c) \/ SelectRoutes(c)
       PROVE  ServesCommittedRows'
  <2>1. \E from, to \in LoadSteps : Go(c, from, to)
    BY <1>10 DEF SelectSettings, SelectModels, SelectProviders, SelectOffers, SelectRoutes,
                 Select, LoadSteps
  <2>2. UNCHANGED <<tables, snapshot, up, unpublished>>
    BY <1>10 DEF SelectSettings, SelectModels, SelectProviders, SelectOffers, SelectRoutes,
                 Select, disk, process, history
  <2>3. \A d \in Clients : pc[d] \in LoadSteps => pc'[d] \in LoadSteps
    BY <1>0, <2>1 DEF Go
  <2> QED
    BY <1>1, <1>2, <2>2, <2>3
<1>11. ASSUME NEW c \in Clients
       PROVE  ~SaveProfile(c) /\ ~SeedFromProfile(c) /\ ~StartSave(c) /\ ~SelectProfile(c)
              /\ ~DeleteProfile(c) /\ ~RenameProfile(c)
  BY DEF SaveProfile, SeedFromProfile, StartSave, SelectProfile, DeleteProfile, RenameProfile,
         Go, Loading
<1>12. CASE Crash
  BY <1>12 DEF Crash, ServesCommittedRows
<1>13. CASE Boot \/ BootFromYaml
  BY <1>13 DEF Boot, BootFromYaml, Start, disk, ServesCommittedRows
<1>14. CASE UNCHANGED vars
  BY <1>2, <1>14 DEF vars, disk, process, call, history, ServesCommittedRows
<1> QED
  BY <1>3, <1>6, <1>7, <1>8, <1>9, <1>10, <1>11, <1>12, <1>13, <1>14
     DEF Next, Call, Step, Load

\* Without profiles, a process in which no call is loading and whose last load has
\* not failed, at the start or after a commit, serves the rows that are committed.
THEOREM ServesWhatIsCommitted == ASSUME ProfileNames = {} PROVE Spec => []ServesCommittedRows
<1>1. Init => Loading /\ ServesCommittedRows
  BY LoadingInit DEF Init, ServesCommittedRows
<1>2. Loading /\ ServesCommittedRows /\ [Next]_vars => (Loading /\ ServesCommittedRows)'
  BY LoadingNext, ServesNext
<1> QED
  BY <1>1, <1>2, PTL DEF Spec

\* Without profiles, every change of the live config while the process runs is to a
\* whole config loaded from the rows committed at that moment, and a load that fails,
\* at the start too, is answered or logged: the store implements LiveConfig.
THEOREM StoreImplementsLiveConfig == ASSUME ProfileNames = {} PROVE Spec => ImplementsLiveConfig
<1>1. Init => Loading /\ Live!LiveInit
  BY LoadingInit DEF Init, Live!LiveInit
<1>2. Loading /\ [Next]_vars => Loading' /\ [Live!LiveNext]_(Live!liveVars)
  BY LoadingNext, LiveStep
<1> QED
  BY <1>1, <1>2, PTL DEF Spec, ImplementsLiveConfig, Live!LiveSpec
=============================================================================

--------------------------- MODULE ConfigTables ---------------------------
(***************************************************************************)
(* The data of the persisted configuration: the rows of the five           *)
(* config_store tables, what one staged change does to them, what LoadAll  *)
(* makes of them, and when the result is a valid transform-mode config.    *)
(*                                                                         *)
(* A provider row keeps the two columns validateTransform requires         *)
(* (base_url, api_key); the other columns are only carried along.  All     *)
(* rows of the settings table but "mode" are one value.  An offer has no   *)
(* upstream name, so a route's model is its slug before and after          *)
(* buildRoutes.                                                            *)
(***************************************************************************)
EXTENDS Naturals, FiniteSets

CONSTANTS
  Providers,   \* provider keys
  Models,      \* model slugs
  Routes,      \* route aliases
  Values,      \* non-empty column values (base URLs, API keys, setting values)
  NoValue,     \* the empty string in a value column
  NoProvider,  \* the empty string in a route's provider_key
  Absent       \* no such row

Value       == Values \cup {NoValue}
ProviderRow == [url: Value, key: Value]
RouteRow    == [model: Models, provider: Providers \cup {NoProvider}]
Settings    == [seeded: BOOLEAN, value: Value]

\* The constants that stand for something missing are not members of what they
\* are missing from.
ASSUME ConstantsAssumption ==
  /\ NoValue \notin Values
  /\ NoProvider \notin Providers
  /\ Absent \notin ProviderRow
  /\ Absent \notin RouteRow

\* The rows of the tables.  The resolved config.Config that LoadAll returns has
\* the same shape.
Tables ==
  [settings:  Settings,
   models:    SUBSET Models,
   providers: [Providers -> ProviderRow \cup {Absent}],
   offers:    SUBSET (Providers \X Models),
   routes:    [Routes -> RouteRow \cup {Absent}]]

\* A database whose tables exist and hold no row.
EmptyTables ==
  [settings  |-> [seeded |-> FALSE, value |-> NoValue],
   models    |-> {},
   providers |-> [p \in Providers |-> Absent],
   offers    |-> {},
   routes    |-> [r \in Routes |-> Absent]]

-----------------------------------------------------------------------------
(***************************************************************************)
(* Staged changes.  "create" and "update" are the same upsert.             *)
(***************************************************************************)

Upsert(res, key, val) == [op |-> "upsert", res |-> res, key |-> key, val |-> val]
Delete(res, key)      == [op |-> "delete", res |-> res, key |-> key, val |-> NoValue]

UpsertChange ==
  { Upsert("provider", p, row) : p \in Providers, row \in ProviderRow }
    \cup { Upsert("model", m, NoValue) : m \in Models }
    \cup { Upsert("offer", o, NoValue) : o \in Providers \X Models }
    \cup { Upsert("route", r, row) : r \in Routes, row \in RouteRow }
    \cup { Upsert("setting", NoValue, v) : v \in Values }

DeleteChange ==
  { Delete("provider", p) : p \in Providers }
    \cup { Delete("model", m) : m \in Models }
    \cup { Delete("offer", o) : o \in Providers \X Models }
    \cup { Delete("route", r) : r \in Routes }

Change == UpsertChange \cup DeleteChange

OffersOf(t, p) == { o \in t.offers : o[1] = p }

\* Deleting a provider cascades to its offers; it does not touch the routes, and
\* deleting a model touches neither.
ApplyUpsert(t, ch) ==
  CASE ch.res = "provider" -> [t EXCEPT !.providers[ch.key] = ch.val]
    [] ch.res = "model"    -> [t EXCEPT !.models = @ \cup {ch.key}]
    [] ch.res = "offer"    -> [t EXCEPT !.offers = @ \cup {ch.key}]
    [] ch.res = "route"    -> [t EXCEPT !.routes[ch.key] = ch.val]
    [] ch.res = "setting"  -> [t EXCEPT !.settings.value = ch.val]

ApplyDelete(t, ch) ==
  CASE ch.res = "provider" -> [t EXCEPT !.providers[ch.key] = Absent,
                                        !.offers = @ \ OffersOf(t, ch.key)]
    [] ch.res = "model"    -> [t EXCEPT !.models = @ \ {ch.key}]
    [] ch.res = "offer"    -> [t EXCEPT !.offers = @ \ {ch.key}]
    [] ch.res = "route"    -> [t EXCEPT !.routes[ch.key] = Absent]

ApplyChange(t, ch) ==
  IF ch.op = "delete" THEN ApplyDelete(t, ch) ELSE ApplyUpsert(t, ch)

-----------------------------------------------------------------------------
(***************************************************************************)
(* LoadAll.                                                                *)
(***************************************************************************)

\* An offer whose provider has no row makes a provider entry with empty columns.
LoadedProviders(t) ==
  [p \in Providers |->
     IF t.providers[p] = Absent /\ OffersOf(t, p) # {}
     THEN [url |-> NoValue, key |-> NoValue]
     ELSE t.providers[p]]

Offering(t, m) == { p \in Providers : <<p, m>> \in t.offers }

\* A route without a provider takes the first offering one in map order: any of
\* them, or none when no provider offers the model.
RouteChoices(t, r) ==
  LET row == t.routes[r] IN
  IF row = Absent \/ (row # Absent /\ row.provider # NoProvider) THEN {row}
  ELSE IF Offering(t, row.model) = {} THEN {row}
  ELSE { [row EXCEPT !.provider = p] : p \in Offering(t, row.model) }

Loaded(t) ==
  { [t EXCEPT !.providers = LoadedProviders(t), !.routes = f] :
      f \in { g \in [Routes -> RouteRow \cup {Absent}] :
                \A r \in Routes : g[r] \in RouteChoices(t, r) } }

HasProvider(c, p) == c.providers[p] # Absent

\* Mutant: the required columns are not looked at.
ValidProvidersUnread(c) ==
  /\ \E p \in Providers : HasProvider(c, p)
  /\ \A o \in c.offers : o[2] \in c.models

ValidProviders(c) ==
  /\ \E p \in Providers : HasProvider(c, p)
  /\ \A p \in Providers : HasProvider(c, p) =>
       c.providers[p].url # NoValue /\ c.providers[p].key # NoValue
  /\ \A o \in c.offers : o[2] \in c.models

ValidRoutes(c) ==
  /\ c.offers # {} \/ \E r \in Routes : c.routes[r] # Absent
  /\ \A r \in Routes : c.routes[r] # Absent =>
       c.routes[r].provider # NoProvider /\ HasProvider(c, c.routes[r].provider)

\* Config.Validate of a transform-mode config.
Valid(c) == ValidProviders(c) /\ ValidRoutes(c)

\* A config.Config the program works with: valid, and its offers are inside its
\* providers.
IsConfig(c) ==
  /\ c \in Tables /\ c.settings.seeded
  /\ Valid(c)
  /\ \A o \in c.offers : HasProvider(c, o[1])

\* The configs LoadAll may return for these rows; none when it fails ("config not
\* seeded", or a config that does not validate).
Outcomes(t) ==
  IF t.settings.seeded THEN { c \in Loaded(t) : Valid(c) } ELSE {}

Loadable(t) == Outcomes(t) # {}
=============================================================================

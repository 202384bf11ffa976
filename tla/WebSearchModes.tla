--------------------------- MODULE WebSearchModes ---------------------------
(***************************************************************************)
(* How the server comes to know, for each model of each provider, whether  *)
(* the provider searches the web itself ("enabled"), the server does       *)
(* ("injected") or nobody ("disabled"): resolvePerProviderWebSearch in     *)
(* app.go goes through the configuration when the process starts and asks  *)
(* the providers that do not say; dispatch reads what was written last     *)
(* (ResolvedWebSearchForCandidate in provider/manager.go). Go goes through *)
(* its maps in any order.                                                  *)
(***************************************************************************)
EXTENDS FiniteSets, Sequences, TLC

CONSTANTS
    Configs,   \* the configurations
    Default    \* the key of the default provider, if it has that name

VARIABLES
    config,     \* the configuration that is served
    resolved,   \* mode by key: a provider, a candidate, or the name of a model
    providers,  \* providers whose models are to be gone through
    models,     \* models of the present provider that are to be gone through
    routes,     \* aliases that are to be gone through
    stage       \* "providers", "models", "routes", "serving"

vars == <<config, resolved, providers, models, routes, stage>>

None == "none"
Key(p) == [key |-> "provider", of |-> <<p>>]
CandidateKey(p, m) == [key |-> "candidate", of |-> <<p, m>>]
ModelKey(name) == [key |-> "model", of |-> name]

Providers(c) == DOMAIN c.protocol
DefaultKey(c) ==
    IF Default \in Providers(c) THEN {Default}
    ELSE IF Cardinality(Providers(c)) = 1 THEN Providers(c) ELSE {}

ProtocolForKey(c, p) == c.protocol[p]

\* A name is a provider and a model, or a single word: a route's alias or a model.
ProtocolForModel(c, name) ==
    IF Len(name) = 2 THEN ProtocolForKey(c, name[1])
    ELSE LET keys == IF name[1] \in DOMAIN c.routes THEN {c.routes[name[1]].provider}
                     ELSE DefaultKey(c)
         IN IF keys = {} THEN "anthropic" ELSE ProtocolForKey(c, CHOOSE k \in keys : TRUE)

\* A provider that says nothing says "auto", and so the global setting is not looked at.
WebSearchForProvider(c, p) == c.support[p]
ModelSetting(c, p, m) ==
    IF m \in DOMAIN c.models[p] /\ c.models[p][m] # None THEN c.models[p][m]
    ELSE WebSearchForProvider(c, p)

\* A model's name alone gets the setting of any provider that has the model.
WebSearchForModel(c, name) ==
    IF Len(name) = 2 THEN {ModelSetting(c, name[1], name[2])}
    ELSE IF name[1] \in DOMAIN c.routes
    THEN LET r == c.routes[name[1]]
         IN {IF r.support # None THEN r.support ELSE ModelSetting(c, r.provider, r.model)}
    ELSE {ModelSetting(c, p, name[1]) : p \in {q \in Providers(c) : name[1] \in DOMAIN c.models[q]}}

\* Where the setting is "auto" the provider is asked; what it cannot do, the
\* server does if it has a search service's key, which is the same for all here.
InjectedSearchConfigured(c) == c.keyed
Probed(c) == {"enabled", IF InjectedSearchConfigured(c) THEN "injected" ELSE "disabled"}
Unless(setting, otherwise) == IF setting = "auto" THEN otherwise ELSE {setting}

ProviderModes(c, p) ==
    LET setting == WebSearchForProvider(c, p)
    IN CASE ProtocolForKey(c, p) = "anthropic" -> Unless(setting, Probed(c))
         [] ProtocolForKey(c, p) = "openai-response" ->
              {IF setting \in {"disabled", "injected"} THEN "disabled" ELSE "enabled"}
         [] OTHER -> {IF InjectedSearchConfigured(c) THEN "injected" ELSE "disabled"}

ModelModes(c, name) ==
    CASE ProtocolForModel(c, name) = "anthropic" ->
           UNION {Unless(s, Probed(c)) : s \in WebSearchForModel(c, name)}
      [] ProtocolForModel(c, name) = "openai-response" ->
           {IF s \in {"disabled", "injected"} THEN "disabled" ELSE "enabled" :
              s \in WebSearchForModel(c, name)}
      [] OTHER -> {"disabled"}

Written(modes, name, p, m, mode) == (ModelKey(name) :> mode) @@ (CandidateKey(p, m) :> mode) @@ modes

Init ==
    /\ config \in Configs
    /\ resolved = <<>>
    /\ providers = Providers(config) /\ models = {} /\ routes = DOMAIN config.routes
    /\ stage = "providers"

ResolveProvider ==
    /\ stage = "providers"
    /\ \E p \in {q \in Providers(config) : Key(q) \notin DOMAIN resolved} :
         \E mode \in ProviderModes(config, p) : resolved' = (Key(p) :> mode) @@ resolved
    /\ UNCHANGED <<config, providers, models, routes, stage>>

ProvidersResolved ==
    /\ stage = "providers"
    /\ \A p \in Providers(config) : Key(p) \in DOMAIN resolved
    /\ stage' = "models"
    /\ UNCHANGED <<config, resolved, providers, models, routes>>

NextProvider ==
    /\ stage = "models" /\ models = {}
    /\ IF providers = {} THEN stage' = "routes" /\ UNCHANGED <<providers, models>>
       ELSE \E p \in providers :
              /\ providers' = providers \ {p}
              /\ models' = {p} \X DOMAIN config.models[p]
              /\ UNCHANGED stage
    /\ UNCHANGED <<config, resolved, routes>>

\* By its provider and name, and then by its name alone.
ResolveModel ==
    /\ stage = "models"
    /\ \E pm \in models : LET p == pm[1]  m == pm[2] IN
         /\ models' = models \ {pm}
         /\ \E full \in ModelModes(config, pm), alone \in ModelModes(config, <<m>>) :
              resolved' = Written(Written(resolved, pm, p, m, full), <<m>>, p, m, alone)
    /\ UNCHANGED <<config, providers, routes, stage>>

ResolveRoute ==
    /\ stage = "routes"
    /\ \E alias \in routes : LET r == config.routes[alias] IN
         /\ routes' = routes \ {alias}
         /\ \E mode \in ModelModes(config, <<alias>>) :
              resolved' = Written(resolved, <<alias>>, r.provider, r.model, mode)
    /\ UNCHANGED <<config, providers, models, stage>>

Serve ==
    /\ stage = "routes" /\ routes = {}
    /\ stage' = "serving"
    /\ UNCHANGED <<config, resolved, providers, models, routes>>

\* Runtime.Reload makes a new manager for the configuration and goes through nothing.
Reload ==
    /\ stage = "serving"
    /\ config' \in Configs
    /\ resolved' = <<>>
    /\ UNCHANGED <<providers, models, routes, stage>>

Next ==
    \/ ResolveProvider \/ ProvidersResolved \/ NextProvider \/ ResolveModel
    \/ ResolveRoute \/ Serve \/ Reload

Spec == Init /\ [][Next]_vars

ResolvedWebSearchForCandidate(p, m) ==
    IF CandidateKey(p, m) \in DOMAIN resolved THEN resolved[CandidateKey(p, m)]
    ELSE IF Key(p) \in DOMAIN resolved THEN resolved[Key(p)] ELSE None

-----------------------------------------------------------------------------
(* Properties *)

Candidates == UNION {{p} \X DOMAIN config.models[p] : p \in Providers(config)}

\* "支持热重载：修改配置后通过管理 API 或重启应用应用更改" (docs/DEVELOPMENT.md:70): a
\* configuration that is applied by the management API is served like one that
\* the process was started with, its models searching the web as it says. Does
\* not hold: no mode is known after a reload, until the process is restarted.
ModesOutliveReload ==
    stage = "serving" => \A c \in Candidates : ResolvedWebSearchForCandidate(c[1], c[2]) # None

\* "优先级：模型 > Provider > 全局" (docs/CONFIGURATION.md:132): what a model's entry says
\* is what its candidate gets. Does not hold: the model's name alone, and each
\* route to the model, write to the same candidate afterwards.
ModelSettingWins ==
    stage = "serving" /\ resolved # <<>> => \A c \in Candidates :
        config.protocol[c[1]] = "anthropic" /\ config.models[c[1]][c[2]] \notin {None, "auto"}
        => ResolvedWebSearchForCandidate(c[1], c[2]) = config.models[c[1]][c[2]]
=============================================================================

--------------------------- MODULE ModelRouting ---------------------------
(***************************************************************************)
(* Which providers may serve a model: what buildProviders and buildRoutes  *)
(* make of a config file (internal/config/config_loader.go) and what the   *)
(* provider manager built from it resolves a model name to                 *)
(* (internal/service/provider/manager.go).                                 *)
(*                                                                         *)
(* A model has a slug in the file; a provider may offer it under a name of *)
(* its own, the upstream name.  Providers are numbered in the dictionary   *)
(* order of their keys.                                                    *)
(***************************************************************************)
EXTENDS Naturals

CONSTANTS
  Providers,  \* provider keys, numbered in dictionary order
  Names,      \* slugs, upstream names, route aliases and direct references
  Urls,       \* base URLs
  Keys,       \* API keys
  RefOf,      \* what modelref.Parse makes of a name: [provider, model] or None
  Files,      \* the config files, or the rows of the store, that may be loaded
  None        \* an empty field

Protocols == {"anthropic", "openai-response", "openai-chat", "google-genai"}
Offer     == [model : Names, upstream : Names \cup {None}, priority : Nat]
Provider  == [protocol : Protocols \cup {None}, url : Urls, key : Keys,
              offers : SUBSET Offer]

UpstreamName(o) == IF o.upstream = None THEN o.model ELSE o.upstream

\* Valid files (Config.Validate), in which a provider offers a model once, and no two
\* under the same upstream name.
ASSUME RoutingAssumption ==
  /\ Providers \subseteq Nat
  /\ None \notin Names /\ None \notin Protocols /\ None \notin Providers
  /\ None \notin Urls /\ None \notin Keys
  /\ None \notin [provider : Providers, model : Names]
  /\ RefOf \in [Names -> [provider : Providers, model : Names] \cup {None}]
  /\ \A f \in Files :
       /\ DOMAIN f.providers \subseteq Providers
       /\ \A p \in DOMAIN f.providers :
            /\ f.providers[p] \in Provider
            /\ \A o1, o2 \in f.providers[p].offers :
                 o1.model = o2.model \/ UpstreamName(o1) = UpstreamName(o2) => o1 = o2
       /\ f.vision \subseteq Names
       /\ DOMAIN f.routes \subseteq Names
       /\ \A a \in DOMAIN f.routes :
            f.routes[a] \in [provider : DOMAIN f.providers \cup {None}, model : Names]

-----------------------------------------------------------------------------
(***************************************************************************)
(* From a file to a config.                                                *)
(***************************************************************************)

OffersOf(f, p, slug) == { o \in f.providers[p].offers : o.model = slug }

\* A route without a provider takes one that offers the model, whichever the
\* iteration over the map meets first.
RouteProviders(f, a) ==
  IF f.routes[a].provider # None THEN {f.routes[a].provider}
  ELSE { p \in DOMAIN f.providers : OffersOf(f, p, f.routes[a].model) # {} }

\* A route knows the upstream name of its model.
RouteModels(f, a, p) ==
  { UpstreamName(o) : o \in OffersOf(f, p, f.routes[a].model) }
    \cup IF OffersOf(f, p, f.routes[a].model) = {} THEN {f.routes[a].model} ELSE {}

RouteTables(f) ==
  { t \in [DOMAIN f.routes -> [provider : DOMAIN f.providers, model : Names]] :
      \A a \in DOMAIN f.routes :
        /\ t[a].provider \in RouteProviders(f, a)
        /\ t[a].model \in RouteModels(f, a, t[a].provider) }

\* vision: the slugs of the models that take images.
LoadsOf(f) ==
  { [providers |-> f.providers, vision |-> f.vision, routes |-> t] : t \in RouteTables(f) }

Configs == UNION { LoadsOf(f) : f \in Files }

-----------------------------------------------------------------------------
(***************************************************************************)
(* The provider manager of a config.                                       *)
(***************************************************************************)

\* The keys of ProviderDef.Models, which are upstream names.
CatalogOf(def) == { UpstreamName(o) : o \in def.offers }

ProtocolForKey(c, p) ==
  IF c.providers[p].protocol = None THEN "anthropic" ELSE c.providers[p].protocol

\* Empty for a provider the config does not have.
ProviderBaseURL(c, p) == IF p \in DOMAIN c.providers THEN c.providers[p].url ELSE None
ProviderAPIKey(c, p)  == IF p \in DOMAIN c.providers THEN c.providers[p].key ELSE None

\* The model's metadata, found by upstream name, lists images as an input.
SeesImages(c, p, name) ==
  /\ p \in DOMAIN c.providers
  /\ \E o \in c.providers[p].offers : UpstreamName(o) = name /\ o.model \in c.vision

\* The reverse index: offers by slug with their priority, and the names of the catalog
\* that are no slugs of an offer with priority 0.
IsIndexed(c, name, p, priority) ==
  \/ \E o \in c.providers[p].offers : o.model = name /\ o.priority = priority
  \/ /\ name \in CatalogOf(c.providers[p]) /\ priority = 0
     /\ \A o \in c.providers[p].offers : o.model # name

Priorities(c, p) == {0} \cup { o.priority : o \in c.providers[p].offers }

\* A ProviderCandidate; url and key are those of its client.
CandidateOf(c, p, name, priority) ==
  [provider |-> p, model |-> name, priority |-> priority,
   protocol |-> ProtocolForKey(c, p),
   url |-> c.providers[p].url, key |-> c.providers[p].key]

Candidate ==
  [provider : Providers, model : Names, priority : Nat, protocol : Protocols,
   url : Urls, key : Keys]

\* The candidates for a name, none when the resolution is an error: a route before a
\* direct reference before the index.  The candidates from the index keep the name
\* that was asked for, whatever the upstream name is.
ResolveModel(c, name) ==
  CASE name \in DOMAIN c.routes ->
         { CandidateOf(c, c.routes[name].provider, c.routes[name].model, 0) }
    [] name \notin DOMAIN c.routes /\ RefOf[name] # None ->
         { CandidateOf(c, RefOf[name].provider, RefOf[name].model, 0) :
             p \in DOMAIN c.providers \cap {RefOf[name].provider} }
    [] OTHER ->
         UNION { { CandidateOf(c, p, name, n) :
                     n \in { m \in Priorities(c, p) : IsIndexed(c, name, p, m) } } :
                 p \in DOMAIN c.providers }

\* Mutant: priorities are not compared.
DictionaryOrder(c, d) == c.provider < d.provider

\* The order of the list of candidates.
Better(c, d) ==
  \/ c.priority < d.priority
  \/ c.priority = d.priority /\ c.provider < d.provider

IsFirst(c, cands) == c \in cands /\ \A d \in cands \ {c} : Better(c, d)
=============================================================================

-------------------------- MODULE MCWebSearchModes --------------------------
(***************************************************************************)
(* An instance of WebSearchModes for TLC: two providers that both have the *)
(* model m, and perhaps a route to the model of one.                       *)
(***************************************************************************)
EXTENDS WebSearchModes

Keys == {"default", "q"}
Settings == {None, "enabled", "disabled"}
Route == {[provider |-> "q", model |-> "m", support |-> s] : s \in Settings}
Routes == {<<>>} \cup {"alias" :> r : r \in Route}

AllConfigs ==
    {[protocol |-> protocol, support |-> [p \in Keys |-> "auto"],
      models |-> [p \in Keys |-> "m" :> setting[p]], routes |-> to, keyed |-> TRUE] :
        protocol \in [Keys -> {"anthropic", "openai-chat"}],
        setting \in [Keys -> Settings], to \in Routes}
=============================================================================

\* Two providers that may both have the model, and a route to it.
SPECIFICATION Spec
CONSTANTS
    Configs <- AllConfigs
    Default = "default"
INVARIANTS
    ModelSettingWins
\* Nothing follows when the configuration is served and nobody reloads.
CHECK_DEADLOCK FALSE

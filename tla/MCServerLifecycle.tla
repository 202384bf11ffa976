------------------------- MODULE MCServerLifecycle -------------------------
(***************************************************************************)
(* An instance of ServerLifecycle for TLC: both databases and a plugin     *)
(* beside the metrics, the two consumers of the program, two requests.     *)
(***************************************************************************)
EXTENDS ServerLifecycle

PluginOrder == <<"visual", "db_sqlite", "db_d1", "metrics">>
AllDatabases == {"db_sqlite", "db_d1"}
OfWorker == {"db_d1"}
ConsumerOrder == <<"metrics", "config_store">>
=============================================================================

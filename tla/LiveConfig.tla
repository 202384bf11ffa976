---------------------------- MODULE LiveConfig ----------------------------
(***************************************************************************)
(* What the configuration store promises a reader of the runtime: while    *)
(* the process runs, the live config only ever jumps to a whole config     *)
(* loaded from the rows that are committed at that moment (never to a      *)
(* mixture of two commits, never back to an older one); a process that     *)
(* starts serves such a config too, or the YAML config when the load       *)
(* fails.  A load that fails is known to have failed until one succeeds.   *)
(***************************************************************************)
EXTENDS ConfigTables

CONSTANT YamlConfig

VARIABLES
  committed,  \* the rows of the store
  live,       \* the config the runtime serves
  running,    \* the process is running
  failed      \* the last load failed

liveVars == <<committed, live, running, failed>>

LiveInit == live = YamlConfig /\ ~running /\ ~failed

\* A transaction commits; nobody sees it yet.
CommitRows == running /\ UNCHANGED <<live, running, failed>>

\* The runtime takes over the committed rows.
Publish ==
  /\ running
  /\ live' \in Outcomes(committed)
  /\ failed' = FALSE
  /\ UNCHANGED <<committed, running>>

\* The committed rows cannot be loaded: the runtime keeps what it has.
LoadFails == running /\ failed' = TRUE /\ UNCHANGED <<committed, live, running>>

Stop == running /\ running' = FALSE /\ UNCHANGED <<committed, live, failed>>

Start ==
  /\ ~running /\ running' = TRUE
  /\ \/ live' \in Outcomes(committed) /\ failed' = FALSE
     \/ live' = YamlConfig /\ failed' = TRUE
  /\ UNCHANGED committed

LiveNext == CommitRows \/ Publish \/ LoadFails \/ Stop \/ Start

LiveSpec == LiveInit /\ [][LiveNext]_liveVars
=============================================================================

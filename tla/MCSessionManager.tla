------------------------- MODULE MCSessionManager -------------------------
(***************************************************************************)
(* Instances of SessionManager for TLC.                                    *)
(***************************************************************************)
EXTENDS SessionManager, TLC

\* Requests behave alike, and so do keys.
Interchangeable == Permutations(Requests) \cup Permutations(Keys)
=============================================================================

--------------------------- MODULE MCScaleDaemon ---------------------------
(***************************************************************************)
(* An instance of ScaleDaemon small enough for its liveness: one port, one *)
(* brand (a configuration still changes by its test mode), one connection, *)
(* a channel of one message, bursts of one reading, and the two faults      *)
(* that together leak the lock; the reader's own runs have the others.      *)
(***************************************************************************)
EXTENDS ScaleDaemon

SomeFaults == {"write", "close"}
=============================================================================

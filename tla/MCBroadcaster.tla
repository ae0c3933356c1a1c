---------------------------- MODULE MCBroadcaster ----------------------------
(***************************************************************************)
(* Instances of Broadcaster for TLC.  Two writes for one client is the     *)
(* least that lets two failures race to remove it.                         *)
(***************************************************************************)
EXTENDS Broadcaster, TLC
=============================================================================

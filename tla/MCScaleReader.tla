---------------------------- MODULE MCScaleReader ----------------------------
(***************************************************************************)
(* Instances of ScaleReader for TLC: two ports and, where a configuration  *)
(* may change without the port changing, two brands; a channel of one      *)
(* message and bursts of two readings, so that the channel is often full   *)
(* and a burst has a first, an inner and a last reading.                   *)
(***************************************************************************)
EXTENDS ScaleReader

AllFaults == FaultKinds
NoFaults  == {}
=============================================================================

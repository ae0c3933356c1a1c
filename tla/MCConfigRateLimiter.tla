------------------------ MODULE MCConfigRateLimiter --------------------------
(***************************************************************************)
(* ConfigRateLimiter for TLC, with the clock and the number of requests    *)
(* bounded: three windows of three ticks, and enough requests to fill the  *)
(* window of one address three times over.                                 *)
(***************************************************************************)
EXTENDS ConfigRateLimiter, TLC

CONSTANTS MaxTime, MaxServed

AddrSymmetry == Permutations(Addrs)

\* Bounds of the instance, not of the program.
Bounded == now <= MaxTime /\ served <= MaxServed
=============================================================================

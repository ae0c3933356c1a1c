---------------------------- MODULE MCLogManager ----------------------------
(***************************************************************************)
(* An instance of LogManager: four lines of two or three bytes against a   *)
(* window of five and a limit of seven, so that windows start with a line  *)
(* and inside one, files reach the limit exactly, failed writes leave      *)
(* pieces, and with a piece three lines fit the window, of which a Flush   *)
(* keeps two.                                                              *)
(***************************************************************************)
EXTENDS LogManager, TLC

FourLines == <<2, 2, 3, 2>>
AllFaults == {"mkdir", "read", "write", "open"}
Symmetric == Permutations(Handles) \union Permutations(Flushers)
=============================================================================

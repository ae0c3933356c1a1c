------------------------------- MODULE LogTail -------------------------------
(***************************************************************************)
(* ReadLastNLines of internal/logging/rotation.go: the end of a log file,  *)
(* read through a window of BufSize bytes (64 KB in the code).             *)
(*                                                                         *)
(* A file is the sequence of its lines as a reader finds them: which       *)
(* logged line each is, its length in bytes, its newline included, and     *)
(* whether the newline is there: it is missing where a write failed.  No   *)
(* line is blank.                                                          *)
(***************************************************************************)
EXTENDS Naturals, Sequences, FiniteSets

CONSTANTS
  MaxLines,   \* bound: the lines ever logged
  LineSize,   \* their lengths
  BufSize     \* the window

ASSUME TailAssumption ==
  /\ MaxLines \in Nat \ {0}
  /\ LineSize \in [1..MaxLines -> Nat \ {0, 1}]
  /\ BufSize \in Nat \ {0}

\* What a failed write left of a line has the number 0.
Torn  == 0
Lines == {l \in [line: 0..MaxLines, bytes: Nat \ {0}, ended: BOOLEAN] :
            l.ended \/ l.line = Torn}

Bytes(f) ==
  LET upTo[i \in 0..Len(f)] == IF i = 0 THEN 0 ELSE upTo[i - 1] + f[i].bytes
  IN  upTo[Len(f)]

Last(f, n)   == SubSeq(f, Len(f) - n + 1, Len(f))
FromLine(f, i) == SubSeq(f, i, Len(f))

\* Mutant of InWindow: the partial line at the head of the window is kept.
InWindowPartial(f) ==
  {i \in 1..Len(f) : Bytes(f) <= BufSize \/ i = Len(f) \/ Bytes(FromLine(f, i + 1)) < BufSize}

\* The lines left of the window.  In a file longer than the window the first
\* piece goes, a whole line too when the window starts exactly with it.
InWindow(f) ==
  {i \in 1..Len(f) : Bytes(f) <= BufSize \/ Bytes(FromLine(f, i)) < BufSize}

ReadLastNLines(f, n) ==
  LET m == Cardinality(InWindow(f)) IN Last(f, IF m <= n THEN m ELSE n)

\* Reference: the last n of the lines the window holds entirely.
WholeLines(f)  == {i \in 1..Len(f) : Bytes(FromLine(f, i)) <= BufSize}
LastWhole(f, n) ==
  LET m == Cardinality(WholeLines(f)) IN Last(f, IF m <= n THEN m ELSE n)

\* The window of a longer file starts exactly with a line.
WindowOnLine(f) ==
  Bytes(f) > BufSize /\ \E i \in 1..Len(f) : Bytes(FromLine(f, i)) = BufSize
=============================================================================

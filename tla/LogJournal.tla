----------------------------- MODULE LogJournal -----------------------------
(***************************************************************************)
(* What the log file promises whoever reads it after a crash: it is a      *)
(* journal.  Lines are added at its end, in the order they are logged, or  *)
(* missed; what it drops, it drops from its beginning; and no line is ever *)
(* repeated or put before another - as long as the promise is sound.  Only *)
(* a process one of whose calls failed may also lose lines from the end.   *)
(* A write that fails may leave a piece of a line where it stopped, and    *)
(* the next line recorded may take its place.                              *)
(***************************************************************************)
EXTENDS Naturals, Sequences

VARIABLES
  journal,   \* the lines kept
  next,      \* the next line to be logged
  failed,    \* a call of the running process has failed
  sound      \* the promise still holds

journalVars == <<journal, next, failed, sound>>

Piece == 0

JournalInit == journal = << >> /\ next = 1 /\ failed = FALSE /\ sound = TRUE

First(n) == SubSeq(journal, 1, n)

\* The journal with l at its end, or in place of the piece that is there.
Extended(l) ==
  {Append(journal, l)} \union
  {Append(First(n), l) : n \in {k \in 0..Len(journal) : k + 1 = Len(journal) /\ journal[k + 1] = Piece}}

\* A line is logged and recorded ...
Record ==
  /\ sound
  /\ journal' \in Extended(next) /\ next' = next + 1
  /\ UNCHANGED <<failed, sound>>

\* ... or logged and missed, but for a piece.
Miss ==
  /\ sound
  /\ journal' \in {journal} \union Extended(Piece) /\ next' = next + 1
  /\ UNCHANGED <<failed, sound>>

\* The journal keeps its last n lines.
Forget ==
  /\ sound
  /\ \E n \in 0..Len(journal) : journal' = SubSeq(journal, Len(journal) - n + 1, Len(journal))
  /\ UNCHANGED <<next, sound>>

\* A rewrite fails, and has written the first n lines and a piece of one more.
Lose ==
  /\ sound /\ failed'
  /\ \E n \in 0..Len(journal) :
       \/ journal' = First(n)
       \/ n < Len(journal) /\ journal' = Append(First(n), Piece)
  /\ UNCHANGED <<next, sound>>

\* A call fails, or a new process starts, and nothing is lost.
Turn ==
  /\ sound
  /\ UNCHANGED <<journal, next, sound>>

\* The promise is withdrawn, for good.
Withdraw == sound' = FALSE

JournalNext == Record \/ Miss \/ Forget \/ Lose \/ Turn \/ Withdraw

JournalSpec == JournalInit /\ [][JournalNext]_journalVars
=============================================================================

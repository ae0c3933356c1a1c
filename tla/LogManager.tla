----------------------------- MODULE LogManager -----------------------------
(***************************************************************************)
(* The log file of the service: Setup, Flush and Close of                  *)
(* internal/logging/logging.go, rotation.go, and the lines every goroutine *)
(* logs.  A logFlush command runs on the goroutine of its connection; the  *)
(* manager's lock is not taken, so Flushes meet each other, the logger and *)
(* Close.  WriteFile truncates first and writes second, a write that fails *)
(* may have written a part, and the process may be killed and started      *)
(* again between any two steps.                                            *)
(*                                                                         *)
(* A line the filter discards (FilteredLogger.Write with verbose off)      *)
(* changes nothing here: it is a line nobody logged.  A write through the  *)
(* log package excludes SetOutput by the logger's own mutex.               *)
(***************************************************************************)
EXTENDS LogTail

CONSTANTS
  Flushers,      \* connections that send logFlush
  Main,          \* the goroutine of Setup and Close
  Handles,       \* names of open files
  Nil, Stdout,
  MaxLogSize,    \* 5 MB
  FlushLines,    \* 50
  RotateLines,   \* 1000
  Faults         \* calls that may fail in this instance

Procs == Flushers \union {Main}

ASSUME LogAssumption ==
  /\ Main \notin Flushers
  /\ Nil \notin Handles /\ Stdout \notin Handles
  /\ MaxLogSize \in Nat /\ BufSize + 1 < MaxLogSize
  /\ FlushLines \in Nat \ {0} /\ RotateLines \in Nat \ {0}
  /\ Faults \subseteq {"mkdir", "read", "write", "open"}

VARIABLES
  file,      \* the lines of the log file
  next,      \* the next line to be logged
  path,      \* FilePath is set
  handle,    \* Manager.file
  open,      \* the handles that have not been closed
  output,    \* where the log package writes
  pc,        \* the step of Setup or Flush each goroutine is at
  kept,      \* the lines it is going to write back
  mine,      \* the handle it has opened
  spoilt     \* history: what went wrong, for good ("nil") or in this process

vars == <<file, next, path, handle, open, output, pc, kept, mine, spoilt>>
disk == <<file, next>>
manager == <<path, handle, open, output>>

Positions == {"idle", "setup", "truncate", "write", "open", "setOutput", "stopped"}
Spoils    == {"nil", "overlap", "failed"}

TypeOK ==
  /\ file \in Seq(Lines) /\ next \in 1..(MaxLines + 1)
  /\ path \in BOOLEAN
  /\ handle \in Handles \union {Nil}
  /\ open \subseteq Handles
  /\ output \in Handles \union {Stdout}
  /\ pc \in [Procs -> Positions]
  /\ kept \in [Procs -> Seq(Lines)]
  /\ mine \in [Procs -> Handles \union {Nil}]
  /\ spoilt \subseteq Spoils

\* A process starts: only what is on the disk is left.
Fresh ==
  /\ path' = TRUE /\ handle' = Nil /\ open' = {} /\ output' = Stdout
  /\ pc' = [p \in Procs |-> IF p = Main THEN "setup" ELSE "idle"]
  /\ kept' = [p \in Procs |-> << >>] /\ mine' = [p \in Procs |-> Nil]
  /\ spoilt' = spoilt \intersect {"nil"}

Init ==
  /\ file = << >> /\ next = 1
  /\ path = TRUE /\ handle = Nil /\ open = {} /\ output = Stdout
  /\ pc = [p \in Procs |-> IF p = Main THEN "setup" ELSE "idle"]
  /\ kept = [p \in Procs |-> << >>] /\ mine = [p \in Procs |-> Nil]
  /\ spoilt = {}

-----------------------------------------------------------------------------
(* Helpers.                                                                *)

Goes(p, from, to) == pc[p] = from /\ pc' = [pc EXCEPT ![p] = to]
Spoil(what)       == spoilt' = spoilt \union {what}
Up                == pc[Main] \in {"idle", "stopped"}

\* A handle nobody knows: each OpenFile returns a new one.
Unused == Handles \ (open \union {handle, output} \union {mine[p] : p \in Procs})

\* A line as it is logged, and a piece of it.
Line(l)  == [line |-> l, bytes |-> LineSize[l], ended |-> TRUE]
Piece(b) == [line |-> Torn, bytes |-> b, ended |-> FALSE]

\* What is appended to a file whose last line has no end becomes part of it.
Onto(f, l) ==
  IF f # << >> /\ ~f[Len(f)].ended
    THEN [f EXCEPT ![Len(f)] = [l EXCEPT !.bytes = f[Len(f)].bytes + l.bytes]]
    ELSE Append(f, l)

\* The text that is written back: every line of it ends with a newline.
Ended(f) ==
  IF f # << >> /\ ~f[Len(f)].ended
    THEN [f EXCEPT ![Len(f)] = [f[Len(f)] EXCEPT !.bytes = f[Len(f)].bytes + 1, !.ended = TRUE]]
    ELSE f

\* What a write that fails may have written: the first n lines, and any part
\* of one more.
Cuts(f) ==
  {SubSeq(f, 1, n) : n \in 0..Len(f)} \union
  UNION {{Append(SubSeq(f, 1, i - 1), Piece(b)) : b \in 1..(f[i].bytes - 1)} : i \in 1..Len(f)}

\* A write at offset 0 of a file others append to: the lines that begin after
\* it survive, one cut in two does not.
Overlay(new, old) ==
  LET rest == Last(old, Cardinality({i \in 1..Len(old) : Bytes(SubSeq(old, 1, i - 1)) >= Bytes(new)}))
  IN  IF rest = << >> THEN new ELSE Onto(new, Head(rest)) \o Tail(rest)

-----------------------------------------------------------------------------
(* Setup: the directory, RotateIfNeeded, the file.                         *)

SetupNoDirectory ==
  /\ "mkdir" \in Faults
  /\ Goes(Main, "setup", "idle")
  /\ path' = FALSE
  /\ UNCHANGED <<disk, handle, open, output, kept, mine, spoilt>>

\* Mutant of RotateIfNeeded: a file of exactly the limit is kept.
RotateLate ==
  LET lines == ReadLastNLines(file, RotateLines) IN
  /\ IF Bytes(file) <= MaxLogSize \/ lines = << >>
       THEN Goes(Main, "setup", "open") /\ kept' = kept
       ELSE Goes(Main, "setup", "truncate") /\ kept' = [kept EXCEPT ![Main] = lines]
  /\ UNCHANGED <<disk, manager, mine, spoilt>>

\* A tail without a line leaves the file as it is.
RotateIfNeeded ==
  LET lines == ReadLastNLines(file, RotateLines) IN
  /\ IF Bytes(file) < MaxLogSize \/ lines = << >>
       THEN Goes(Main, "setup", "open") /\ kept' = kept
       ELSE Goes(Main, "setup", "truncate") /\ kept' = [kept EXCEPT ![Main] = lines]
  /\ UNCHANGED <<disk, manager, mine, spoilt>>

\* The file cannot be examined or read: Setup goes on without a rotation.
RotateFails ==
  /\ "read" \in Faults
  /\ Goes(Main, "setup", "open")
  /\ Spoil("failed")
  /\ UNCHANGED <<disk, manager, kept, mine>>

SetupOpen ==
  /\ Goes(Main, "open", "idle")
  /\ \E h \in Unused : handle' = h /\ output' = h /\ open' = open \union {h}
  /\ UNCHANGED <<disk, path, kept, mine, spoilt>>

\* Back to stdout; FilePath stays set.
SetupOpenFails ==
  /\ "open" \in Faults
  /\ Goes(Main, "open", "idle")
  /\ UNCHANGED <<disk, manager, kept, mine, spoilt>>

-----------------------------------------------------------------------------
(* Flush.                                                                  *)

\* What FlushBegin's history notes.
Entered ==
  spoilt' = spoilt \union (IF handle = Nil THEN {"nil"} ELSE {})
                   \union (IF \E q \in Procs : pc[q] = "setOutput" THEN {"overlap"} ELSE {})

\* Mutants of FlushBegin: the file is not closed; a Close that fails does not
\* end the Flush.
FlushUnclosed(p) ==
  /\ Up /\ path
  /\ handle = Nil \/ handle \in open
  /\ Goes(p, "idle", "truncate")
  /\ kept' = [kept EXCEPT ![p] = ReadLastNLines(file, FlushLines)]
  /\ Entered
  /\ UNCHANGED <<disk, manager, mine>>
FlushAnyway(p) ==
  /\ Up /\ path
  /\ Goes(p, "idle", "truncate")
  /\ open' = open \ {handle}
  /\ kept' = [kept EXCEPT ![p] = ReadLastNLines(file, FlushLines)]
  /\ Entered
  /\ UNCHANGED <<disk, path, handle, output, mine>>

\* Close the file, and read its tail; a handle closed before is an error and
\* the end of the Flush.  A tail that cannot be read is empty.
FlushBegin(p) ==
  /\ Up /\ path
  /\ handle = Nil \/ handle \in open
  /\ Goes(p, "idle", "truncate")
  /\ open' = open \ {handle}
  /\ \E lines \in {ReadLastNLines(file, FlushLines)}
                    \union (IF "read" \in Faults THEN {<< >>} ELSE {}) :
       kept' = [kept EXCEPT ![p] = lines]
  /\ Entered
  /\ UNCHANGED <<disk, path, handle, output, mine>>

\* os.WriteFile, in Flush and in the rotation of Setup, opens the file ...
Truncate(p) ==
  /\ Goes(p, "truncate", "write")
  /\ file' = << >>
  /\ UNCHANGED <<next, manager, kept, mine, spoilt>>

\* ... and writes the lines.
WriteBack(p) ==
  /\ Goes(p, "write", "open")
  /\ file' = Overlay(Ended(kept[p]), file)
  /\ kept' = [kept EXCEPT ![p] = << >>]
  /\ UNCHANGED <<next, manager, mine, spoilt>>

\* WriteFile fails before it has truncated the file, or after any part of the
\* text is written: Flush returns, Setup goes on.
WriteFails(p) ==
  /\ "write" \in Faults
  /\ \/ pc[p] = "truncate" /\ file' = file
     \/ pc[p] = "write" /\ \E part \in Cuts(Ended(kept[p])) : file' = Overlay(part, file)
  /\ pc' = [pc EXCEPT ![p] = IF p = Main THEN "open" ELSE "idle"]
  /\ kept' = [kept EXCEPT ![p] = << >>]
  /\ Spoil("failed")
  /\ UNCHANGED <<next, manager, mine>>

\* Mutants of Reopen: the manager keeps the handle it closed; the new handle
\* is shadowed and never reaches SetOutput.
ReopenKeep(p) ==
  /\ p # Main
  /\ Goes(p, "open", "setOutput")
  /\ \E h \in Unused : open' = open \union {h} /\ mine' = [mine EXCEPT ![p] = h]
  /\ UNCHANGED <<disk, path, handle, output, kept, spoilt>>

ReopenShadowed(p) ==
  /\ p # Main
  /\ Goes(p, "open", "setOutput")
  /\ \E h \in Unused : open' = open \union {h} /\ handle' = h
  /\ UNCHANGED <<disk, path, output, kept, mine, spoilt>>

\* The file is opened again and assigned to the manager.
Reopen(p) ==
  /\ p # Main
  /\ Goes(p, "open", "setOutput")
  /\ \E h \in Unused :
       open' = open \union {h} /\ mine' = [mine EXCEPT ![p] = h] /\ handle' = h
  /\ UNCHANGED <<disk, path, output, kept, spoilt>>

ReopenFails(p) ==
  /\ p # Main /\ "open" \in Faults
  /\ Goes(p, "open", "idle")
  /\ output' = Stdout
  /\ Spoil("failed")
  /\ UNCHANGED <<disk, path, handle, open, kept, mine>>

SetOutput(p) ==
  /\ Goes(p, "setOutput", "idle")
  /\ output' = mine[p]
  /\ mine' = [mine EXCEPT ![p] = Nil]
  /\ UNCHANGED <<disk, path, handle, open, kept, spoilt>>

Flush(p) ==
  \/ FlushBegin(p) \/ Reopen(p) \/ ReopenFails(p) \/ SetOutput(p)

-----------------------------------------------------------------------------
(* The logger, the end of the process.                                     *)

\* A line goes to the file through an open handle, and is lost otherwise.
Log ==
  /\ Up
  /\ next <= MaxLines
  /\ next' = next + 1
  /\ file' = IF output \in open THEN Onto(file, Line(next)) ELSE file
  /\ UNCHANGED <<manager, pc, kept, mine, spoilt>>

\* Its write fails, with nothing or a piece of it written; the log package
\* ignores the error.
LogFails ==
  /\ "write" \in Faults
  /\ Up /\ output \in open
  /\ next <= MaxLines
  /\ next' = next + 1
  /\ \E b \in 0..(LineSize[next] - 1) : file' = IF b = 0 THEN file ELSE Onto(file, Piece(b))
  /\ UNCHANGED <<manager, pc, kept, mine, spoilt>>

\* Service.Stop closes the file; handlers of open connections still run.
Close ==
  /\ Goes(Main, "idle", "stopped")
  /\ open' = open \ {handle}
  /\ UNCHANGED <<disk, path, handle, output, kept, mine, spoilt>>

\* The process ends, at any moment, and the service starts again.
Restart == Fresh /\ UNCHANGED disk

Next ==
  \/ SetupNoDirectory \/ RotateIfNeeded \/ RotateFails \/ SetupOpen \/ SetupOpenFails
  \/ Log \/ LogFails \/ Close \/ Restart
  \/ \E p \in Flushers : Flush(p)
  \/ \E p \in Procs : Truncate(p) \/ WriteBack(p) \/ WriteFails(p)

Spec == Init /\ [][Next]_vars

-----------------------------------------------------------------------------
(* Properties.                                                             *)

Rewriting == {"truncate", "write", "open"}

\* A Flush that begins without a file to close lets a second one in, and two
\* that write at once may leave a file no restart repairs.
Guarded == "nil" \notin spoilt

\* Flush takes no lock, and closing the file serves as one: a second Close of
\* a handle fails and its Flush returns, so two Flushes never rewrite the file
\* at the same time.
OneRewriter ==
  Guarded => \A p, q \in Procs :
    pc[p] \in Rewriting /\ pc[q] \in Rewriting => p = q

\* The tail a Flush writes back is still the tail of the file when it gets to
\* truncate it, and no line comes between truncating and writing: what it
\* read before is not stale.
NothingLoggedMeanwhile ==
  Guarded => \A p \in Procs :
    /\ pc[p] = "truncate" =>
         \E n \in 0..Len(file) : kept[p] = Last(file, n)
    /\ pc[p] = "write" => file = << >>

\* Whoever rewrites the file, and wherever the process is killed, its lines
\* stay in the order they were logged in, each of them once, around whatever
\* pieces of lines failed writes have left.
InOrder ==
  Guarded => \A i, j \in 1..Len(file) :
    i < j /\ file[i].line # Torn /\ file[j].line # Torn => file[i].line < file[j].line

\* When no Flush is under way the logger writes to the open file the manager
\* holds - unless a Flush failed, began without a file, or met another one
\* between its assignment and its SetOutput, or the service stopped.
LoggingAlive ==
  pc[Main] = "idle" /\ spoilt = {} /\ handle # Nil /\ (\A p \in Flushers : pc[p] = "idle")
    => output = handle /\ handle \in open

\* A restart bounds the file: whatever was logged, and wherever the last
\* process was killed, Setup opens a file below the limit - unless a write
\* failed or not even one line fits the window.
RestartBounds ==
  pc[Main] = "open" /\ spoilt = {}
    => Bytes(file) < MaxLogSize \/ ReadLastNLines(file, RotateLines) = << >>

\* What logTail answers, for every number of lines, is the reference's tail,
\* unless the window starts exactly with a line.
TailOfWindow ==
  ~WindowOnLine(file) => \A n \in 0..MaxLines : ReadLastNLines(file, n) = LastWhole(file, n)

(* What a comment says and the code does not do.                           *)

\* rotation.go:91: "If we started mid-line, discard first partial line".  So
\* a line that is whole in the window is not discarded.
TailIsWhole == \A n \in 0..MaxLines : ReadLastNLines(file, n) = LastWhole(file, n)

-----------------------------------------------------------------------------
(* The log file is a journal.  Between the two halves of WriteFile the     *)
(* lines are in the hands of the goroutine that writes them back; a kill   *)
(* there is the journal losing all of them.                                *)

Writers == {p \in Procs : pc[p] = "write"}
Content == IF Writers = {} THEN file ELSE kept[CHOOSE p \in Writers : TRUE]

Numbers(f) == [i \in 1..Len(f) |-> f[i].line]

Journal == INSTANCE LogJournal
  WITH journal <- Numbers(Content), failed <- "failed" \in spoilt, sound <- Guarded

\* Every behaviour of the log file - Flushes, rotations, failures, kills and
\* lines logged between any two of their steps - is one of the journal.
ImplementsJournal == Journal!JournalSpec
=============================================================================

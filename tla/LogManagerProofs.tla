-------------------------- MODULE LogManagerProofs --------------------------
(***************************************************************************)
(* For every number of flushers, lines and handles, whatever calls fail    *)
(* and wherever the process is killed: one Flush at a time rewrites the    *)
(* file, what it read is not stale when it truncates, and the lines of the *)
(* file stay in order.                                                     *)
(***************************************************************************)
EXTENDS LogManager, LogTailProofs

Booting == pc[Main] \in {"setup", "truncate", "write", "open"}

\* Setup runs alone, on a process that has nothing open.
BootInv ==
  Booting => /\ open = {} /\ handle = Nil
             /\ \A p \in Flushers : pc[p] = "idle"

\* The closed file is the lock of Flush: whoever is between Close and Reopen
\* has left no handle open, so nobody else gets past Close and the logger
\* writes nowhere.
GuardInv ==
  Guarded =>
    /\ open \subseteq {handle}
    /\ \A p \in Flushers : pc[p] \in Rewriting => open = {} /\ handle # Nil
    /\ \A p, q \in Flushers : pc[p] \in Rewriting /\ pc[q] \in Rewriting => p = q

\* Main is never where only a Flush can be, and the other way round; whoever
\* is about to call SetOutput has a handle for it.
RoleInv ==
  /\ pc[Main] # "setOutput"
  /\ \A p \in Flushers : pc[p] \notin {"setup", "stopped"}
  /\ \A p \in Flushers : pc[p] = "setOutput" => mine[p] \in Handles

HandleInv == TypeOK /\ BootInv /\ RoleInv /\ GuardInv

Increasing(f) ==
  \A i, j \in 1..Len(f) :
    i < j /\ f[i].line # Torn /\ f[j].line # Torn => f[i].line < f[j].line
Older(f) == \A i \in 1..Len(f) : f[i].line < next

\* The file and everything that may be written back to it is in order, and
\* older than the next line.
OrderInv ==
  Guarded =>
    /\ Increasing(file) /\ Older(file)
    /\ \A p \in Procs : Increasing(kept[p]) /\ Older(kept[p])

\* In a process where nothing went wrong one Flush runs at a time, and the
\* handle it is about to give to the logger is the manager's.
AliveInv ==
  spoilt = {} /\ pc[Main] = "idle" =>
    /\ \A p, q \in Flushers : pc[p] # "idle" /\ pc[q] # "idle" => p = q
    /\ \A p \in Flushers : pc[p] # "idle" => handle # Nil
    /\ \A p \in Flushers : pc[p] = "setOutput" => mine[p] = handle /\ handle \in open
    /\ handle # Nil /\ (\A p \in Flushers : pc[p] = "idle")
         => output = handle /\ handle \in open

\* What Setup is going to write back, and then the file, is below the limit.
SizeInv ==
  spoilt = {} =>
    /\ pc[Main] \in {"truncate", "write"} => Bytes(Ended(kept[Main])) < MaxLogSize
    /\ pc[Main] = "open" =>
         Bytes(file) < MaxLogSize \/ ReadLastNLines(file, RotateLines) = << >>

LogInv == HandleInv /\ NothingLoggedMeanwhile /\ OrderInv /\ AliveInv /\ SizeInv

-----------------------------------------------------------------------------
(* Writing to a file.                                                      *)

\* A file with a line at its end is the file, but for a last line that had no
\* end.
LEMMA OntoOf ==
  ASSUME NEW f \in Seq(Lines), NEW l \in Lines
  PROVE  /\ Onto(f, l) \in Seq(Lines)
         /\ Len(Onto(f, l)) \in {Len(f), Len(f) + 1} /\ Len(Onto(f, l)) \in Nat \ {0}
         /\ Onto(f, l)[Len(Onto(f, l))].line = l.line
         /\ \A i \in 1..(Len(Onto(f, l)) - 1) : i \in 1..Len(f) /\ Onto(f, l)[i] = f[i]
         /\ Len(Onto(f, l)) = Len(f) => f[Len(f)].line = Torn
<1>1. CASE f # << >> /\ ~f[Len(f)].ended
  <2> DEFINE end == [l EXCEPT !.bytes = f[Len(f)].bytes + l.bytes]
  <2>1. Len(f) \in Nat \ {0} /\ Len(f) \in 1..Len(f)
    BY <1>1, EmptySeq
  <2>2. f[Len(f)] \in Lines
    BY <2>1
  <2>3. f[Len(f)].line = Torn
    BY <1>1, <2>2 DEF Lines
  <2>4. end \in Lines /\ end.line = l.line
    <3> DEFINE sum == f[Len(f)].bytes + l.bytes
    <3>1. sum \in Nat \ {0}
      BY <2>2 DEF Lines
    <3> HIDE DEF sum
    <3>2. [l EXCEPT !.bytes = sum] \in Lines /\ [l EXCEPT !.bytes = sum].line = l.line
      BY <3>1 DEF Lines
    <3> QED
      BY <3>2 DEF sum
  <2>5. Onto(f, l) = [f EXCEPT ![Len(f)] = end]
    BY <1>1 DEF Onto
  <2> HIDE DEF end
  <2> QED
    BY <2>1, <2>3, <2>4, <2>5
<1>2. CASE ~(f # << >> /\ ~f[Len(f)].ended)
  <2>1. Onto(f, l) = Append(f, l)
    BY <1>2 DEF Onto
  <2>2. Len(f) \in Nat
    OBVIOUS
  <2> QED
    BY <2>1, <2>2, AppendProperties
<1> QED
  BY <1>1, <1>2

LEMMA LineType ==
  /\ \A l \in 1..MaxLines : Line(l) \in Lines /\ Line(l).line = l
  /\ \A b \in Nat \ {0} : Piece(b) \in Lines /\ Piece(b).line = Torn
<1>1. ASSUME NEW l \in 1..MaxLines PROVE Line(l) \in Lines /\ Line(l).line = l
  <2>1. LineSize[l] \in Nat \ {0} /\ l \in 0..MaxLines
    BY TailAssumption
  <2> QED
    BY <2>1 DEF Line, Lines
<1>2. ASSUME NEW b \in Nat \ {0} PROVE Piece(b) \in Lines /\ Piece(b).line = Torn
  BY TailAssumption DEF Piece, Lines, Torn
<1> QED
  BY <1>1, <1>2

\* What is written back has the lines it is made from, and a newline more at
\* most.
LEMMA EndedOf ==
  ASSUME NEW f \in Seq(Lines)
  PROVE  /\ Ended(f) \in Seq(Lines) /\ Len(Ended(f)) = Len(f)
         /\ \A i \in 1..Len(f) : Ended(f)[i].line = f[i].line
         /\ Bytes(Ended(f)) <= Bytes(f) + 1
<1>0. Bytes(f) \in Nat
  BY CountsExist, BytesOf
<1>1. CASE f # << >> /\ ~f[Len(f)].ended
  <2> DEFINE end == [f[Len(f)] EXCEPT !.bytes = f[Len(f)].bytes + 1, !.ended = TRUE]
  <2>1. Len(f) \in Nat \ {0} /\ Len(f) \in 1..Len(f)
    BY <1>1, EmptySeq
  <2>2. f[Len(f)] \in Lines
    BY <2>1
  <2>3. /\ end \in Lines /\ end.line = f[Len(f)].line
        /\ f[Len(f)].bytes \in Nat /\ end.bytes = f[Len(f)].bytes + 1
    <3> DEFINE last   == f[Len(f)]
               longer == [last EXCEPT !.bytes = last.bytes + 1]
    <3>1. last \in Lines
      BY <2>2
    <3> HIDE DEF last
    <3>2. last \in [line: 0..MaxLines, bytes: Nat \ {0}, ended: BOOLEAN]
      BY <3>1 DEF Lines
    <3>3. longer \in [line: 0..MaxLines, bytes: Nat \ {0}, ended: BOOLEAN]
      BY <3>2
    <3>4. longer.line = last.line /\ longer.bytes = last.bytes + 1
      BY <3>2
    <3> HIDE DEF longer
    <3>5. /\ [longer EXCEPT !.ended = TRUE] \in Lines
          /\ [longer EXCEPT !.ended = TRUE].line = longer.line
          /\ [longer EXCEPT !.ended = TRUE].bytes = longer.bytes
      BY <3>3 DEF Lines
    <3> QED
      BY <3>2, <3>4, <3>5 DEF last, longer
  <2>4. Ended(f) = [f EXCEPT ![Len(f)] = end]
    BY <1>1 DEF Ended
  <2> HIDE DEF end
  <2>5. Bytes(Ended(f)) = Bytes(f) - f[Len(f)].bytes + end.bytes
    BY <1>1, <2>3, <2>4, BytesWithLast
  <2>6. Bytes(Ended(f)) <= Bytes(f) + 1
    BY <1>0, <2>3, <2>5
  <2> QED
    BY <2>1, <2>3, <2>4, <2>6
<1>2. CASE ~(f # << >> /\ ~f[Len(f)].ended)
  BY <1>0, <1>2 DEF Ended
<1> QED
  BY <1>1, <1>2

\* What a failed write leaves is some of the first lines, and perhaps a piece.
LEMMA CutOf ==
  ASSUME NEW f \in Seq(Lines), NEW part \in Cuts(f)
  PROVE  /\ part \in Seq(Lines)
         /\ \E n \in 0..Len(f) :
              /\ \A i \in 1..n : part[i] = f[i]
              /\ \/ Len(part) = n
                 \/ n < Len(f) /\ Len(part) = n + 1 /\ part[n + 1].line = Torn
<1>0. Len(f) \in Nat /\ \A i \in 1..Len(f) : f[i] \in Lines
  OBVIOUS
<1>1. ASSUME NEW n \in 0..Len(f)
      PROVE  /\ SubSeq(f, 1, n) \in Seq(Lines) /\ Len(SubSeq(f, 1, n)) = n
             /\ \A i \in 1..n : SubSeq(f, 1, n)[i] = f[i]
  <2>1. \A i \in 1..n : f[i] \in Lines
    BY <1>0
  <2> QED
    BY <1>0, <2>1, SubSeqProperties
<1>2. CASE \E n \in 0..Len(f) : part = SubSeq(f, 1, n)
  BY <1>1, <1>2
<1>3. CASE \E i \in 1..Len(f) : \E b \in 1..(f[i].bytes - 1) :
             part = Append(SubSeq(f, 1, i - 1), Piece(b))
  <2>0. PICK i \in 1..Len(f) : \E b \in 1..(f[i].bytes - 1) :
          part = Append(SubSeq(f, 1, i - 1), Piece(b))
    BY <1>3
  <2>1. PICK b \in 1..(f[i].bytes - 1) : part = Append(SubSeq(f, 1, i - 1), Piece(b))
    BY <2>0
  <2>2. f[i].bytes \in Nat
    BY SizeType
  <2>3. Piece(b) \in Lines /\ Piece(b).line = Torn
    BY <2>1, <2>2, LineType
  <2>4. i - 1 \in 0..Len(f) /\ i - 1 < Len(f) /\ i - 1 \in Nat
    BY <1>0
  <2> DEFINE first == SubSeq(f, 1, i - 1)
  <2>5. /\ first \in Seq(Lines) /\ Len(first) = i - 1
        /\ \A j \in 1..(i - 1) : first[j] = f[j]
    BY <1>1, <2>4
  <2> HIDE DEF first
  <2>6. part = Append(first, Piece(b))
    BY <2>1 DEF first
  <2>7. part \in Seq(Lines) /\ Len(part) = (i - 1) + 1 /\ part[(i - 1) + 1] = Piece(b)
    BY <2>3, <2>5, <2>6, AppendProperties
  <2>8. \A j \in 1..(i - 1) : part[j] = f[j]
    BY <2>3, <2>5, <2>6, AppendProperties
  <2> QED
    BY <2>3, <2>4, <2>7, <2>8
<1> QED
  BY <1>2, <1>3 DEF Cuts

\* A write at offset 0 leaves lines, and all of the file is what was written
\* when it was empty.
LEMMA OverlayType ==
  ASSUME NEW new \in Seq(Lines), NEW old \in Seq(Lines)
  PROVE  /\ Overlay(new, old) \in Seq(Lines)
         /\ (old = << >> => Overlay(new, old) = new)
<1> DEFINE after == {i \in 1..Len(old) : Bytes(SubSeq(old, 1, i - 1)) >= Bytes(new)}
           m == Cardinality(after)
           rest == Last(old, m)
<1>1. Len(old) \in Nat /\ after \subseteq 1..Len(old)
  OBVIOUS
<1>2. m \in 0..Len(old)
  BY <1>1, CountUpTo
<1>3. rest \in Seq(Lines) /\ Len(rest) = m
  BY <1>2, LastOf
<1>4. Overlay(new, old) = IF rest = << >> THEN new ELSE Onto(new, Head(rest)) \o Tail(rest)
  BY DEF Overlay
<1>5. old = << >> => rest = << >>
  <2>1. old = << >> => m = 0
    BY <1>2
  <2> QED
    BY <2>1, <1>3, EmptySeq
<1> HIDE DEF rest
<1>6. ASSUME rest # << >> PROVE Onto(new, Head(rest)) \o Tail(rest) \in Seq(Lines)
  <2>1. Head(rest) \in Lines /\ Tail(rest) \in Seq(Lines)
    BY <1>3, <1>6, HeadTailProperties
  <2>2. Onto(new, Head(rest)) \in Seq(Lines)
    BY <2>1, OntoOf
  <2> QED
    BY <2>1, <2>2, ConcatProperties
<1> QED
  BY <1>4, <1>5, <1>6

-----------------------------------------------------------------------------
(* Types.                                                                  *)

\* The program starts with nothing open and nothing written.
LEMMA LogInit == Init => LogInv
<1> SUFFICES ASSUME Init PROVE LogInv
  OBVIOUS
<1>1. << >> \in Seq(Lines) /\ Len(<< >>) = 0
  OBVIOUS
<1> QED
  BY <1>1, LogAssumption, TailAssumption DEF Init, LogInv, HandleInv, TypeOK, BootInv,
     Booting, RoleInv, GuardInv, Guarded, Rewriting, NothingLoggedMeanwhile, OrderInv,
     AliveInv, SizeInv, Increasing, Older, Positions, Spoils, Procs

\* A line that is logged is added to the file, or joins its torn end, whole or
\* in pieces, or is missed.
LEMMA LoggedOf ==
  ASSUME TypeOK, Log \/ LogFails
  PROVE  \/ file' = file
         \/ \E l \in Lines : /\ file' = Onto(file, l) /\ file' \in Seq(Lines)
                            /\ (l.line = Torn \/ (Log /\ l.line = next))
<1>1. CASE Log
  <2>1. next \in 1..MaxLines
    BY <1>1, TailAssumption DEF Log, TypeOK
  <2>2. Line(next) \in Lines /\ Line(next).line = next
    BY <2>1, LineType
  <2>3. Onto(file, Line(next)) \in Seq(Lines)
    BY <2>2, OntoOf DEF TypeOK
  <2> QED
    BY <1>1, <2>2, <2>3 DEF Log
<1>2. CASE LogFails
  <2>1. next \in 1..MaxLines
    BY <1>2, TailAssumption DEF LogFails, TypeOK
  <2>2. LineSize[next] \in Nat
    BY <2>1, TailAssumption
  <2>3. PICK b \in 0..(LineSize[next] - 1) :
          file' = IF b = 0 THEN file ELSE Onto(file, Piece(b))
    BY <1>2 DEF LogFails
  <2>4. CASE b = 0
    BY <2>3, <2>4
  <2>5. CASE b # 0
    <3>1. Piece(b) \in Lines /\ Piece(b).line = Torn
      BY <2>2, <2>5, LineType
    <3>2. Onto(file, Piece(b)) \in Seq(Lines)
      BY <3>1, OntoOf DEF TypeOK
    <3> QED
      BY <2>3, <2>5, <3>1, <3>2
  <2> QED
    BY <2>4, <2>5
<1> QED
  BY <1>1, <1>2

\* A write that ends leaves the text that was written on an empty file, all of
\* it or a part.
LEMMA WrittenOf ==
  ASSUME TypeOK, NEW p \in Procs, WriteBack(p) \/ WriteFails(p)
  PROVE  /\ file' \in Seq(Lines)
         /\ WriteBack(p) /\ file = << >> => file' = Ended(kept[p])
         /\ WriteFails(p) /\ file = << >> /\ pc[p] = "write" => file' \in Cuts(Ended(kept[p]))
         /\ pc[p] = "truncate" => file' = file
<1>1. kept[p] \in Seq(Lines) /\ file \in Seq(Lines)
  BY DEF TypeOK
<1>2. Ended(kept[p]) \in Seq(Lines)
  BY <1>1, EndedOf
<1>3. ASSUME WriteBack(p)
      PROVE  /\ pc[p] = "write" /\ file' \in Seq(Lines)
             /\ file = << >> => file' = Ended(kept[p])
  <2>1. pc[p] = "write" /\ file' = Overlay(Ended(kept[p]), file)
    BY <1>3 DEF WriteBack, Goes
  <2> QED
    BY <1>1, <1>2, <2>1, OverlayType
<1>4. ASSUME WriteFails(p)
      PROVE  /\ file' \in Seq(Lines)
             /\ file = << >> /\ pc[p] = "write" => file' \in Cuts(Ended(kept[p]))
             /\ pc[p] = "truncate" => file' = file
  <2>1. CASE pc[p] = "truncate" /\ file' = file
    BY <1>1, <2>1
  <2>2. CASE pc[p] = "write" /\ \E part \in Cuts(Ended(kept[p])) : file' = Overlay(part, file)
    <3>1. PICK part \in Cuts(Ended(kept[p])) : file' = Overlay(part, file)
      BY <2>2
    <3>2. part \in Seq(Lines)
      BY <1>2, CutOf
    <3>3. file' \in Seq(Lines) /\ (file = << >> => file' = part)
      BY <1>1, <3>1, <3>2, OverlayType
    <3> QED
      BY <2>2, <3>3
  <2> QED
    BY <1>4, <2>1, <2>2 DEF WriteFails
<1> QED
  BY <1>3, <1>4

\* Every step keeps the types.
LEMMA TypeStep == TypeOK /\ RoleInv /\ [Next]_vars => TypeOK'
<1> SUFFICES ASSUME TypeOK, RoleInv, [Next]_vars PROVE TypeOK'
  OBVIOUS
<1> USE LogAssumption, TailAssumption DEF TypeOK, Positions, Spoils, Procs, disk, manager, Goes
<1>0. << >> \in Seq(Lines)
  OBVIOUS
<1>1. CASE SetupNoDirectory \/ RotateFails
  BY <1>1 DEF SetupNoDirectory, RotateFails, Spoil
<1>2. CASE RotateIfNeeded
  <2>1. ReadLastNLines(file, RotateLines) \in Seq(Lines)
    BY TailType
  <2> QED
    BY <1>2, <2>1 DEF RotateIfNeeded
<1>3. CASE SetupOpen \/ SetupOpenFails
  BY <1>3 DEF SetupOpen, SetupOpenFails, Unused
<1>4. CASE Log \/ LogFails
  <2>1. file' \in Seq(Lines)
    BY <1>4, LoggedOf
  <2>2. next' \in 1..(MaxLines + 1)
    BY <1>4 DEF Log, LogFails
  <2> QED
    BY <1>4, <2>1, <2>2 DEF Log, LogFails
<1>5. CASE Close
  BY <1>5 DEF Close
<1>6. CASE Restart
  BY <1>6, <1>0 DEF Restart, Fresh
<1>7. ASSUME NEW p \in Flushers, FlushBegin(p) PROVE TypeOK'
  <2>1. ReadLastNLines(file, FlushLines) \in Seq(Lines)
    BY TailType
  <2>2. kept' \in [Procs -> Seq(Lines)]
    <3>1. PICK lines \in {ReadLastNLines(file, FlushLines), << >>} :
            kept' = [kept EXCEPT ![p] = lines]
      BY <1>7 DEF FlushBegin
    <3> QED
      BY <1>0, <2>1, <3>1
  <2> QED
    BY <1>7, <2>2 DEF FlushBegin, Entered
<1>8. ASSUME NEW p \in Flushers, Reopen(p) PROVE TypeOK'
  BY <1>8 DEF Reopen, Unused
<1>9. ASSUME NEW p \in Flushers, ReopenFails(p) \/ SetOutput(p) PROVE TypeOK'
  <2>1. CASE ReopenFails(p)
    BY <2>1 DEF ReopenFails, Spoil
  <2>2. CASE SetOutput(p)
    BY <2>2 DEF SetOutput, RoleInv
  <2> QED
    BY <1>9, <2>1, <2>2
<1>10. ASSUME NEW p \in Procs, Truncate(p) PROVE TypeOK'
  BY <1>10, <1>0 DEF Truncate
<1>11. ASSUME NEW p \in Procs, WriteBack(p) PROVE TypeOK'
  BY <1>11, <1>0, WrittenOf DEF WriteBack
<1>12. ASSUME NEW p \in Procs, WriteFails(p) PROVE TypeOK'
  BY <1>12, <1>0, WrittenOf DEF WriteFails, Spoil
<1>13. CASE UNCHANGED vars
  BY <1>13 DEF vars
<1> QED
  BY <1>1, <1>2, <1>3, <1>4, <1>5, <1>6, <1>7, <1>8, <1>9, <1>10, <1>11, <1>12, <1>13
     DEF Next, Flush

\* Every step keeps the two roles apart.
LEMMA RoleStep == TypeOK /\ RoleInv /\ [Next]_vars => RoleInv'
<1> SUFFICES ASSUME TypeOK, RoleInv, [Next]_vars PROVE RoleInv'
  OBVIOUS
<1> USE LogAssumption DEF TypeOK, RoleInv, Procs, Goes
<1>1. CASE SetupNoDirectory \/ RotateIfNeeded \/ RotateFails \/ SetupOpen \/ SetupOpenFails
  BY <1>1 DEF SetupNoDirectory, RotateIfNeeded, RotateFails, SetupOpen, SetupOpenFails
<1>2. CASE Log \/ LogFails \/ Close \/ UNCHANGED vars
  BY <1>2 DEF Log, LogFails, Close, vars
<1>3. CASE Restart
  BY <1>3 DEF Restart, Fresh
<1>4. ASSUME NEW p \in Flushers, FlushBegin(p) PROVE RoleInv'
  BY <1>4 DEF FlushBegin
<1>5. ASSUME NEW p \in Flushers, Reopen(p) PROVE RoleInv'
  BY <1>5 DEF Reopen, Unused
<1>6. ASSUME NEW p \in Flushers, ReopenFails(p) \/ SetOutput(p) PROVE RoleInv'
  BY <1>6 DEF ReopenFails, SetOutput
<1>7. ASSUME NEW p \in Procs, Truncate(p) \/ WriteBack(p) \/ WriteFails(p) PROVE RoleInv'
  BY <1>7 DEF Truncate, WriteBack, WriteFails
<1> QED
  BY <1>1, <1>2, <1>3, <1>4, <1>5, <1>6, <1>7 DEF Next, Flush

-----------------------------------------------------------------------------
(* The closed file as a lock.                                              *)

\* Every step keeps the handles as GuardInv says, and Setup alone.
LEMMA GuardStep == HandleInv /\ [Next]_vars => BootInv' /\ GuardInv'
<1> SUFFICES ASSUME HandleInv, [Next]_vars PROVE BootInv' /\ GuardInv'
  OBVIOUS
<1> USE LogAssumption DEF HandleInv, TypeOK, RoleInv, BootInv, Booting, GuardInv,
        Guarded, Rewriting, Procs, Goes, Up, disk, manager
<1>1. CASE SetupNoDirectory \/ RotateIfNeeded \/ RotateFails \/ SetupOpenFails
  BY <1>1 DEF SetupNoDirectory, RotateIfNeeded, RotateFails, SetupOpenFails, Spoil
<1>2. CASE SetupOpen
  BY <1>2 DEF SetupOpen
<1>3. CASE Log \/ LogFails \/ UNCHANGED vars
  BY <1>3 DEF Log, LogFails, vars
<1>4. CASE Close
  BY <1>4 DEF Close
<1>5. CASE Restart
  BY <1>5 DEF Restart, Fresh
<1>6. ASSUME NEW p \in Flushers, FlushBegin(p) PROVE BootInv' /\ GuardInv'
  <2>1. BootInv'
    BY <1>6 DEF FlushBegin
  <2>2. ASSUME Guarded' PROVE Guarded /\ handle # Nil /\ handle \in open
    BY <1>6, <2>2 DEF FlushBegin, Entered
  <2>3. ASSUME Guarded' PROVE \A q \in Flushers : pc[q] \notin Rewriting
    BY <2>2, <2>3
  <2>4. GuardInv'
    BY <1>6, <2>2, <2>3 DEF FlushBegin
  <2> QED
    BY <2>1, <2>4
<1>7. ASSUME NEW p \in Flushers, Reopen(p) PROVE BootInv' /\ GuardInv'
  <2>1. BootInv'
    BY <1>7 DEF Reopen
  <2>2. PICK h \in Unused : open' = open \union {h} /\ handle' = h
    BY <1>7 DEF Reopen
  <2>3. ASSUME Guarded' PROVE open = {} /\ \A q \in Flushers : pc[q] \in Rewriting => q = p
    BY <1>7, <2>3 DEF Reopen
  <2>4. GuardInv'
    BY <1>7, <2>2, <2>3 DEF Reopen
  <2> QED
    BY <2>1, <2>4
<1>8. ASSUME NEW p \in Flushers, ReopenFails(p) \/ SetOutput(p) PROVE BootInv' /\ GuardInv'
  <2>1. CASE ReopenFails(p)
    BY <1>8, <2>1 DEF ReopenFails, Spoil
  <2>2. CASE SetOutput(p)
    BY <1>8, <2>2 DEF SetOutput
  <2> QED
    BY <1>8, <2>1, <2>2
<1>9. ASSUME NEW p \in Procs, Truncate(p) \/ WriteBack(p) \/ WriteFails(p)
      PROVE BootInv' /\ GuardInv'
  <2>1. CASE Truncate(p)
    BY <1>9, <2>1 DEF Truncate
  <2>2. CASE WriteBack(p)
    BY <1>9, <2>2 DEF WriteBack
  <2>3. CASE WriteFails(p)
    BY <1>9, <2>3 DEF WriteFails, Spoil
  <2> QED
    BY <1>9, <2>1, <2>2, <2>3
<1> QED
  BY <1>1, <1>2, <1>3, <1>4, <1>5, <1>6, <1>7, <1>8, <1>9 DEF Next, Flush

\* While somebody rewrites the file the logger has no open handle.
LEMMA NoLogWhileRewriting ==
  ASSUME HandleInv, Guarded, Log \/ LogFails, NEW p \in Procs
  PROVE  pc[p] \notin {"truncate", "write"} \/ file' = file
<1> USE LogAssumption DEF HandleInv, TypeOK, RoleInv, GuardInv, Rewriting, Procs
<1>1. CASE p = Main
  BY <1>1 DEF Log, LogFails, Up
<1>2. CASE p \in Flushers
  BY <1>2 DEF Log, LogFails
<1> QED
  BY <1>1, <1>2

\* One rewriter at a time, Setup included.
LEMMA Exclusive == HandleInv => OneRewriter
  BY LogAssumption DEF HandleInv, TypeOK, RoleInv, BootInv, Booting, GuardInv, Rewriting,
     OneRewriter, Procs

\* Every step keeps the tail somebody is about to write back up to date.
LEMMA TailStep ==
  HandleInv /\ NothingLoggedMeanwhile /\ [Next]_vars => NothingLoggedMeanwhile'
<1> SUFFICES ASSUME HandleInv, NothingLoggedMeanwhile, [Next]_vars, Guarded'
             PROVE  \A p \in Procs :
                      /\ pc'[p] = "truncate" => \E n \in 0..Len(file') : kept'[p] = Last(file', n)
                      /\ pc'[p] = "write" => file' = << >>
  BY DEF NothingLoggedMeanwhile
<1>g. Guarded
  BY DEF Guarded, Next, vars, SetupNoDirectory, RotateIfNeeded, RotateFails, SetupOpen, SetupOpenFails,
     Log, LogFails, Close, Restart, Fresh, Flush, FlushBegin, Entered, Reopen, ReopenFails, SetOutput,
     Truncate, WriteBack, WriteFails, Spoil
<1> USE <1>g, LogAssumption DEF HandleInv, TypeOK, NothingLoggedMeanwhile, Procs, Goes,
        disk, manager
<1>1. CASE SetupNoDirectory \/ RotateFails \/ SetupOpen \/ SetupOpenFails \/ Close \/ UNCHANGED vars
  BY <1>1 DEF SetupNoDirectory, RotateFails, SetupOpen, SetupOpenFails, Close, vars
<1>2. CASE RotateIfNeeded
  <2>1. \E n \in 0..Len(file) : ReadLastNLines(file, RotateLines) = Last(file, n)
    BY TailIsLast
  <2> QED
    BY <1>2, <2>1 DEF RotateIfNeeded
<1>3. CASE Log \/ LogFails
  BY <1>3, NoLogWhileRewriting DEF Log, LogFails
<1>4. CASE Restart
  BY <1>4 DEF Restart, Fresh
<1>5. ASSUME NEW q \in Flushers, FlushBegin(q)
      PROVE  \A p \in Procs :
               /\ pc'[p] = "truncate" => \E n \in 0..Len(file') : kept'[p] = Last(file', n)
               /\ pc'[p] = "write" => file' = << >>
  <2>1. \E n \in 0..Len(file) : ReadLastNLines(file, FlushLines) = Last(file, n)
    BY TailIsLast
  <2>2. 0 \in 0..Len(file) /\ Last(file, 0) = << >>
    BY LastOf, EmptySeq
  <2>3. PICK lines \in {ReadLastNLines(file, FlushLines), << >>} :
          kept' = [kept EXCEPT ![q] = lines]
    BY <1>5 DEF FlushBegin
  <2>4. \E n \in 0..Len(file) : lines = Last(file, n)
    BY <2>1, <2>2, <2>3
  <2> QED
    BY <1>5, <2>3, <2>4 DEF FlushBegin
<1>6. ASSUME NEW q \in Flushers, Reopen(q) \/ ReopenFails(q) \/ SetOutput(q)
      PROVE  \A p \in Procs :
               /\ pc'[p] = "truncate" => \E n \in 0..Len(file') : kept'[p] = Last(file', n)
               /\ pc'[p] = "write" => file' = << >>
  BY <1>6 DEF Reopen, ReopenFails, SetOutput
<1>7. ASSUME NEW q \in Procs, Truncate(q) \/ WriteBack(q) \/ WriteFails(q)
      PROVE  \A p \in Procs :
               /\ pc'[p] = "truncate" => \E n \in 0..Len(file') : kept'[p] = Last(file', n)
               /\ pc'[p] = "write" => file' = << >>
  <2>1. \A p \in Procs : pc[p] \in Rewriting /\ pc[q] \in Rewriting => p = q
    BY Exclusive DEF OneRewriter
  <2>2. CASE Truncate(q)
    BY <2>1, <2>2 DEF Truncate, Rewriting
  <2>3. CASE WriteBack(q)
    BY <2>1, <2>3 DEF WriteBack, Rewriting
  <2>4. CASE WriteFails(q)
    BY <2>1, <2>4 DEF WriteFails, Rewriting
  <2> QED
    BY <1>7, <2>2, <2>3, <2>4
<1> QED
  BY <1>1, <1>2, <1>3, <1>4, <1>5, <1>6, <1>7 DEF Next, Flush

-----------------------------------------------------------------------------
(* The order of the lines.                                                 *)

\* Lines in order stay so, and as old, when some become pieces or are cut off
\* the end.
LEMMA PartInOrder ==
  ASSUME NEW f \in Seq(Lines), NEW h \in Seq(Lines), next \in Nat \ {0},
         \A i \in 1..Len(h) : h[i].line = Torn \/ (i \in 1..Len(f) /\ h[i].line = f[i].line),
         Increasing(f), Older(f)
  PROVE  Increasing(h) /\ Older(h)
<1>1. Older(h)
  BY DEF Older, Torn
<1>2. ASSUME NEW i \in 1..Len(h), NEW j \in 1..Len(h),
             i < j, h[i].line # Torn, h[j].line # Torn
      PROVE  h[i].line < h[j].line
  BY <1>2 DEF Increasing
<1> QED
  BY <1>1, <1>2 DEF Increasing

\* A suffix of lines in order is in order, and as old.
LEMMA LastInOrder ==
  ASSUME NEW f \in Seq(Lines), NEW n \in 0..Len(f), Increasing(f), Older(f)
  PROVE  Increasing(Last(f, n)) /\ Older(Last(f, n))
<1>1. Len(Last(f, n)) = n /\ \A i \in 1..n : Last(f, n)[i] = f[Len(f) - n + i]
  BY LastOf
<1>2. Len(f) \in Nat /\ \A i \in 1..n : Len(f) - n + i \in 1..Len(f)
  OBVIOUS
<1>3. \A i, j \in 1..n : i < j => Len(f) - n + i < Len(f) - n + j
  BY <1>2
<1> QED
  BY <1>1, <1>2, <1>3 DEF Increasing, Older

\* The lines of a file are numbers up to the bound.
LEMMA NumberType ==
  ASSUME NEW f \in Seq(Lines), NEW i \in 1..Len(f)
  PROVE  f[i].line \in Nat
<1>1. f[i] \in Lines
  OBVIOUS
<1> QED
  BY <1>1 DEF Lines

\* A file in order stays so with a new line, or a piece of one, at its end.
LEMMA OntoInOrder ==
  ASSUME NEW f \in Seq(Lines), NEW l \in Lines, next \in Nat \ {0},
         l.line = Torn \/ l.line = next, Increasing(f), Older(f)
  PROVE  /\ Increasing(Onto(f, l))
         /\ \A i \in 1..Len(Onto(f, l)) : Onto(f, l)[i].line < next + 1
<1> DEFINE h == Onto(f, l)
           n == Len(h)
<1>1. /\ h \in Seq(Lines) /\ n \in Nat \ {0} /\ h[n].line = l.line
      /\ \A i \in 1..(n - 1) : i \in 1..Len(f) /\ h[i] = f[i]
  BY OntoOf
<1> HIDE DEF h, n
<1>2. \A i \in 1..n : i \in 1..(n - 1) \/ i = n
  BY <1>1
<1>3. \A i \in 1..(n - 1) : h[i].line \in Nat /\ h[i].line < next
  BY <1>1, NumberType DEF Older
<1>4. \A i \in 1..n : h[i].line < next + 1
  BY <1>1, <1>2, <1>3 DEF Torn
<1>5. ASSUME NEW i \in 1..n, NEW j \in 1..n, i < j, h[i].line # Torn, h[j].line # Torn
      PROVE  h[i].line < h[j].line
  <2>1. i \in 1..(n - 1)
    BY <1>1, <1>5
  <2>2. CASE j = n
    BY <1>1, <1>3, <1>5, <2>1, <2>2
  <2>3. CASE j \in 1..(n - 1)
    BY <1>1, <1>5, <2>1, <2>3 DEF Increasing
  <2> QED
    BY <1>2, <2>2, <2>3
<1> QED
  BY <1>4, <1>5 DEF h, n, Increasing

\* A step that gives one goroutine other lines in order leaves all in order.
LEMMA HeldInOrder ==
  ASSUME next' = next, kept \in [Procs -> Seq(Lines)],
         \A p \in Procs : Increasing(kept[p]) /\ Older(kept[p]),
         NEW q \in Procs, NEW lines \in Seq(Lines), Increasing(lines), Older(lines),
         kept' = [kept EXCEPT ![q] = lines]
  PROVE  \A p \in Procs : Increasing(kept[p])' /\ Older(kept[p])'
<1>1. \A p \in Procs : kept'[p] = IF p = q THEN lines ELSE kept[p]
  OBVIOUS
<1>2. \A p \in Procs : Increasing(kept'[p]) /\ Older(kept'[p])
  BY <1>1
<1> QED
  BY <1>2 DEF Increasing, Older

\* Every step keeps the lines in order, in the file and on their way to it.
LEMMA OrderStep ==
  HandleInv /\ NothingLoggedMeanwhile /\ OrderInv /\ [Next]_vars => OrderInv'
<1> DEFINE Ordered == /\ Increasing(file)' /\ Older(file)'
                      /\ \A p \in Procs : Increasing(kept[p])' /\ Older(kept[p])'
<1> SUFFICES ASSUME HandleInv, NothingLoggedMeanwhile, OrderInv, [Next]_vars, Guarded'
             PROVE  Ordered
  BY DEF OrderInv
<1>g. Guarded
  BY DEF Guarded, Next, vars, SetupNoDirectory, RotateIfNeeded, RotateFails, SetupOpen, SetupOpenFails,
     Log, LogFails, Close, Restart, Fresh, Flush, FlushBegin, Entered, Reopen, ReopenFails, SetOutput,
     Truncate, WriteBack, WriteFails, Spoil
<1> USE <1>g, LogAssumption DEF HandleInv, TypeOK, OrderInv, Procs, Goes, disk, manager
<1>0. << >> \in Seq(Lines) /\ Increasing(<< >>) /\ Older(<< >>) /\ Older(<< >>)'
  BY DEF Increasing, Older
<1>1. CASE SetupNoDirectory \/ RotateFails \/ SetupOpen \/ SetupOpenFails \/ Close \/ UNCHANGED vars
  <2>1. UNCHANGED <<file, next, kept>>
    BY <1>1 DEF SetupNoDirectory, RotateFails, SetupOpen, SetupOpenFails, Close, vars
  <2> QED
    BY <2>1 DEF Increasing, Older
<1>2. CASE RotateIfNeeded
  <2>1. PICK n \in 0..Len(file) : ReadLastNLines(file, RotateLines) = Last(file, n)
    BY TailIsLast
  <2>2. Last(file, n) \in Seq(Lines) /\ Increasing(Last(file, n)) /\ Older(Last(file, n))
    BY LastInOrder, LastOf
  <2>3. kept' = kept \/ kept' = [kept EXCEPT ![Main] = Last(file, n)]
    BY <1>2, <2>1 DEF RotateIfNeeded
  <2>4. file' = file /\ next' = next
    BY <1>2 DEF RotateIfNeeded
  <2>5. \A p \in Procs : Increasing(kept[p])' /\ Older(kept[p])'
    <3>1. CASE kept' = kept
      BY <2>4, <3>1 DEF Increasing, Older
    <3>2. CASE kept' = [kept EXCEPT ![Main] = Last(file, n)]
      BY <2>2, <2>4, <3>2, HeldInOrder
    <3> QED
      BY <2>3, <3>1, <3>2
  <2> QED
    BY <2>4, <2>5 DEF Increasing, Older
<1>3. CASE Log \/ LogFails
  <2>1. next \in Nat \ {0} /\ next' = next + 1 /\ kept' = kept
    BY <1>3 DEF Log, LogFails
  <2>2. ASSUME NEW f \in Seq(Lines), Older(f) PROVE Older(f)'
    <3>1. \A i \in 1..Len(f) : f[i].line \in Nat
      BY NumberType
    <3> QED
      BY <2>1, <2>2, <3>1 DEF Older
  <2>3. Older(file)' /\ Increasing(file)'
    <3>1. CASE file' = file
      BY <2>2, <3>1 DEF Older, Increasing
    <3>2. CASE file' # file
      <4>1. PICK l \in Lines : file' = Onto(file, l) /\ (l.line = Torn \/ l.line = next)
        BY <1>3, <3>2, LoggedOf
      <4>2. file \in Seq(Lines) /\ Increasing(file) /\ Older(file)
        OBVIOUS
      <4>3. /\ Increasing(Onto(file, l))
            /\ \A i \in 1..Len(Onto(file, l)) : Onto(file, l)[i].line < next + 1
        BY <2>1, <4>1, <4>2, OntoInOrder
      <4> QED
        BY <2>1, <4>1, <4>3 DEF Older, Increasing
    <3> QED
      BY <3>1, <3>2
  <2>4. \A p \in Procs : Increasing(kept[p])' /\ Older(kept[p])'
    <3>1. ASSUME NEW p \in Procs PROVE Increasing(kept[p])' /\ Older(kept[p])'
      <4>1. kept[p] \in Seq(Lines) /\ Increasing(kept[p]) /\ Older(kept[p])
        OBVIOUS
      <4> QED
        BY <2>1, <2>2, <4>1 DEF Increasing, Older
    <3> QED
      BY <3>1
  <2> QED
    BY <2>3, <2>4
<1>4. CASE Restart
  BY <1>4, <1>0 DEF Restart, Fresh, Increasing, Older
<1>5. ASSUME NEW q \in Flushers, FlushBegin(q) PROVE Ordered
  <2>1. PICK n \in 0..Len(file) : ReadLastNLines(file, FlushLines) = Last(file, n)
    BY TailIsLast
  <2>2. Last(file, n) \in Seq(Lines) /\ Increasing(Last(file, n)) /\ Older(Last(file, n))
    BY LastInOrder, LastOf
  <2>3. PICK lines \in {ReadLastNLines(file, FlushLines), << >>} :
          kept' = [kept EXCEPT ![q] = lines]
    BY <1>5 DEF FlushBegin
  <2>4. lines \in Seq(Lines) /\ Increasing(lines) /\ Older(lines)
    BY <1>0, <2>1, <2>2, <2>3
  <2>5. file' = file /\ next' = next
    BY <1>5 DEF FlushBegin
  <2>6. \A p \in Procs : Increasing(kept[p])' /\ Older(kept[p])'
    BY <2>3, <2>4, <2>5, HeldInOrder
  <2> QED
    BY <2>5, <2>6 DEF Increasing, Older
<1>6. ASSUME NEW q \in Flushers, Reopen(q) \/ ReopenFails(q) \/ SetOutput(q) PROVE Ordered
  <2>1. UNCHANGED <<file, next, kept>>
    BY <1>6 DEF Reopen, ReopenFails, SetOutput
  <2> QED
    BY <2>1 DEF Increasing, Older
<1>7. ASSUME NEW q \in Procs, Truncate(q) PROVE Ordered
  BY <1>7, <1>0 DEF Truncate, Increasing, Older
<1>8. ASSUME NEW q \in Procs, WriteBack(q) PROVE Ordered
  <2>1. file = << >>
    BY <1>8 DEF WriteBack, NothingLoggedMeanwhile
  <2>2. file' = Ended(kept[q]) /\ kept[q] \in Seq(Lines) /\ next' = next
    BY <1>8, <2>1, WrittenOf DEF WriteBack
  <2>3. Increasing(file') /\ Older(file')
    <3>1. /\ Ended(kept[q]) \in Seq(Lines) /\ Len(Ended(kept[q])) = Len(kept[q])
          /\ \A i \in 1..Len(kept[q]) : Ended(kept[q])[i].line = kept[q][i].line
      BY <2>2, EndedOf
    <3>2. /\ file' \in Seq(Lines) /\ next \in Nat \ {0}
          /\ \A i \in 1..Len(file') : i \in 1..Len(kept[q]) /\ file'[i].line = kept[q][i].line
      BY <2>2, <3>1
    <3>3. Increasing(kept[q]) /\ Older(kept[q])
      OBVIOUS
    <3> QED
      BY <2>2, <3>2, <3>3, PartInOrder
  <2>4. \A p \in Procs : Increasing(kept[p])' /\ Older(kept[p])'
    BY <1>0, <1>8, <2>2, HeldInOrder DEF WriteBack
  <2> QED
    BY <2>2, <2>3, <2>4 DEF Increasing, Older
<1>9. ASSUME NEW q \in Procs, WriteFails(q) PROVE Ordered
  <2>1. next' = next /\ next \in Nat \ {0} /\ kept' = [kept EXCEPT ![q] = << >>]
    BY <1>9 DEF WriteFails
  <2>2. Increasing(file') /\ Older(file')
    <3>1. CASE pc[q] = "truncate"
      BY <1>9, <3>1, WrittenOf
    <3>2. CASE pc[q] = "write"
      <4>1. file = << >> /\ kept[q] \in Seq(Lines)
        BY <3>2 DEF NothingLoggedMeanwhile
      <4> DEFINE text == Ended(kept[q])
      <4>2. file' \in Cuts(text)
        BY <1>9, <3>2, <4>1, WrittenOf
      <4>3. /\ text \in Seq(Lines) /\ Len(text) = Len(kept[q])
            /\ \A i \in 1..Len(kept[q]) : text[i].line = kept[q][i].line
        BY <4>1, EndedOf
      <4> HIDE DEF text
      <4>4. file' \in Seq(Lines)
        BY <4>2, <4>3, CutOf
      <4>5. PICK n \in 0..Len(text) :
              /\ \A i \in 1..n : file'[i] = text[i]
              /\ \/ Len(file') = n
                 \/ n < Len(text) /\ Len(file') = n + 1 /\ file'[n + 1].line = Torn
        BY <4>2, <4>3, CutOf
      <4>6. \A i \in 1..Len(file') :
              file'[i].line = Torn \/ (i \in 1..Len(kept[q]) /\ file'[i].line = kept[q][i].line)
        BY <4>3, <4>5
      <4> QED
        BY <2>1, <4>1, <4>4, <4>6, PartInOrder
    <3> QED
      BY <1>9, <3>1, <3>2 DEF WriteFails
  <2>3. \A p \in Procs : Increasing(kept[p])' /\ Older(kept[p])'
    BY <1>0, <2>1, HeldInOrder
  <2> QED
    BY <2>1, <2>2, <2>3 DEF Increasing, Older
<1> QED
  BY <1>1, <1>2, <1>3, <1>4, <1>5, <1>6, <1>7, <1>8, <1>9 DEF Next, Flush

-----------------------------------------------------------------------------
(* The logger's handle.                                                    *)

\* Every step keeps the logger, the manager and the open file together.
LEMMA AliveStep == HandleInv /\ AliveInv /\ [Next]_vars => AliveInv'
<1> SUFFICES ASSUME HandleInv, AliveInv, [Next]_vars, spoilt' = {}, pc'[Main] = "idle"
             PROVE  AliveInv'
  BY DEF AliveInv
<1> USE LogAssumption DEF HandleInv, TypeOK, RoleInv, BootInv, Booting, Procs, Goes, Up,
        disk, manager
<1>1. CASE SetupNoDirectory \/ RotateFails \/ SetupOpenFails
  BY <1>1 DEF SetupNoDirectory, RotateFails, SetupOpenFails, Spoil, AliveInv
<1>10. CASE SetupOpen
  BY <1>10 DEF SetupOpen, Unused, AliveInv
<1>2. CASE RotateIfNeeded \/ Close \/ Restart
  BY <1>2 DEF RotateIfNeeded, Close, Restart, Fresh
<1>3. CASE Log \/ LogFails \/ UNCHANGED vars
  BY <1>3 DEF Log, LogFails, vars, AliveInv
<1>4. ASSUME NEW p \in Flushers, FlushBegin(p) PROVE AliveInv'
  <2>1. handle # Nil /\ handle \in open /\ spoilt = {} /\ pc[Main] = "idle"
    BY <1>4 DEF FlushBegin, Entered
  <2>2. \A q \in Flushers : pc[q] \notin Rewriting /\ pc[q] # "setOutput"
    BY <1>4, <2>1 DEF FlushBegin, Entered, GuardInv, Guarded
  <2>3. \A q \in Flushers : pc[q] = "idle"
    BY <2>2 DEF Positions, Rewriting
  <2> QED
    BY <1>4, <2>1, <2>3 DEF FlushBegin, AliveInv
<1>5. ASSUME NEW p \in Flushers, Reopen(p) PROVE AliveInv'
  BY <1>5 DEF Reopen, Unused, AliveInv
<1>6. ASSUME NEW p \in Flushers, SetOutput(p) PROVE AliveInv'
  BY <1>6 DEF SetOutput, AliveInv
<1>7. ASSUME NEW p \in Flushers, ReopenFails(p) PROVE FALSE
  BY <1>7 DEF ReopenFails, Spoil
<1>8. ASSUME NEW p \in Procs, Truncate(p) \/ WriteBack(p) PROVE AliveInv'
  <2>1. CASE p = Main
    BY <1>8, <2>1 DEF Truncate, WriteBack
  <2>2. CASE p \in Flushers
    BY <1>8, <2>2 DEF Truncate, WriteBack, AliveInv
  <2> QED
    BY <2>1, <2>2
<1>9. ASSUME NEW p \in Procs, WriteFails(p) PROVE FALSE
  BY <1>9 DEF WriteFails, Spoil
<1> QED
  BY <1>1, <1>2, <1>3, <1>4, <1>5, <1>6, <1>7, <1>8, <1>9, <1>10 DEF Next, Flush

-----------------------------------------------------------------------------
(* The size of the file.                                                   *)

\* Every step keeps the size Setup ends with below the limit.
LEMMA SizeStep ==
  HandleInv /\ NothingLoggedMeanwhile /\ SizeInv /\ [Next]_vars => SizeInv'
<1> SUFFICES ASSUME HandleInv, NothingLoggedMeanwhile, SizeInv, [Next]_vars,
                    spoilt' = {}, pc'[Main] \in {"truncate", "write", "open"}
             PROVE  SizeInv'
  BY DEF SizeInv
<1> USE LogAssumption DEF HandleInv, TypeOK, RoleInv, BootInv, Booting, Procs, Goes, Up,
        disk, manager
<1>1. CASE SetupNoDirectory \/ RotateFails \/ SetupOpen \/ SetupOpenFails \/ Close
  BY <1>1 DEF SetupNoDirectory, RotateFails, SetupOpen, SetupOpenFails, Close, Spoil
<1>9. CASE Log \/ LogFails
  BY <1>9 DEF Log, LogFails
<1>2. CASE RotateIfNeeded
  <2>1. Bytes(Ended(ReadLastNLines(file, RotateLines))) < MaxLogSize
    <3> DEFINE lines == ReadLastNLines(file, RotateLines)
    <3>1. Bytes(lines) \in 0..BufSize
      BY TailFits
    <3>2. lines \in Seq(Lines)
      BY TailType
    <3> HIDE DEF lines
    <3>3. Bytes(Ended(lines)) <= Bytes(lines) + 1 /\ Bytes(Ended(lines)) \in Nat
      BY <3>2, EndedOf, CountsExist, BytesOf
    <3>4. Bytes(Ended(lines)) < MaxLogSize
      BY <3>1, <3>3, TailAssumption
    <3> QED
      BY <3>4 DEF lines
  <2> QED
    BY <1>2, <2>1 DEF RotateIfNeeded, SizeInv
<1>3. CASE Restart
  BY <1>3 DEF Restart, Fresh
<1>4. ASSUME NEW p \in Flushers, Flush(p) PROVE FALSE
  BY <1>4 DEF Flush, FlushBegin, Reopen, ReopenFails, SetOutput
<1>5. ASSUME NEW p \in Procs, Truncate(p) PROVE SizeInv'
  BY <1>5 DEF Truncate, SizeInv
<1>6. ASSUME NEW p \in Procs, WriteBack(p) PROVE SizeInv'
  <2>1. p = Main /\ spoilt = {}
    BY <1>6 DEF WriteBack
  <2>2. file = << >>
    BY <1>6, <2>1 DEF WriteBack, NothingLoggedMeanwhile, Guarded
  <2>3. file' = Ended(kept[Main])
    BY <1>6, <2>1, <2>2, WrittenOf
  <2> QED
    BY <1>6, <2>1, <2>3 DEF WriteBack, SizeInv
<1>7. ASSUME NEW p \in Procs, WriteFails(p) PROVE FALSE
  BY <1>7 DEF WriteFails, Spoil
<1>8. CASE UNCHANGED vars
  BY <1>8 DEF vars, SizeInv
<1> QED
  BY <1>1, <1>2, <1>3, <1>4, <1>5, <1>6, <1>7, <1>8, <1>9 DEF Next

-----------------------------------------------------------------------------
(* Theorems.                                                               *)

\* The inductive invariant behind the theorems below.
THEOREM LogInvariant == Spec => []LogInv
<1>1. LogInv /\ [Next]_vars => LogInv'
  BY TypeStep, RoleStep, GuardStep, TailStep, OrderStep, AliveStep, SizeStep
     DEF LogInv, HandleInv
<1> QED
  BY LogInit, <1>1, PTL DEF Spec

\* Type correctness of the manager, the file and the steps under way.
THEOREM LogTypes == Spec => []TypeOK
<1>1. LogInv => TypeOK
  BY DEF LogInv, HandleInv
<1> QED
  BY LogInvariant, <1>1, PTL

\* Two Flushes never rewrite the file at the same time.
THEOREM FlushExcludes == Spec => []OneRewriter
<1>1. LogInv => OneRewriter
  BY Exclusive DEF LogInv
<1> QED
  BY LogInvariant, <1>1, PTL

\* What a Flush read is not stale when it truncates the file.
THEOREM FlushNotStale == Spec => []NothingLoggedMeanwhile
<1>1. LogInv => NothingLoggedMeanwhile
  BY DEF LogInv
<1> QED
  BY LogInvariant, <1>1, PTL

\* The lines of the file stay in order through Flushes, failures and restarts.
THEOREM FileInOrder == Spec => []InOrder
<1>1. LogInv => InOrder
  BY DEF LogInv, OrderInv, Increasing, InOrder
<1> QED
  BY LogInvariant, <1>1, PTL

\* Between two Flushes of a process where nothing went wrong the logger writes
\* to the open file the manager holds.
THEOREM LoggerStaysAlive == Spec => []LoggingAlive
<1>1. LogInv => LoggingAlive
  BY DEF LogInv, AliveInv, LoggingAlive
<1> QED
  BY LogInvariant, <1>1, PTL

\* Whatever was logged, and wherever the last process was killed, Setup opens
\* a file below the limit, or one of which no line fits the window.
THEOREM RestartIsBounded == Spec => []RestartBounds
<1>1. LogInv => RestartBounds
  BY DEF LogInv, SizeInv, RestartBounds
<1> QED
  BY LogInvariant, <1>1, PTL

\* Every tail a client is sent is the reference's, unless the window starts
\* exactly with a line.
THEOREM TailIsOfWindow == Spec => []TailOfWindow
<1>1. TypeOK => TailOfWindow
  <2>1. 0..MaxLines \subseteq Nat
    BY TailAssumption
  <2> QED
    BY <2>1, TailIsReference DEF TypeOK, TailOfWindow
<1> QED
  BY LogTypes, <1>1, PTL

-----------------------------------------------------------------------------
(* The log file implements the journal.                                    *)

\* One goroutine at most has the lines in its hands.
ContentInv ==
  /\ (\A p \in Procs : pc[p] # "write") => Content = file
  /\ \A p \in Procs : pc[p] = "write" => Content = kept[p]

LEMMA ContentOf == LogInv /\ Guarded => ContentInv
<1> SUFFICES ASSUME LogInv, Guarded PROVE ContentInv
  OBVIOUS
<1>1. CASE Writers = {}
  BY <1>1 DEF Writers, Content, ContentInv
<1>2. CASE Writers # {}
  <2>1. PICK w \in Writers : TRUE
    BY <1>2
  <2>2. OneRewriter
    BY Exclusive DEF LogInv
  <2>3. Writers = {w}
    BY <2>1, <2>2 DEF Writers, OneRewriter, Rewriting
  <2>4. (CHOOSE p \in Writers : TRUE) = w
    BY <2>3
  <2>5. Content = kept[w]
    BY <1>2, <2>4 DEF Content
  <2> QED
    BY <2>3, <2>5 DEF Writers, ContentInv
<1> QED
  BY <1>1, <1>2

\* A step that moves no writer and touches no line in a writer's hands or in the
\* file changes nothing of the journal's lines.
LEMMA ContentStays ==
  ASSUME ContentInv, ContentInv', UNCHANGED disk,
         \A p \in Procs : /\ pc'[p] = "write" <=> pc[p] = "write"
                          /\ pc[p] = "write" => kept'[p] = kept[p]
  PROVE  Content' = Content
<1>1. CASE \E p \in Procs : pc[p] = "write"
  <2>1. PICK p \in Procs : pc[p] = "write"
    BY <1>1
  <2>2. pc'[p] = "write" /\ kept'[p] = kept[p]
    BY <2>1
  <2> QED
    BY <2>1, <2>2 DEF ContentInv
<1>2. CASE \A p \in Procs : pc[p] # "write"
  <2>1. \A p \in Procs : pc'[p] # "write"
    BY <1>2
  <2> QED
    BY <1>2, <2>1 DEF ContentInv, disk
<1> QED
  BY <1>1, <1>2

\* The numbers of a file's lines.
LEMMA NumbersOf ==
  ASSUME NEW f \in Seq(Lines)
  PROVE  /\ Numbers(f) \in Seq(Nat) /\ Len(Numbers(f)) = Len(f) /\ Len(f) \in Nat
         /\ \A i \in 1..Len(f) : Numbers(f)[i] = f[i].line
<1>1. Len(f) \in Nat /\ \A i \in 1..Len(f) : f[i].line \in Nat
  BY NumberType
<1> QED
  BY <1>1 DEF Numbers

\* Files with the same numbers, line by line, are one file to the journal.
LEMMA SameNumbers ==
  ASSUME NEW f \in Seq(Lines), NEW h \in Seq(Lines), Len(h) = Len(f),
         \A i \in 1..Len(f) : h[i].line = f[i].line
  PROVE  Numbers(h) = Numbers(f)
  BY DEF Numbers

\* The last lines of a file are the last numbers of the journal.
LEMMA NumbersLast ==
  ASSUME NEW f \in Seq(Lines), NEW n \in 0..Len(f)
  PROVE  Numbers(Last(f, n)) = SubSeq(Numbers(f), Len(Numbers(f)) - n + 1, Len(Numbers(f)))
<1> DEFINE J == Numbers(f)
           tail == SubSeq(J, Len(J) - n + 1, Len(J))
           N == Numbers(Last(f, n))
<1>1. /\ Last(f, n) \in Seq(Lines) /\ Len(Last(f, n)) = n
      /\ \A i \in 1..n : Last(f, n)[i] = f[Len(f) - n + i]
  BY LastOf
<1>2. /\ J \in Seq(Nat) /\ Len(J) = Len(f) /\ Len(f) \in Nat
      /\ \A i \in 1..Len(f) : J[i] = f[i].line
  BY NumbersOf
<1>3. N \in Seq(Nat) /\ Len(N) = n /\ \A i \in 1..n : N[i] = Last(f, n)[i].line
  BY <1>1, NumbersOf
<1> HIDE DEF J, N
<1>4. /\ tail \in Seq(Nat) /\ Len(tail) = n
      /\ \A i \in 1..n : tail[i] = J[Len(J) - n + i]
  BY <1>2
<1>5. ASSUME NEW i \in 1..n PROVE N[i] = tail[i]
  <2>1. Len(f) - n + i \in 1..Len(f)
    BY <1>2
  <2>2. N[i] = f[Len(f) - n + i].line
    BY <1>1, <1>3
  <2>3. tail[i] = f[Len(f) - n + i].line
    BY <1>2, <1>4, <2>1
  <2> QED
    BY <2>2, <2>3
<1> HIDE DEF tail
<1>6. N = tail
  BY <1>3, <1>4, <1>5, SeqEqual
<1> QED
  BY <1>6 DEF J, N, tail

\* The first lines of a file, and perhaps one more, are the first numbers of the
\* journal, and perhaps one more.
LEMMA NumbersFirst ==
  ASSUME NEW f \in Seq(Lines), NEW h \in Seq(Lines), NEW n \in 0..Len(f),
         \A i \in 1..n : h[i] = f[i]
  PROVE  /\ Len(h) = n => Numbers(h) = SubSeq(Numbers(f), 1, n)
         /\ Len(h) = n + 1 =>
              Numbers(h) = Append(SubSeq(Numbers(f), 1, n), h[n + 1].line)
<1> DEFINE J == Numbers(f)
           first == SubSeq(J, 1, n)
           N == Numbers(h)
<1>1. /\ J \in Seq(Nat) /\ Len(J) = Len(f) /\ Len(f) \in Nat
      /\ \A i \in 1..Len(f) : J[i] = f[i].line
  BY NumbersOf
<1>2. N \in Seq(Nat) /\ Len(N) = Len(h) /\ \A i \in 1..Len(h) : N[i] = h[i].line
  BY NumbersOf
<1> HIDE DEF J, N
<1>3. first \in Seq(Nat) /\ Len(first) = n /\ \A i \in 1..n : first[i] = J[i]
  BY <1>1
<1> HIDE DEF first
<1>4. n \in Nat /\ \A i \in 1..n : i \in 1..Len(f)
  BY <1>1
<1>5. ASSUME Len(h) = n PROVE N = first
  <2>1. \A i \in 1..n : N[i] = first[i]
    BY <1>1, <1>2, <1>3, <1>4, <1>5
  <2> QED
    BY <1>2, <1>3, <1>5, <2>1, SeqEqual
<1>6. ASSUME Len(h) = n + 1 PROVE N = Append(first, h[n + 1].line)
  <2> DEFINE more == Append(first, h[n + 1].line)
  <2>1. n + 1 \in 1..Len(h) /\ \A i \in 1..n : i \in 1..Len(h)
    BY <1>4, <1>6
  <2>2. h[n + 1].line \in Nat
    BY <2>1, NumberType
  <2>3. /\ more \in Seq(Nat) /\ Len(more) = n + 1 /\ more[n + 1] = h[n + 1].line
        /\ \A i \in 1..n : more[i] = first[i]
    BY <1>3, <1>4, <2>2, AppendProperties
  <2> HIDE DEF more
  <2>4. N[n + 1] = more[n + 1]
    BY <1>2, <2>1, <2>3
  <2>5. \A i \in 1..n : N[i] = more[i]
    <3>1. ASSUME NEW i \in 1..n PROVE N[i] = more[i]
      <4>1. N[i] = f[i].line
        BY <1>2, <2>1
      <4>2. more[i] = f[i].line
        BY <1>1, <1>3, <1>4, <2>3
      <4> QED
        BY <4>1, <4>2
    <3> QED
      BY <3>1
  <2>6. \A i \in 1..(n + 1) : i \in 1..n \/ i = n + 1
    BY <1>4
  <2>7. \A i \in 1..(n + 1) : N[i] = more[i]
    BY <2>4, <2>5, <2>6
  <2>8. N = more
    BY <1>2, <1>6, <2>3, <2>7, SeqEqual
  <2> QED
    BY <2>8 DEF more
<1> QED
  BY <1>5, <1>6 DEF J, N, first

\* A line written to a file extends its journal.
LEMMA OntoExtends ==
  ASSUME NEW f \in Seq(Lines), NEW l \in Lines
  PROVE  \/ Numbers(Onto(f, l)) = Append(Numbers(f), l.line)
         \/ \E k \in 0..Len(Numbers(f)) :
              /\ k + 1 = Len(Numbers(f)) /\ Numbers(f)[k + 1] = Torn
              /\ Numbers(Onto(f, l)) = Append(SubSeq(Numbers(f), 1, k), l.line)
<1> DEFINE h == Onto(f, l)
<1>1. /\ h \in Seq(Lines) /\ Len(h) \in {Len(f), Len(f) + 1} /\ Len(h) \in Nat \ {0}
      /\ h[Len(h)].line = l.line
      /\ \A i \in 1..(Len(h) - 1) : i \in 1..Len(f) /\ h[i] = f[i]
      /\ Len(h) = Len(f) => f[Len(f)].line = Torn
  BY OntoOf
<1>2. /\ Numbers(f) \in Seq(Nat) /\ Len(Numbers(f)) = Len(f) /\ Len(f) \in Nat
      /\ \A i \in 1..Len(f) : Numbers(f)[i] = f[i].line
  BY NumbersOf
<1> HIDE DEF h
<1>3. CASE Len(h) = Len(f) + 1
  <2>1. /\ Len(f) \in 0..Len(f) /\ \A i \in 1..Len(f) : h[i] = f[i]
        /\ h \in Seq(Lines) /\ h[Len(f) + 1].line = l.line
    BY <1>1, <1>2, <1>3
  <2>2. Numbers(h) = Append(SubSeq(Numbers(f), 1, Len(f)), h[Len(f) + 1].line)
    BY <1>3, <2>1, NumbersFirst
  <2>3. SubSeq(Numbers(f), 1, Len(f)) = Numbers(f)
    BY <1>2
  <2> QED
    BY <2>1, <2>2, <2>3 DEF h
<1>4. CASE Len(h) = Len(f)
  <2> DEFINE k == Len(f) - 1
  <2>1. /\ k \in 0..Len(f) /\ k + 1 = Len(f) /\ k + 1 \in 1..Len(f)
        /\ \A i \in 1..k : h[i] = f[i]
        /\ Len(h) = k + 1 /\ h[k + 1].line = l.line
    BY <1>1, <1>2, <1>4
  <2> HIDE DEF k
  <2>2. Numbers(h) = Append(SubSeq(Numbers(f), 1, k), l.line)
    BY <1>1, <2>1, NumbersFirst
  <2>3. Numbers(f)[k + 1] = Torn
    BY <1>1, <1>2, <1>4, <2>1
  <2> QED
    BY <1>2, <2>1, <2>2, <2>3 DEF h
<1> QED
  BY <1>1, <1>3, <1>4

\* The journal of a file without lines.
LEMMA NumbersEmpty == Numbers(<< >>) = << >>
<1>1. << >> \in Seq(Lines) /\ Len(<< >>) = 0
  OBVIOUS
<1>2. Numbers(<< >>) \in Seq(Nat) /\ Len(Numbers(<< >>)) = 0
  BY <1>1, NumbersOf
<1> QED
  BY <1>2, EmptySeq

\* A journal that keeps its last zero lines is empty.
LEMMA ForgetAll ==
  ASSUME NEW J \in Seq(Nat)
  PROVE  << >> = SubSeq(J, Len(J) - 0 + 1, Len(J))
  OBVIOUS

\* Truncating moves the lines to whoever writes them back, and forgets what is
\* not among them; writing moves them to the file; a kill between the two
\* forgets everything, and a write that fails loses what it had not written; the
\* logger records or misses.
LEMMA StepJournal ==
  LogInv /\ LogInv' /\ [Next]_vars => [Journal!JournalNext]_(Journal!journalVars)
<1> SUFFICES ASSUME LogInv, LogInv', [Next]_vars
             PROVE  Journal!JournalNext \/ UNCHANGED Journal!journalVars
  OBVIOUS
<1>1. CASE ~Guarded'
  BY <1>1 DEF Journal!JournalNext, Journal!Withdraw
<1>2. CASE Guarded'
  <2>1. Guarded
    BY <1>2 DEF Guarded, Next, vars, SetupNoDirectory, RotateIfNeeded, RotateFails, SetupOpen,
       SetupOpenFails, Log, LogFails, Close, Restart, Fresh, Flush, FlushBegin, Entered, Reopen,
       ReopenFails, SetOutput, Truncate, WriteBack, WriteFails, Spoil
  <2>2. ContentInv /\ ContentInv'
    BY <1>2, <2>1, ContentOf, PTL
  <2>3. Guarded' = Guarded /\ Guarded
    BY <1>2, <2>1 DEF Guarded
  <2>4. OneRewriter
    BY Exclusive DEF LogInv
  <2>5. file \in Seq(Lines) /\ kept \in [Procs -> Seq(Lines)] /\ Main \in Procs
    BY DEF LogInv, HandleInv, TypeOK, Procs
  <2>6. ASSUME Numbers(Content)' = Numbers(Content), next' = next PROVE Journal!Turn
    BY <2>3, <2>6 DEF Journal!Turn
  <2>7. ASSUME \A p \in Procs : /\ pc'[p] = "write" <=> pc[p] = "write"
                                /\ pc[p] = "write" => kept'[p] = kept[p],
               UNCHANGED disk
        PROVE  Journal!Turn
    <3>1. Content' = Content
      BY <2>2, <2>7, ContentStays
    <3> QED
      BY <2>6, <2>7, <3>1 DEF disk
  <2>8. CASE SetupNoDirectory \/ RotateIfNeeded \/ RotateFails \/ SetupOpen \/ SetupOpenFails \/ Close
             \/ UNCHANGED vars
    <3>1. UNCHANGED disk
      BY <2>8 DEF SetupNoDirectory, RotateIfNeeded, RotateFails, SetupOpen, SetupOpenFails, Close,
         vars, disk
    <3>2. \A p \in Procs \ {Main} : pc'[p] = pc[p] /\ kept'[p] = kept[p]
      BY <2>5, <2>8 DEF SetupNoDirectory, RotateIfNeeded, RotateFails, SetupOpen, SetupOpenFails,
         Close, Goes, vars, LogInv, HandleInv, TypeOK
    <3>3. \/ pc[Main] # "write" /\ pc'[Main] # "write"
          \/ pc'[Main] = pc[Main] /\ kept'[Main] = kept[Main]
      BY <2>5, <2>8 DEF SetupNoDirectory, RotateIfNeeded, RotateFails, SetupOpen, SetupOpenFails,
         Close, Goes, vars, LogInv, HandleInv, TypeOK
    <3>4. Journal!Turn
      BY <2>7, <3>1, <3>2, <3>3
    <3> QED
      BY <3>4 DEF Journal!JournalNext
  <2>9. ASSUME NEW q \in Flushers, Flush(q) PROVE Journal!Turn
    <3>1. UNCHANGED disk /\ pc[q] # "write" /\ pc'[q] # "write"
      BY <2>5, <2>9 DEF Flush, FlushBegin, Reopen, ReopenFails, SetOutput, Goes, disk, Procs, LogInv,
         HandleInv, TypeOK
    <3>2. \A p \in Procs \ {q} : pc'[p] = pc[p] /\ kept'[p] = kept[p]
      BY <2>5, <2>9 DEF Flush, FlushBegin, Reopen, ReopenFails, SetOutput, Goes, disk, Procs, LogInv,
         HandleInv, TypeOK
    <3> QED
      BY <2>7, <3>1, <3>2
  <2>10. CASE Log \/ LogFails
    <3>1. next' = next + 1 /\ UNCHANGED <<pc, kept>>
      BY <2>10 DEF Log, LogFails
    <3>2. ASSUME Numbers(Content)' = Numbers(Content) PROVE Journal!Miss
      BY <2>3, <2>10, <3>1, <3>2 DEF Journal!Miss, Log, LogFails
    <3>3. CASE \E p \in Procs : pc[p] = "write"
      <4>1. Content' = Content
        BY <2>2, <3>1, <3>3 DEF ContentInv
      <4> QED
        BY <3>2, <4>1 DEF Journal!JournalNext
    <3>4. CASE \A p \in Procs : pc[p] # "write"
      <4>1. Content = file /\ Content' = file'
        BY <2>2, <3>1, <3>4 DEF ContentInv
      <4>2. CASE file' = file
        BY <3>2, <4>1, <4>2 DEF Journal!JournalNext
      <4>3. CASE file' # file
        <5>1. PICK l \in Lines : file' = Onto(file, l) /\ (l.line = Torn \/ (Log /\ l.line = next))
          BY <2>10, <4>3, LoggedOf DEF LogInv, HandleInv
        <5>2. Numbers(Content)' \in Journal!Extended(l.line)
          BY <2>5, <4>1, <5>1, OntoExtends DEF Journal!Extended, Journal!First, Journal!Piece, Torn
        <5>3. ASSUME l.line = Torn PROVE Journal!Miss
          BY <2>3, <2>10, <3>1, <5>2, <5>3 DEF Journal!Miss, Journal!Piece, Torn, Log, LogFails
        <5>4. ASSUME Log, l.line = next PROVE Journal!Record
          BY <2>3, <3>1, <5>2, <5>4 DEF Journal!Record, Log
        <5> QED
          BY <5>1, <5>3, <5>4 DEF Journal!JournalNext
      <4> QED
        BY <4>2, <4>3
    <3> QED
      BY <3>3, <3>4
  <2>11. ASSUME NEW p \in Procs, Truncate(p) PROVE Journal!Forget
    <3>1. pc[p] = "truncate" /\ pc'[p] = "write" /\ kept' = kept /\ next' = next
      BY <2>11 DEF Truncate, Goes, LogInv, HandleInv, TypeOK
    <3>2. \A q \in Procs : pc[q] # "write"
      BY <2>1, <2>4, <3>1 DEF OneRewriter, Rewriting
    <3>3. Content = file /\ Content' = kept[p]
      BY <2>2, <3>1, <3>2 DEF ContentInv
    <3>4. PICK n \in 0..Len(file) : kept[p] = Last(file, n)
      BY <2>3, <3>1 DEF LogInv, NothingLoggedMeanwhile
    <3> DEFINE J == Numbers(Content)
    <3>5. J' = SubSeq(J, Len(J) - n + 1, Len(J)) /\ n \in 0..Len(J)
      BY <2>5, <3>3, <3>4, NumbersLast, NumbersOf
    <3> QED
      BY <2>3, <3>1, <3>5 DEF Journal!Forget
  <2>12. ASSUME NEW p \in Procs, WriteBack(p) \/ WriteFails(p), pc[p] = "write"
         PROVE  /\ Content = kept[p] /\ Content' = file' /\ file = << >> /\ next' = next
                /\ Numbers(Ended(kept[p])) = Numbers(Content)
    <3>1. \A q \in Procs : pc[q] = "write" => q = p
      BY <2>1, <2>4, <2>12 DEF OneRewriter, Rewriting
    <3>2. \A q \in Procs : pc'[q] # "write"
      BY <2>12, <3>1 DEF WriteBack, WriteFails, Goes, LogInv, HandleInv, TypeOK
    <3>3. Content = kept[p] /\ Content' = file'
      BY <2>2, <2>12, <3>2 DEF ContentInv
    <3>4. file = << >> /\ next' = next
      BY <2>1, <2>12 DEF LogInv, NothingLoggedMeanwhile, WriteBack, WriteFails
    <3>5. Numbers(Ended(kept[p])) = Numbers(kept[p])
      BY <2>5, EndedOf, SameNumbers
    <3> QED
      BY <3>3, <3>4, <3>5
  <2>13. ASSUME NEW p \in Procs, WriteBack(p) PROVE Journal!Turn
    <3>1. pc[p] = "write"
      BY <2>13 DEF WriteBack, Goes
    <3>2. file' = Ended(kept[p])
      BY <2>12, <2>13, <3>1, WrittenOf DEF LogInv, HandleInv
    <3>3. Numbers(Content)' = Numbers(Content)
      BY <2>12, <2>13, <3>1, <3>2
    <3> QED
      BY <2>6, <2>12, <2>13, <3>1, <3>3
  <2>14. ASSUME NEW p \in Procs, WriteFails(p) PROVE Journal!Turn \/ Journal!Lose
    <3>1. CASE pc[p] = "truncate"
      <4>1. pc'[p] # "write" /\ UNCHANGED disk
        BY <2>14, <3>1 DEF WriteFails, LogInv, HandleInv, TypeOK, disk
      <4>2. \A q \in Procs \ {p} : pc'[q] = pc[q] /\ kept'[q] = kept[q]
        BY <2>14 DEF WriteFails, LogInv, HandleInv, TypeOK
      <4> QED
        BY <2>7, <3>1, <4>1, <4>2
    <3>2. CASE pc[p] = "write"
      <4> DEFINE J == Numbers(Content)
                 text == Ended(kept[p])
      <4>1. /\ Content' = file' /\ next' = next /\ file = << >>
            /\ Numbers(text) = J
        BY <2>12, <2>14, <3>2
      <4>2. file' \in Cuts(text)
        BY <2>14, <3>2, <4>1, WrittenOf DEF LogInv, HandleInv
      <4>3. text \in Seq(Lines)
        BY <2>5, EndedOf
      <4> HIDE DEF text
      <4>4. file' \in Seq(Lines)
        BY <4>2, <4>3, CutOf
      <4>5. PICK n \in 0..Len(text) :
              /\ \A i \in 1..n : file'[i] = text[i]
              /\ \/ Len(file') = n
                 \/ n < Len(text) /\ Len(file') = n + 1 /\ file'[n + 1].line = Torn
        BY <4>2, <4>3, CutOf
      <4>6. Len(J) = Len(text)
        BY <4>1, <4>3, NumbersOf
      <4>7. /\ Len(file') = n => Numbers(file') = SubSeq(Numbers(text), 1, n)
            /\ Len(file') = n + 1 =>
                 Numbers(file') = Append(SubSeq(Numbers(text), 1, n), file'[n + 1].line)
        BY <4>3, <4>4, <4>5, NumbersFirst
      <4>8. \/ J' = SubSeq(J, 1, n)
            \/ n < Len(J) /\ J' = Append(SubSeq(J, 1, n), Torn)
        BY <4>1, <4>5, <4>6, <4>7
      <4>9. "failed" \in spoilt'
        BY <2>14 DEF WriteFails, Spoil
      <4> QED
        BY <2>3, <4>1, <4>6, <4>8, <4>9 DEF Journal!Lose, Journal!First, Journal!Piece, Torn
    <3> QED
      BY <2>14, <3>1, <3>2 DEF WriteFails
  <2>15. CASE Restart
    <3>1. UNCHANGED disk /\ \A p \in Procs : pc'[p] # "write"
      BY <2>15 DEF Restart, Fresh
    <3>2. Content' = file /\ next' = next
      BY <2>2, <3>1 DEF ContentInv, disk
    <3>3. CASE \E p \in Procs : pc[p] = "write"
      <4> DEFINE J == Numbers(Content)
      <4>1. file = << >>
        BY <2>1, <3>3 DEF LogInv, NothingLoggedMeanwhile
      <4>2. J' = << >>
        BY <3>2, <4>1, NumbersEmpty
      <4>3. Content \in Seq(Lines)
        BY <2>2, <2>5, <3>3 DEF ContentInv
      <4>4. J \in Seq(Nat)
        BY <4>3, NumbersOf
      <4>5. 0 \in 0..Len(J) /\ J' = SubSeq(J, Len(J) - 0 + 1, Len(J))
        BY <4>2, <4>4, ForgetAll
      <4> QED
        BY <2>3, <3>2, <4>5 DEF Journal!Forget, Journal!JournalNext
    <3>4. CASE \A p \in Procs : pc[p] # "write"
      <4>1. Content' = Content
        BY <2>2, <3>2, <3>4 DEF ContentInv
      <4> QED
        BY <2>6, <3>2, <4>1 DEF Journal!JournalNext
    <3> QED
      BY <3>3, <3>4
  <2> QED
    BY <2>8, <2>9, <2>10, <2>11, <2>13, <2>14, <2>15 DEF Next, Journal!JournalNext
<1> QED
  BY <1>1, <1>2

\* The log file is a journal: through Flushes, rotations, kills and lines logged
\* at any moment it only gains lines at its end and only loses them from its
\* beginning; only a rewrite that fails loses some from the end, and a write
\* that fails leaves no more than a piece of a line in their place.
THEOREM LogImplementsJournal == Spec => ImplementsJournal
<1>1. Init => Journal!JournalInit
  <2> SUFFICES ASSUME Init PROVE Journal!JournalInit
    OBVIOUS
  <2>1. LogInv /\ Guarded
    BY LogInit DEF Init, Guarded
  <2>2. Content = << >>
    BY <2>1, ContentOf, LogAssumption DEF Init, ContentInv, Procs
  <2>3. Numbers(Content) = << >>
    BY <2>2, NumbersEmpty
  <2> QED
    BY <2>1, <2>3 DEF Init, Journal!JournalInit
<1> QED
  BY <1>1, StepJournal, LogInvariant, PTL DEF Spec, ImplementsJournal, Journal!JournalSpec
=============================================================================

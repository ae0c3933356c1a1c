------------------------ MODULE DaemonLifecycleProofs ------------------------
(***************************************************************************)
(* The order of the shutdown, proved.  A position of Stop or of the HTTP   *)
(* goroutine implies what was done before it (PositionsOK), and both reach *)
(* the close of quit only after a cancel.                                  *)
(***************************************************************************)
EXTENDS DaemonLifecycle, TLAPS

ShutdownInv == TypeOK /\ PositionsOK /\ QuitAfterCancel

LEMMA StepShutdown == ShutdownInv /\ [Next]_vars => ShutdownInv'
<1> SUFFICES ASSUME ShutdownInv, [Next]_vars PROVE ShutdownInv'
  OBVIOUS
<1> USE DEF ShutdownInv, TypeOK, PositionsOK, QuitAfterCancel, StopPositions, HttpGoes, StopGoes
<1>1. CASE RunStarts \/ RunEnds
  BY <1>1 DEF RunStarts, RunEnds
<1>2. CASE Http
  <2>1. CASE ListenClosed \/ ListenFails
    BY <2>1 DEF ListenClosed, ListenFails
  <2>2. CASE HttpCancel \/ HttpCheck
    BY <2>2 DEF HttpCancel, HttpCheck
  <2>3. CASE HttpClose
    BY <2>3 DEF HttpClose, CloseQuit
  <2> QED BY <1>2, <2>1, <2>2, <2>3 DEF Http
<1>3. CASE StopCalled
  BY <1>3 DEF StopCalled
<1>4. CASE Stop
  <2>1. CASE StopCancel \/ StopReader
    BY <2>1 DEF StopCancel, StopReader
  <2>2. CASE StopShutdown \/ StopDrained \/ StopCheck
    BY <2>2 DEF StopShutdown, StopDrained, StopCheck
  <2>3. CASE StopClose
    BY <2>3 DEF StopClose, CloseQuit
  <2>4. CASE StopWait \/ StopCloseLog
    BY <2>4 DEF StopWait, StopCloseLog
  <2> QED BY <1>4, <2>1, <2>2, <2>3, <2>4 DEF Stop
<1>5. ASSUME NEW w \in Workers, WorkerEnds(w) PROVE ShutdownInv'
  BY <1>5 DEF WorkerEnds
<1>6. CASE UNCHANGED vars
  BY <1>6 DEF vars
<1> QED BY <1>1, <1>2, <1>3, <1>4, <1>5, <1>6 DEF Next

\* ShutdownInv is inductive.
THEOREM ShutdownInvariant == Spec => []ShutdownInv
<1>1. Init => ShutdownInv
  BY DEF Init, ShutdownInv, TypeOK, PositionsOK, QuitAfterCancel, StopPositions, Workers
<1> QED BY <1>1, StepShutdown, PTL DEF Spec

\* quit is closed only after the context has been cancelled.
THEOREM QuitFollowsCancel == Spec => []QuitAfterCancel
<1>1. ShutdownInv => QuitAfterCancel
  BY DEF ShutdownInv
<1> QED BY <1>1, ShutdownInvariant, PTL

\* The log file is closed after everything Stop waits for.
THEOREM LogIsClosedLast == Spec => []LogClosedLast
<1>1. ShutdownInv => LogClosedLast
  BY DEF ShutdownInv, PositionsOK, LogClosedLast
<1> QED BY <1>1, ShutdownInvariant, PTL

-----------------------------------------------------------------------------
(* The close of quit.                                                      *)

\* Who closed quit has left the select, and run() and the workers end for a
\* reason only.
CloseInv ==
  /\ QuitIsOwed /\ PanicNeedsBoth /\ NobodyEndsEarly
  /\ quit => hpc = "done" \/ stop \in {"wait", "closeLog", "returned"}
  /\ stopCh => ctxDone
  /\ run = "starting" => hpc = "none"

LEMMA StepClose == ShutdownInv /\ CloseInv /\ [Next]_vars => CloseInv'
<1> SUFFICES ASSUME ShutdownInv, CloseInv, [Next]_vars PROVE CloseInv'
  OBVIOUS
<1> USE DEF ShutdownInv, TypeOK, PositionsOK, QuitAfterCancel, StopPositions,
        HttpGoes, StopGoes, Alive, CloseInv, QuitIsOwed, OnTheWay, PanicNeedsBoth,
        NobodyEndsEarly
<1>1. CASE RunStarts
  BY <1>1 DEF RunStarts, Workers
<1>2. CASE RunEnds
  BY <1>2 DEF RunEnds
<1>3. CASE Http
  <2>1. CASE ListenClosed \/ ListenFails
    BY <2>1 DEF ListenClosed, ListenFails
  <2>2. CASE HttpCancel
    BY <2>2 DEF HttpCancel
  <2>3. CASE HttpCheck
    BY <2>3 DEF HttpCheck
  <2>4. CASE HttpClose
    BY <2>4 DEF HttpClose, CloseQuit
  <2> QED BY <1>3, <2>1, <2>2, <2>3, <2>4 DEF Http
<1>4. CASE StopCalled
  BY <1>4 DEF StopCalled
<1>5. CASE Stop
  <2>1. CASE StopCancel \/ StopReader \/ StopShutdown \/ StopDrained
    BY <2>1 DEF StopCancel, StopReader, StopShutdown, StopDrained
  <2>2. CASE StopCheck
    BY <2>2 DEF StopCheck
  <2>3. CASE StopClose
    BY <2>3 DEF StopClose, CloseQuit
  <2>4. CASE StopWait \/ StopCloseLog
    BY <2>4 DEF StopWait, StopCloseLog
  <2> QED BY <1>5, <2>1, <2>2, <2>3, <2>4 DEF Stop
<1>6. ASSUME NEW w \in Workers, WorkerEnds(w) PROVE CloseInv'
  BY <1>6 DEF WorkerEnds
<1>7. CASE UNCHANGED vars
  BY <1>7 DEF vars
<1> QED BY <1>1, <1>2, <1>3, <1>4, <1>5, <1>6, <1>7 DEF Next

LEMMA InitClose == Init => CloseInv
BY DEF Init, CloseInv, QuitIsOwed, OnTheWay, PanicNeedsBoth, NobodyEndsEarly, Workers

\* CloseInv is inductive relative to ShutdownInv.
LEMMA CloseInvariant == Spec => []CloseInv
BY InitClose, StepClose, ShutdownInvariant, PTL DEF Spec

\* No wake-up is lost: Stop never waits for a run() that nobody is going to
\* end.
THEOREM QuitIsNeverForgotten == Spec => []QuitIsOwed
<1>1. CloseInv => QuitIsOwed
  BY DEF CloseInv
<1> QED BY <1>1, CloseInvariant, PTL

\* The double close of quit happens only when a failing server meets a Stop.
THEOREM PanicOnlyInTheRace == Spec => []PanicNeedsBoth
<1>1. CloseInv => PanicNeedsBoth
  BY DEF CloseInv
<1> QED BY <1>1, CloseInvariant, PTL

\* run() and the workers end after a cancel only.
THEOREM WorkersEndForCause == Spec => []NobodyEndsEarly
<1>1. CloseInv => NobodyEndsEarly
  BY DEF CloseInv
<1> QED BY <1>1, CloseInvariant, PTL
=============================================================================

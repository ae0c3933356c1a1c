-------------------------- MODULE ScaleDaemonProofs --------------------------
(***************************************************************************)
(* The service implements the lifecycle and the reader, for any sets of    *)
(* ports, brands and connections, any channel, burst and faults: so every  *)
(* theorem about either module is one about the service.                   *)
(*                                                                         *)
(* A step of the service is a step of one module and a step or a stutter   *)
(* of the other.  The two that move both are the reader's last step, which *)
(* ends the worker, and the steps of Stop and of the HTTP goroutine that   *)
(* cancel the context or stop the reader.                                  *)
(***************************************************************************)
EXTENDS ScaleDaemon, DaemonLifecycleProofs

RP == INSTANCE ScaleReaderProofs WITH hpc <- conns, stopped <- stopCh

-----------------------------------------------------------------------------
(* The lifecycle.                                                          *)

\* The reader reaches its end only when it has been told to.
LEMMA ReaderLeaves ==
  ASSUME R!ReaderStep
  PROVE  /\ UNCHANGED <<cfg, conns, ctxDone, stopCh>>
         /\ rpc # "done"
         /\ rpc' = "done" => ctxDone \/ stopCh
<1> USE DEF R!others, R!Goto
<1>1. CASE R!StartExit
  BY <1>1 DEF R!StartExit, R!Stopping
<1>2. CASE R!BeginCycle
  BY <1>2 DEF R!BeginCycle
<1>3. CASE R!TestSend \/ R!TestSleep
  BY <1>3 DEF R!TestSend, R!TestSleep
<1>4. CASE R!Connect
  BY <1>4 DEF R!Connect, R!ConnectOK, R!ConnectError, R!ConnectShadowed
<1>5. CASE R!CheckContext \/ R!Request
  BY <1>5 DEF R!CheckContext, R!Request, R!WriteFailed
<1>6. CASE R!AwaitCut \/ R!BeginRead \/ R!EndRead
  BY <1>6 DEF R!AwaitCut, R!BeginRead, R!EndRead
<1>7. CASE R!Deliver \/ R!CloseOnError \/ R!Pace \/ R!Retry
  BY <1>7 DEF R!Deliver, R!CloseOnError, R!Pace, R!Retry
<1> QED BY <1>1, <1>2, <1>3, <1>4, <1>5, <1>6, <1>7 DEF R!ReaderStep

\* A step of the service is a step of the lifecycle, or none.
LEMMA StepLifecycle == [DaemonNext]_daemonVars => [Next]_vars
<1> SUFFICES ASSUME [DaemonNext]_daemonVars PROVE [Next]_vars
  OBVIOUS
<1>1. CASE ReaderMoves
  <2>1. UNCHANGED <<lifecycleVars, ctxDone, stopCh>>
    BY <1>1, ReaderLeaves DEF ReaderMoves
  <2>2. CASE rpc' = "done"
    <3>1. WorkerEnds("reader")
      BY <1>1, <2>1, <2>2, ReaderLeaves DEF ReaderMoves, WorkerEnds, lifecycleVars
    <3> QED BY <3>1 DEF Next, Workers
  <2>3. CASE rpc' # "done"
    BY <1>1, <2>1, <2>3 DEF ReaderMoves, lifecycleVars, vars
  <2> QED BY <2>2, <2>3
<1>2. CASE BroadcasterMoves
  BY <1>2 DEF BroadcasterMoves, R!Receive, lifecycleVars, vars
<1>3. ASSUME NEW h \in Handlers, Configures(h) \/ ClosesPort(h) PROVE [Next]_vars
  BY <1>3 DEF Configures, ClosesPort, R!ConfigMessage, R!ClosePort, lifecycleVars, vars
<1>4. CASE Runs(RunStarts \/ RunEnds \/ Http \/ StopCalled \/ Stop)
  BY <1>4 DEF Runs, Next
<1>5. ASSUME NEW w \in Workers \ {"reader"}, Runs(WorkerEnds(w)) PROVE [Next]_vars
  BY <1>5 DEF Runs, Next
<1>6. CASE UNCHANGED daemonVars
  BY <1>6 DEF daemonVars
<1> QED BY <1>1, <1>2, <1>3, <1>4, <1>5, <1>6 DEF DaemonNext

\* The service keeps what ShutdownInv says of its shutdown.
LEMMA DaemonShutdown == DaemonSpec => []ShutdownInv
<1>1. DaemonInit => ShutdownInv
  BY DEF DaemonInit, Init, ShutdownInv, TypeOK, PositionsOK, QuitAfterCancel,
         StopPositions, Workers
<1>2. ShutdownInv /\ [DaemonNext]_daemonVars => ShutdownInv'
  BY StepLifecycle, StepShutdown
<1> QED BY <1>1, <1>2, PTL DEF DaemonSpec

\* Whatever DaemonLifecycle says of Start, run and Stop is true of the service
\* with its real reader.
THEOREM DaemonImplementsLifecycle == DaemonSpec => ImplementsLifecycle
<1>1. DaemonInit => Init
  BY DEF DaemonInit
<1> QED BY <1>1, StepLifecycle, PTL DEF DaemonSpec, ImplementsLifecycle, Spec

-----------------------------------------------------------------------------
(* The reader.                                                             *)

\* A step of the lifecycle is, for the reader, a cancel, a stop, or nothing.
LEMMA LifecycleSignals ==
  ASSUME ShutdownInv,
         RunStarts \/ RunEnds \/ Http \/ StopCalled \/ Stop \/ \E w \in Workers : WorkerEnds(w),
         UNCHANGED readerVars
  PROVE  [R!Next]_(R!vars)
<1> USE DEF HttpGoes, StopGoes, readerVars, R!vars
<1>1. CASE HttpCancel \/ StopCancel
  <2>1. ctxDone' = TRUE /\ UNCHANGED stopCh
    BY <1>1 DEF HttpCancel, StopCancel
  <2>2. CASE ctxDone
    BY <2>1, <2>2
  <2>3. CASE ~ctxDone
    BY <2>1, <2>3 DEF R!Next, R!Cancel
  <2> QED BY <2>2, <2>3
<1>2. CASE StopReader
  <2>1. ctxDone /\ stopCh' = TRUE /\ UNCHANGED ctxDone
    BY <1>2 DEF StopReader, ShutdownInv, PositionsOK
  <2>2. CASE stopCh
    BY <2>1, <2>2
  <2>3. CASE ~stopCh
    BY <2>1, <2>3 DEF R!Next, R!StopReader
  <2> QED BY <2>2, <2>3
<1>3. CASE RunStarts \/ RunEnds \/ StopCalled \/ \E w \in Workers : WorkerEnds(w)
  BY <1>3 DEF RunStarts, RunEnds, StopCalled, WorkerEnds
<1>4. CASE ListenClosed \/ ListenFails \/ HttpCheck \/ HttpClose
  BY <1>4 DEF ListenClosed, ListenFails, HttpCheck, HttpClose
<1>5. CASE StopShutdown \/ StopDrained \/ StopCheck \/ StopClose \/ StopWait \/ StopCloseLog
  BY <1>5 DEF StopShutdown, StopDrained, StopCheck, StopClose, StopWait, StopCloseLog
<1> QED BY <1>1, <1>2, <1>3, <1>4, <1>5 DEF Http, Stop

\* A step of the service is a step of the reader, or none.
LEMMA StepReader == ShutdownInv /\ [DaemonNext]_daemonVars => [R!Next]_(R!vars)
<1> SUFFICES ASSUME ShutdownInv, [DaemonNext]_daemonVars PROVE [R!Next]_(R!vars)
  OBVIOUS
<1>1. CASE ReaderMoves \/ BroadcasterMoves
  BY <1>1 DEF ReaderMoves, BroadcasterMoves, R!Next
<1>2. ASSUME NEW h \in Handlers, Configures(h) \/ ClosesPort(h) PROVE [R!Next]_(R!vars)
  BY <1>2 DEF Configures, ClosesPort, R!Next
<1>3. CASE Runs(RunStarts \/ RunEnds \/ Http \/ StopCalled \/ Stop)
  BY <1>3, LifecycleSignals DEF Runs
<1>4. ASSUME NEW w \in Workers \ {"reader"}, Runs(WorkerEnds(w)) PROVE [R!Next]_(R!vars)
  BY <1>4, LifecycleSignals DEF Runs
<1>5. CASE UNCHANGED daemonVars
  BY <1>5 DEF daemonVars, vars, readerVars, R!vars
<1> QED BY <1>1, <1>2, <1>3, <1>4, <1>5 DEF DaemonNext

\* Whatever ScaleReader says of the reader, its handlers and the channel is
\* true of the service that starts, cancels and stops it.
THEOREM DaemonImplementsReader == DaemonSpec => ImplementsReader
<1>1. DaemonInit => R!Init
  BY DEF DaemonInit
<1> QED BY <1>1, StepReader, DaemonShutdown, PTL DEF DaemonSpec, ImplementsReader, R!Spec

\* R and RP are instances of one module with one substitution, so their
\* definitions are the same text once they are unfolded, which is all that the
\* three steps do.
LEMMA SameReader ==
  /\ R!Init => RP!Init
  /\ [R!Next]_(R!vars) => [RP!Next]_(RP!vars)
  /\ RP!ReaderInv => R!ReaderInv
<1>1. R!Init => RP!Init
  BY DEF R!Init, RP!Init, R!InitialConfig, RP!InitialConfig
<1>2. [R!Next]_(R!vars) => [RP!Next]_(RP!vars)
  BY DEF R!Next, RP!Next, R!ReaderStep, RP!ReaderStep, R!StartExit,
         RP!StartExit, R!BeginCycle, RP!BeginCycle, R!TestSend, RP!TestSend,
         R!TestSleep, RP!TestSleep, R!Connect, RP!Connect, R!ConnectOK,
         RP!ConnectOK, R!ConnectError, RP!ConnectError, R!ConnectShadowed,
         RP!ConnectShadowed, R!CheckContext, RP!CheckContext, R!Request,
         RP!Request, R!WriteFailed, RP!WriteFailed, R!AwaitCut, RP!AwaitCut,
         R!BeginRead, RP!BeginRead, R!EndRead, RP!EndRead, R!Deliver,
         RP!Deliver, R!CloseOnError, RP!CloseOnError, R!Pace, RP!Pace,
         R!Retry, RP!Retry, R!ConfigMessage, RP!ConfigMessage, R!ClosePort,
         RP!ClosePort, R!Cancel, RP!Cancel, R!StopReader, RP!StopReader,
         R!Receive, RP!Receive, R!others, RP!others, R!Goto, RP!Goto,
         R!Stopping, RP!Stopping, R!Full, RP!Full, R!TrySend, RP!TrySend,
         R!CloseHandle, RP!CloseHandle, R!closePort, RP!closePort, R!vars,
         RP!vars, R!Requests, RP!Requests, R!Updated, RP!Updated,
         R!FillEmpty, RP!FillEmpty, R!Changed, RP!Changed, R!Outcomes,
         RP!Outcomes
<1>3. RP!ReaderInv => R!ReaderInv
  BY DEF R!ReaderInv, RP!ReaderInv, R!TypeOK, RP!TypeOK, R!Configs,
         RP!Configs, R!Positions, RP!Positions, R!Outcomes, RP!Outcomes,
         R!Errors, RP!Errors, R!Messages, RP!Messages, R!LockPositions,
         RP!LockPositions, R!PortPositions, RP!PortPositions,
         R!UnclosedIsOpen, RP!UnclosedIsOpen, R!ReadHoldsLock,
         RP!ReadHoldsLock, R!HandleMatchesSnapshot,
         RP!HandleMatchesSnapshot, R!LockLeaked, RP!LockLeaked,
         R!SwapEffective, RP!SwapEffective, R!Stopping, RP!Stopping
<1> QED BY <1>1, <1>2, <1>3

\* So the reader's inductive invariant holds in the service.
LEMMA DaemonReader == DaemonSpec => []R!ReaderInv
<1>1. RP!Init /\ [][RP!Next]_(RP!vars) => []RP!ReaderInv
  BY RP!ReaderInvariant, DaemonAssumption DEF RP!ReaderInvariant, RP!Spec, RP!FaultKinds, R!FaultKinds
<1> QED
  BY <1>1, SameReader, DaemonImplementsReader, PTL DEF ImplementsReader, R!Spec

-----------------------------------------------------------------------------
(* The worker and the goroutine, and the port.                             *)

\* Before run() there is no reader.
CoupledInv == Coupled /\ (run = "starting" <=> workers["reader"] = "none")

LEMMA StepCoupled ==
  TypeOK /\ R!TypeOK /\ CoupledInv /\ [DaemonNext]_daemonVars => CoupledInv'
<1> SUFFICES ASSUME TypeOK, R!TypeOK, CoupledInv, [DaemonNext]_daemonVars PROVE CoupledInv'
  OBVIOUS
<1> USE DEF CoupledInv, Coupled, lifecycleVars
<1>1. CASE ReaderMoves
  BY <1>1, ReaderLeaves DEF ReaderMoves, TypeOK, Workers
<1>2. CASE BroadcasterMoves
  BY <1>2 DEF BroadcasterMoves, R!Receive
<1>3. ASSUME NEW h \in Handlers, Configures(h) PROVE CoupledInv'
  BY <1>3 DEF Configures, R!ConfigMessage
<1>4. ASSUME NEW h \in Handlers, ClosesPort(h) PROVE CoupledInv'
  BY <1>4 DEF ClosesPort, R!ClosePort, R!closePort
<1>5. CASE Runs(RunStarts)
  BY <1>5 DEF Runs, RunStarts, readerVars, TypeOK, Workers
<1>6. CASE Runs(RunEnds \/ Http \/ StopCalled \/ Stop)
  <2>1. UNCHANGED <<workers, readerVars>> /\ (run' = "starting" <=> run = "starting")
    BY <1>6 DEF Runs, RunEnds, Http, StopCalled, Stop, HttpGoes, StopGoes,
       ListenClosed, ListenFails, HttpCancel, HttpCheck, HttpClose,
       StopCancel, StopReader, StopShutdown, StopDrained, StopCheck, StopClose,
       StopWait, StopCloseLog
  <2> QED BY <2>1 DEF readerVars
<1>7. ASSUME NEW w \in Workers \ {"reader"}, Runs(WorkerEnds(w)) PROVE CoupledInv'
  BY <1>7 DEF Runs, WorkerEnds, readerVars, TypeOK, Workers
<1>8. CASE UNCHANGED daemonVars
  BY <1>8 DEF daemonVars, vars, readerVars
<1> QED BY <1>1, <1>2, <1>3, <1>4, <1>5, <1>6, <1>7, <1>8 DEF DaemonNext, Runs

LEMMA DaemonCoupled == DaemonSpec => []CoupledInv
<1>1. DaemonInit => CoupledInv
  BY DEF DaemonInit, Init, R!Init, CoupledInv, Coupled, Workers
<1>2. ShutdownInv /\ R!ReaderInv => TypeOK /\ R!TypeOK
  BY DEF ShutdownInv, R!ReaderInv
<1> QED BY <1>1, <1>2, StepCoupled, DaemonShutdown, DaemonReader, PTL DEF DaemonSpec

\* Both modules keep their types together.
THEOREM DaemonTypes == DaemonSpec => []DaemonTypeOK
<1>1. ShutdownInv /\ R!ReaderInv => DaemonTypeOK
  BY DEF ShutdownInv, R!ReaderInv, DaemonTypeOK
<1> QED BY <1>1, DaemonShutdown, DaemonReader, PTL

\* The worker the lifecycle counts on and the reader's goroutine are one.
THEOREM WorkerIsReader == DaemonSpec => []Coupled
<1>1. CoupledInv => Coupled
  BY DEF CoupledInv
<1> QED BY <1>1, DaemonCoupled, PTL

\* An open port always has a reader that will close it, unless a Close failed:
\* Stop, a failing server and the connections that outlive both included.
THEOREM PortNeverAlone == DaemonSpec => []PortHasReader
<1>1. TypeOK /\ R!ReaderInv /\ CoupledInv => PortHasReader
  <2> SUFFICES ASSUME TypeOK, R!ReaderInv, CoupledInv, port # NoPort
               PROVE  workers["reader"] = "running" \/ unclosed
    BY DEF PortHasReader
  <2>1. workers["reader"] \in {"none", "running", "ended"}
    BY DEF TypeOK, Workers
  <2>2. rpc = "done" => unclosed
    BY DEF R!ReaderInv, R!LockPositions, R!PortPositions
  <2> QED BY <2>1, <2>2 DEF CoupledInv, Coupled
<1>2. ShutdownInv => TypeOK
  BY DEF ShutdownInv
<1> QED BY <1>1, <1>2, DaemonShutdown, DaemonReader, DaemonCoupled, PTL

-----------------------------------------------------------------------------
(* What the two modules prove, of the service.                             *)

\* The service shuts down in order: quit after the cancel, always closed by
\* somebody once the context is cancelled, the log file last - whatever the
\* reader does meanwhile.
THEOREM ServiceShutsDownInOrder ==
  DaemonSpec => [](QuitAfterCancel /\ QuitIsOwed /\ NobodyEndsEarly /\ LogClosedLast)
BY DaemonImplementsLifecycle, QuitFollowsCancel, QuitIsNeverForgotten, WorkersEndForCause,
   LogIsClosedLast, PTL DEF ImplementsLifecycle

\* In the service, where connections reconfigure a reader that is started late,
\* cancelled by two parties and stopped: no handle is overwritten, an open one
\* is of the running snapshot, Read is protected, an outdated snapshot is about
\* to be dropped, and a reader that returned has released the port.
THEOREM ServiceReaderIsSafe ==
  DaemonSpec => [](/\ R!NoHandleOverwritten /\ R!HandleMatchesSnapshot
                   /\ R!ReadHoldsLock /\ R!SwapEffective /\ R!PortReleased)
<1>1. R!ReaderInv => /\ R!NoHandleOverwritten /\ R!HandleMatchesSnapshot
                     /\ R!ReadHoldsLock /\ R!SwapEffective /\ R!PortReleased
  BY DEF R!ReaderInv, R!NoHandleOverwritten, R!PortReleased, R!LockPositions, R!PortPositions
<1> QED BY <1>1, DaemonReader, PTL

\* R!Link and RP!Link are the same module under the same substitution too.
LEMMA SameLink ==
  /\ RP!Link!LinkInit => R!Link!LinkInit
  /\ [RP!Link!LinkNext]_(RP!Link!linkVars) => [R!Link!LinkNext]_(R!Link!linkVars)
<1>1. RP!Link!LinkInit => R!Link!LinkInit
  BY DEF RP!Link!LinkInit, R!Link!LinkInit
<1>2. [RP!Link!LinkNext]_(RP!Link!linkVars) => [R!Link!LinkNext]_(R!Link!linkVars)
  BY DEF RP!Link!LinkNext, R!Link!LinkNext, RP!Link!linkVars, R!Link!linkVars,
         RP!Link!Decide, R!Link!Decide, RP!Link!Establish, R!Link!Establish,
         RP!Link!Abandon, R!Link!Abandon, RP!Link!Hangup, R!Link!Hangup,
         RP!Link!Reconfigure, R!Link!Reconfigure
<1> QED BY <1>1, <1>2

\* The service, too, treats its serial line as SerialLink says.
THEOREM ServiceImplementsLink == DaemonSpec => R!ImplementsLink
<1>1. RP!Init /\ [][RP!Next]_(RP!vars) => RP!Link!LinkInit /\ [][RP!Link!LinkNext]_(RP!Link!linkVars)
  BY RP!ReaderImplementsLink, DaemonAssumption
     DEF RP!ReaderImplementsLink, RP!Spec, RP!FaultKinds, R!FaultKinds, RP!ImplementsLink, RP!Link!LinkSpec
<1> QED
  BY <1>1, SameReader, SameLink, DaemonImplementsReader, PTL
     DEF ImplementsReader, R!Spec, R!ImplementsLink, R!Link!LinkSpec
=============================================================================

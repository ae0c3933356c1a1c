----------------------------- MODULE ScaleDaemon -----------------------------
(***************************************************************************)
(* The service as a whole: the lifecycle of internal/daemon/daemon.go with *)
(* the serial reader it starts, cancels and stops.  The context and stopCh *)
(* are the ones both modules know; the reader moves only between the start *)
(* run() gives it and its own return, the channel is drained only while    *)
(* the broadcaster runs, and connections change the configuration from the *)
(* first start of run() until the process is gone: Shutdown does not end   *)
(* a hijacked connection, so its handlers outlive Stop.                    *)
(***************************************************************************)
EXTENDS DaemonLifecycle, Sequences

CONSTANTS Ports, Brands, Unset, DefaultPort, DefaultBrand, NoPort, Handlers,
          ChanCap, TestReadings, Faults

VARIABLES cfg, conf, port, mu, rpc, left, got, broadcast, conns, missed, unclosed

R == INSTANCE ScaleReader WITH hpc <- conns, stopped <- stopCh

ASSUME DaemonAssumption ==
  /\ DefaultPort \in Ports /\ DefaultBrand \in Brands
  /\ Unset \notin Ports \union Brands /\ NoPort \notin Ports
  /\ {ChanCap, TestReadings} \subseteq Nat \ {0}
  /\ Faults \subseteq R!FaultKinds

readerVars == <<cfg, conf, port, mu, rpc, left, got, broadcast, conns, missed, unclosed>>
daemonVars == <<vars, readerVars>>

\* What the lifecycle keeps to itself, but for the workers.
lifecycleVars == <<run, hpc, stop, inShutdown, quit, logOpen, panicked>>

DaemonTypeOK == TypeOK /\ R!TypeOK

DaemonInit == Init /\ R!Init

\* Mutant of ReaderMoves: the reader is started before run().
ReaderMovesEarly ==
  /\ Alive
  /\ workers["reader"] # "ended"
  /\ R!ReaderStep
  /\ workers' = IF rpc' = "done" THEN [workers EXCEPT !["reader"] = "ended"] ELSE workers
  /\ UNCHANGED lifecycleVars

\* The reader takes a step; the one that ends it is the end of the worker.
ReaderMoves ==
  /\ Alive
  /\ workers["reader"] = "running"
  /\ R!ReaderStep
  /\ workers' = IF rpc' = "done" THEN [workers EXCEPT !["reader"] = "ended"] ELSE workers
  /\ UNCHANGED lifecycleVars

\* A connection changes the configuration ...
Configures(h) ==
  /\ Alive
  /\ run # "starting"
  /\ R!ConfigMessage(h)
  /\ UNCHANGED <<lifecycleVars, workers>>

\* ... and closes the port for it.
ClosesPort(h) ==
  /\ Alive
  /\ R!ClosePort(h)
  /\ UNCHANGED <<lifecycleVars, workers>>

\* The broadcaster's select takes a message as long as it has not returned.
BroadcasterMoves ==
  /\ Alive
  /\ workers["broadcaster"] = "running"
  /\ R!Receive
  /\ UNCHANGED <<lifecycleVars, workers>>

Runs(A) == A /\ UNCHANGED readerVars

DaemonNext ==
  \/ ReaderMoves \/ BroadcasterMoves \/ \E h \in Handlers : Configures(h) \/ ClosesPort(h)
  \/ Runs(RunStarts \/ RunEnds \/ Http \/ StopCalled \/ Stop)
  \/ \E w \in Workers \ {"reader"} : Runs(WorkerEnds(w))

DaemonSpec == DaemonInit /\ [][DaemonNext]_daemonVars

\* Every goroutine runs on until Stop has returned: main returns then, and the
\* process with it.  sync.Mutex serves a handler that waits; the broadcaster
\* drains the channel until the context ends.  Nobody has to call Stop, and a
\* server that serves may serve for ever.
Lives == stop # "returned"

DaemonFairness ==
  /\ WF_daemonVars(Lives /\ ReaderMoves)
  /\ \A h \in Handlers : SF_daemonVars(Lives /\ ClosesPort(h))
  /\ WF_daemonVars(~ctxDone /\ BroadcasterMoves)
  /\ WF_daemonVars(Runs(RunStarts \/ RunEnds))
  /\ WF_daemonVars(Runs(ListenClosed \/ HttpCancel \/ HttpCheck \/ HttpClose))
  /\ WF_daemonVars(Runs(Stop))
  /\ WF_daemonVars(Lives /\ Runs(\E w \in Workers \ {"reader"} : WorkerEnds(w)))

DaemonFairSpec == DaemonSpec /\ DaemonFairness

-----------------------------------------------------------------------------
(* Properties.                                                             *)

\* The worker the lifecycle counts on and the goroutine of the reader are one.
Coupled ==
  /\ workers["reader"] = "none"  => rpc = "start" /\ port = NoPort
  /\ workers["reader"] = "ended" <=> rpc = "done"
  /\ run = "starting" => \A h \in Handlers : conns[h] = "idle"

\* Nobody is left alone with the port: while it is open the reader, who will
\* close it, has not returned - wherever Stop, the HTTP goroutine, the wait
\* group and the surviving connections are - unless its last Close failed.
PortHasReader == port # NoPort => workers["reader"] = "running" \/ unclosed

\* A server that fails - a port in use - ends every goroutine and releases the
\* serial port, without anybody calling Stop; a leaked lock or a double close
\* of quit can prevent it, and a Stop that returns first ends the process.
AllReleased ==
  /\ run = "done"
  /\ \A w \in Workers : workers[w] = "ended"
  /\ port = NoPort \/ unclosed
FailureReleases ==
  hpc = "cancel" ~> AllReleased \/ R!LockLeaked \/ panicked \/ stop = "returned"

\* The reader inside the service is the reader of its own module, and the
\* service is the lifecycle.
ImplementsReader    == R!Spec
ImplementsLifecycle == Spec
=============================================================================

----------------------------- MODULE ScaleReader -----------------------------
(***************************************************************************)
(* The serial reader of internal/scale/scale.go, together with the two     *)
(* things it shares state with: the configuration handlers, which replace  *)
(* the configuration and then call ClosePort, and the bounded broadcast    *)
(* channel.  One goroutine runs Start/readCycle; each configuration        *)
(* message runs on the goroutine of its WebSocket connection.              *)
(*                                                                         *)
(* The reader's program counter rpc names the statement it is about to     *)
(* execute.  A critical section that cannot be observed half way is one    *)
(* action; the one that spans a blocking Read (up to SerialReadTimeout)    *)
(* is two, and mu is held between them.  Sleeps whose result the code      *)
(* ignores need no action: a step may take any time.                       *)
(***************************************************************************)
EXTENDS ScaleConfig, Naturals, Sequences

CONSTANTS
  NoPort,         \* the nil value of Reader.port
  Handlers,       \* goroutines handling configuration messages
  ChanCap,        \* capacity of the broadcast channel (100 in daemon.New)
  TestReadings,   \* readings of one test-mode burst (6 in the code)
  Faults          \* serial calls that may fail in this instance

FaultKinds == {"open", "setup", "write", "read", "close"}

ASSUME ReaderAssumption ==
  /\ NoPort \notin Ports
  /\ ChanCap \in Nat \ {0}
  /\ TestReadings \in Nat \ {0}
  /\ Faults \subseteq FaultKinds

VARIABLES
  cfg,        \* Config: the values behind Get and Update
  conf,       \* the snapshot readCycle took when it began
  port,       \* Reader.port
  mu,         \* TRUE while Reader.mu stays locked across steps
  rpc,        \* the reader goroutine's position
  left,       \* simulated readings still to send in this burst
  got,        \* outcome of a Read until it is delivered, else "empty"
  broadcast,  \* the channel the broadcaster drains
  ctxDone,    \* the service context is cancelled
  stopped,    \* stopCh is closed
  hpc,        \* per handler: "idle", or "closing" on its way to ClosePort
  missed,     \* history: a ClosePort ran between this cycle's Get and connect
  unclosed    \* history: the last Close tried on the open handle failed

\* What the reader goroutine reads and never writes.
others == <<cfg, hpc, ctxDone, stopped>>
vars == <<cfg, conf, port, mu, rpc, left, got, broadcast, ctxDone, stopped,
          hpc, missed, unclosed>>

Errors   == {"ERR_EOF", "ERR_TIMEOUT", "ERR_READ", "ERR_SCALE_CONN"}
Messages == {"weight", "simulated"} \union Errors
Outcomes == {"weight", "empty", "eof", "timeout", "error"}
Positions == {"start", "testSend", "testSleep", "connect", "loop", "request",
              "await", "reading", "deliver", "closeOnError", "pace", "retry",
              "done"}

TypeOK ==
  /\ cfg \in Configs /\ conf \in Configs
  /\ port \in Ports \union {NoPort}
  /\ mu \in BOOLEAN
  /\ rpc \in Positions
  /\ left \in 0..TestReadings
  /\ rpc \in {"testSend", "testSleep"} => left > 0
  /\ got \in Outcomes
  /\ broadcast \in Seq(Messages) /\ Len(broadcast) <= ChanCap
  /\ ctxDone \in BOOLEAN /\ stopped \in BOOLEAN
  /\ hpc \in [Handlers -> {"idle", "closing"}]
  /\ missed \in BOOLEAN /\ unclosed \in BOOLEAN

Init ==
  /\ cfg = InitialConfig /\ conf = InitialConfig
  /\ port = NoPort
  /\ mu = FALSE
  /\ rpc = "start"
  /\ left = 0
  /\ got = "empty"
  /\ broadcast = << >>
  /\ ctxDone = FALSE /\ stopped = FALSE
  /\ hpc = [h \in Handlers |-> "idle"]
  /\ missed = FALSE /\ unclosed = FALSE

-----------------------------------------------------------------------------
(* Helpers.                                                                *)

Stopping == ctxDone \/ stopped
Full     == Len(broadcast) >= ChanCap

\* Mutant of TrySend: the capacity forgotten.
TrySendUnbounded(m) == broadcast' = Append(broadcast, m)

\* A send in a select with a default: dropped when the channel is full.
TrySend(m) == broadcast' = IF Full THEN broadcast ELSE Append(broadcast, m)

\* The outcomes of port.Close() and the assignment that follows it: the
\* handle is forgotten only when Close succeeds.
CloseHandle ==
  \/ port' = NoPort /\ unclosed' = FALSE
  \/ "close" \in Faults /\ port' = port /\ unclosed' = TRUE

\* Mutants of closePort: the lock forgotten; the nil check inverted.
closePortUnlocked ==
  IF port # NoPort THEN CloseHandle ELSE UNCHANGED <<port, unclosed>>
closePortInverted ==
  ~mu /\ IF port = NoPort THEN CloseHandle ELSE UNCHANGED <<port, unclosed>>

\* closePort(), whole: lock, close an open handle, unlock.
closePort ==
  /\ ~mu
  /\ IF port # NoPort THEN CloseHandle ELSE UNCHANGED <<port, unclosed>>

\* The reader goes from one position to another.
Goto(from, to) == rpc = from /\ rpc' = to

-----------------------------------------------------------------------------
(* The reader goroutine.                                                   *)

\* Start sees a closed stop channel or a cancelled context and returns.
StartExit ==
  /\ Goto("start", "done")
  /\ Stopping
  /\ closePort
  /\ UNCHANGED <<others, conf, mu, left, got, broadcast, missed>>

\* readCycle begins: it works on this snapshot until it returns.
BeginCycle ==
  /\ rpc = "start"
  /\ ~Stopping
  /\ conf' = cfg
  /\ missed' = FALSE
  /\ IF cfg.modoPrueba
       THEN rpc' = "testSend" /\ left' = TestReadings
       ELSE rpc' = "connect" /\ left' = left
  /\ UNCHANGED <<others, port, mu, got, broadcast, unclosed>>

\* Mutant of TestSend: a plain send, without the ctx.Done case.
TestSendPlain ==
  /\ rpc = "testSend"
  /\ ~Full /\ rpc' = "testSleep" /\ broadcast' = Append(broadcast, "simulated")
  /\ UNCHANGED <<others, conf, port, mu, left, got, missed, unclosed>>

\* Test mode: the send blocks on a full channel until the context ends.  It
\* does not look at stopCh.
TestSend ==
  /\ rpc = "testSend"
  /\ \/ ctxDone /\ rpc' = "start" /\ broadcast' = broadcast
     \/ ~Full /\ rpc' = "testSleep" /\ broadcast' = Append(broadcast, "simulated")
  /\ UNCHANGED <<others, conf, port, mu, left, got, missed, unclosed>>

TestSleep ==
  /\ rpc = "testSleep"
  /\ \/ Stopping /\ rpc' = "start" /\ left' = left
     \/ /\ left' = left - 1
        /\ rpc' = IF left = 1 THEN "retry" ELSE "testSend"
  /\ UNCHANGED <<others, conf, port, mu, got, broadcast, missed, unclosed>>

\* Mutant of ConnectOK: the port is read from the configuration again.
ConnectFresh ==
  /\ rpc' = "loop"
  /\ port' = cfg.puerto /\ unclosed' = FALSE
  /\ UNCHANGED broadcast

\* connect(): open the port of the snapshot, then set its read timeout.
ConnectOK ==
  /\ rpc' = "loop"
  /\ port' = conf.puerto /\ unclosed' = FALSE
  /\ UNCHANGED broadcast

\* serialOpen fails, or SetReadTimeout and the Close after it both fail.
ConnectError ==
  /\ "open" \in Faults \/ {"setup", "close"} \subseteq Faults
  /\ rpc' = "retry"
  /\ TrySend("ERR_SCALE_CONN")
  /\ UNCHANGED <<port, unclosed>>

\* SetReadTimeout fails and Close succeeds: the inner err shadows the outer
\* one, so connect returns nil with no port assigned.
ConnectShadowed ==
  /\ "setup" \in Faults
  /\ rpc' = "loop"
  /\ UNCHANGED <<port, unclosed, broadcast>>

Connect ==
  /\ rpc = "connect"
  /\ ~mu
  /\ ConnectOK \/ ConnectError \/ ConnectShadowed
  /\ UNCHANGED <<others, conf, mu, left, got, missed>>

\* The head of the read loop looks at the context only.
CheckContext ==
  /\ rpc = "loop"
  /\ rpc' = IF ctxDone THEN "start" ELSE "request"
  /\ UNCHANGED <<others, conf, port, mu, left, got, broadcast, missed, unclosed>>

\* Mutant of WriteFailed: retry on a port left open.
WriteFailedPortOpen == rpc' = "retry" /\ UNCHANGED <<port, unclosed, mu>>

\* A failed write closes the handle and leaves the loop; when that Close
\* fails too, readCycle returns without unlocking.
WriteFailed ==
  \/ rpc' = "retry" /\ port' = NoPort /\ unclosed' = FALSE /\ mu' = FALSE
  \/ /\ "close" \in Faults
     /\ rpc' = "start" /\ port' = port /\ unclosed' = TRUE /\ mu' = TRUE

\* Send the weight command; a port closed meanwhile ends the loop.
Request ==
  /\ rpc = "request"
  /\ ~mu
  /\ \/ port = NoPort /\ rpc' = "retry" /\ UNCHANGED <<port, unclosed, mu>>
     \/ port # NoPort /\ rpc' = "await" /\ UNCHANGED <<port, unclosed, mu>>
     \/ port # NoPort /\ "write" \in Faults /\ WriteFailed
  /\ UNCHANGED <<others, conf, left, got, broadcast, missed>>

\* The 500 ms wait is cut short by a stop.
AwaitCut ==
  /\ Goto("await", "start")
  /\ Stopping
  /\ UNCHANGED <<others, conf, port, mu, left, got, broadcast, missed, unclosed>>

\* After the wait the port is checked again, and Read runs under the lock.
BeginRead ==
  /\ rpc = "await"
  /\ ~mu
  /\ IF port = NoPort THEN rpc' = "retry" /\ mu' = mu
                      ELSE rpc' = "reading" /\ mu' = TRUE
  /\ UNCHANGED <<others, conf, port, left, got, broadcast, missed, unclosed>>

\* Mutant of EndRead: the unlock forgotten.
EndReadLocked ==
  /\ Goto("reading", "deliver")
  /\ got' \in IF "read" \in Faults THEN Outcomes ELSE {"weight", "empty"}
  /\ UNCHANGED <<others, conf, port, mu, left, broadcast, missed, unclosed>>

EndRead ==
  /\ Goto("reading", "deliver")
  /\ mu' = FALSE
  /\ got' \in IF "read" \in Faults THEN Outcomes ELSE {"weight", "empty"}
  /\ UNCHANGED <<others, conf, port, left, broadcast, missed, unclosed>>

\* What is sent for each outcome of Read, and where the reader goes next:
\* a timeout and an EOF keep the port, any other error closes it.
Deliver ==
  /\ rpc = "deliver"
  /\ \/ got = "weight"  /\ TrySend("weight")      /\ rpc' = "pace"
     \/ got = "empty"   /\ UNCHANGED broadcast    /\ rpc' = "pace"
     \/ got = "eof"     /\ TrySend("ERR_EOF")     /\ rpc' = "loop"
     \/ got = "timeout" /\ TrySend("ERR_TIMEOUT") /\ rpc' = "loop"
     \/ got = "error"   /\ TrySend("ERR_READ")    /\ rpc' = "closeOnError"
  /\ got' = "empty"
  /\ UNCHANGED <<others, conf, port, mu, left, missed, unclosed>>

CloseOnError ==
  /\ Goto("closeOnError", "loop")
  /\ closePort
  /\ UNCHANGED <<others, conf, mu, left, got, broadcast, missed>>

\* The 300 ms between two requests.
Pace ==
  /\ rpc = "pace"
  /\ \/ rpc' = "loop"
     \/ Stopping /\ rpc' = "start"
  /\ UNCHANGED <<others, conf, port, mu, left, got, broadcast, missed, unclosed>>

\* The RetryDelay that ends a cycle: cut or not, readCycle returns.
Retry ==
  /\ Goto("retry", "start")
  /\ UNCHANGED <<others, conf, port, mu, left, got, broadcast, missed, unclosed>>

ReaderStep ==
  \/ StartExit \/ BeginCycle \/ TestSend \/ TestSleep
  \/ Connect \/ CheckContext \/ Request \/ AwaitCut \/ BeginRead
  \/ EndRead \/ Deliver \/ CloseOnError \/ Pace \/ Retry

-----------------------------------------------------------------------------
(* Configuration handlers, and the rest of the service.                    *)

\* handleConfigMessage: Update, then onConfigChange only if a value changed.
ConfigMessage(h) ==
  /\ hpc[h] = "idle"
  /\ \E req \in Requests :
       /\ cfg' = Updated(cfg, req)
       /\ hpc' = [hpc EXCEPT ![h] = IF Changed(cfg, req) THEN "closing" ELSE "idle"]
  /\ UNCHANGED <<conf, port, mu, rpc, left, got, broadcast, missed, unclosed,
                 ctxDone, stopped>>

\* onConfigChange: ClosePort, which waits for the reader's lock.  missed
\* records that it found no handle because the reader, which already holds
\* its snapshot, has still to open one.
ClosePort(h) ==
  /\ hpc[h] = "closing"
  /\ closePort
  /\ missed' = (missed \/ rpc = "connect")
  /\ hpc' = [hpc EXCEPT ![h] = "idle"]
  /\ UNCHANGED <<cfg, conf, mu, rpc, left, got, broadcast, ctxDone, stopped>>

\* Service.Stop cancels the context first and stops the reader second; a
\* failing HTTP server only cancels.
Cancel ==
  /\ ~ctxDone
  /\ ctxDone' = TRUE
  /\ UNCHANGED <<cfg, conf, port, mu, rpc, left, got, broadcast, stopped,
                 hpc, missed, unclosed>>

StopReader ==
  /\ ctxDone /\ ~stopped
  /\ stopped' = TRUE
  /\ UNCHANGED <<cfg, conf, port, mu, rpc, left, got, broadcast, ctxDone,
                 hpc, missed, unclosed>>

\* The broadcaster takes one message.
Receive ==
  /\ broadcast # << >>
  /\ broadcast' = Tail(broadcast)
  /\ UNCHANGED <<cfg, conf, port, mu, rpc, left, got, ctxDone, stopped,
                 hpc, missed, unclosed>>

Next ==
  \/ ReaderStep
  \/ \E h \in Handlers : ConfigMessage(h) \/ ClosePort(h)
  \/ Cancel \/ StopReader \/ Receive

Spec == Init /\ [][Next]_vars

\* The reader goroutine keeps running, serial calls return (Read has a
\* timeout), and sync.Mutex hands the lock to a waiter that has waited for
\* more than a millisecond.  The broadcaster drains the channel until the
\* context is cancelled.  Clients and the shutdown owe nothing.
Fairness ==
  /\ WF_vars(ReaderStep)
  /\ \A h \in Handlers : SF_vars(ClosePort(h))
  /\ WF_vars(~ctxDone /\ Receive)

FairSpec == Spec /\ Fairness

-----------------------------------------------------------------------------
(* Safety.                                                                 *)

\* The lock is held by nobody who will release it: the return of a write
\* failure whose Close failed too (scale.go:215-218).
LockLeaked == mu /\ unclosed /\ rpc # "reading"

\* Reader.connect assigns r.port without looking at it.  Whenever it can run,
\* no handle is there to be overwritten and lost: every way out of the read
\* loop that starts another cycle has closed the port first.
NoHandleOverwritten == rpc = "connect" /\ ~mu => port = NoPort

\* An open handle is the port of the snapshot the cycle runs on, never of an
\* earlier cycle, and a test-mode cycle neither opens nor keeps one.
HandleMatchesSnapshot ==
  /\ port # NoPort /\ ~LockLeaked => port = conf.puerto /\ ~conf.modoPrueba
  /\ rpc = "connect" => ~conf.modoPrueba

\* Hot swap: a reader that is connected, or about to connect, with an outdated
\* snapshot has a handler on its way to close the port - unless that handler
\* came between Config.Get and connect (missed), or its Close failed.
SwapEffective ==
  (rpc = "connect" \/ port # NoPort) /\ ~missed /\ ~unclosed
    => conf = cfg \/ \E h \in Handlers : hpc[h] = "closing"

\* Read runs under the lock on a handle nobody can close meanwhile: the nil
\* check after the 500 ms wait is not stale when Read starts.
ReadHoldsLock == rpc = "reading" => mu /\ port # NoPort

\* When the reader goroutine has returned, the port is released or its last
\* Close failed.
PortReleased == rpc = "done" => port = NoPort \/ unclosed

\* Where the lock can be found locked, and a port open, between two steps.
LockPositions ==
  mu => /\ port # NoPort
        /\ \/ rpc = "reading"
           \/ unclosed /\ rpc \in {"start", "testSend", "testSleep", "connect", "retry"}

PortPositions ==
  port # NoPort /\ ~mu =>
    \/ rpc \in {"loop", "request", "await", "deliver", "closeOnError", "pace"}
    \/ rpc = "start" /\ Stopping
    \/ rpc = "done" /\ unclosed

UnclosedIsOpen == unclosed => port # NoPort

\* Hot swap never leaves one port for another: the line is closed in between.
PortsOneByOne == [][port # NoPort /\ port' # port => port' = NoPort]_vars

\* The lock leaks only where both the write and the Close after it can fail ...
LeakNeedsBothFailures == LockLeaked => {"write", "close"} \subseteq Faults

\* ... and then nothing gives it back: no reconnect, no configuration and no
\* Stop ever frees the lock or the port again in this process.
LeakIsForever == [][LockLeaked => LockLeaked' /\ port' = port]_vars

\* How many steps the reader can still take once the context is cancelled.
Far ==
  [start |-> 1, loop |-> 2, retry |-> 2, connect |-> 3, closeOnError |-> 3,
   pace |-> 3, deliver |-> 4, reading |-> 5, await |-> 6, request |-> 7, done |-> 0,
   testSleep |-> 2, testSend |-> 3]
StepsLeft == Far[rpc] + (IF rpc \in {"testSend", "testSleep"} THEN 2 * left ELSE 0)

\* A cancelled reader never turns back, whatever the scale answers: each of its
\* steps, and nobody else's, brings it nearer to its return.  No loop of
\* readCycle, of a test burst or of Start survives the cancel.
ShutdownProgress ==
  [][ctxDone => IF rpc' = rpc THEN StepsLeft' = StepsLeft
                ELSE StepsLeft' \in 0..(StepsLeft - 1)]_vars

\* The inductive invariant behind the properties above: it says at which
\* statements of readCycle the lock and the port can be found held.
ReaderInv ==
  /\ TypeOK
  /\ LockPositions
  /\ PortPositions
  /\ UnclosedIsOpen
  /\ ReadHoldsLock
  /\ HandleMatchesSnapshot
  /\ SwapEffective

(* Liveness, under FairSpec.                                               *)

\* A cancelled service context ends the reader goroutine, wherever it was: in
\* a blocked test-mode send, a read, a retry; only a leaked lock can keep it.
ShutdownTerminates == ctxDone ~> rpc = "done" \/ LockLeaked

\* A configuration handler waiting for the reader's lock gets it, however
\* often the reader takes it again for its reads.
HandlerReturns ==
  \A h \in Handlers : hpc[h] = "closing" ~> hpc[h] = "idle" \/ LockLeaked

\* Hot swap, to the end: an outdated snapshot is eventually replaced, whatever
\* the serial calls answer - except after the race and the failed Close that
\* SwapEffective names.
SwapApplied ==
  conf # cfg ~> conf = cfg \/ missed \/ unclosed \/ ctxDone

(* What the documentation says and the code does not do.                   *)

\* scale.go:214 announces "Cerrando y reintentando..." (closing and retrying)
\* on a write error: an attempt to connect again gets somewhere.
RetryProceeds == rpc = "connect" ~> rpc # "connect"

\* README.md:58-60 (hot-swap): a new configuration makes the daemon close the
\* port and restart the loop with the new parameters.
HotSwapApplied == conf # cfg ~> conf = cfg \/ ctxDone

-----------------------------------------------------------------------------
(* The reader implements the serial line.  An attempt is in progress from  *)
(* the snapshot of a real-mode cycle to the end of connect; a cycle that   *)
(* blocks on a leaked lock attempts nothing.                               *)

Link == INSTANCE SerialLink
  WITH None   <- NoPort,
       link   <- port,
       wanted <- IF cfg.modoPrueba THEN NoPort ELSE cfg.puerto,
       target <- IF rpc = "connect" /\ ~mu THEN conf.puerto ELSE NoPort

\* Every behaviour of the reader is a behaviour of the serial line: one port
\* at a time, opened only as the snapshot asked and only after a close.
ImplementsLink == Link!LinkSpec
=============================================================================

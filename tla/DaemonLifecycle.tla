--------------------------- MODULE DaemonLifecycle ---------------------------
(***************************************************************************)
(* Start, run and Stop of the Windows service (internal/daemon/daemon.go): *)
(* which goroutine ends which, and in what order the service lets go of    *)
(* its context, its serial reader, its HTTP server, the quit channel and   *)
(* the log file.                                                           *)
(*                                                                         *)
(* The select that looks at quit and the close that follows its default    *)
(* case are two steps, in Stop and in the goroutine of the HTTP server.    *)
(* A second close of quit panics and ends the process: nothing moves any   *)
(* more.                                                                   *)
(***************************************************************************)
EXTENDS Naturals

VARIABLES
  run,        \* the goroutine of run(): "starting", "waiting" on quit, "done"
  hpc,        \* the goroutine of ListenAndServe
  stop,       \* the position of Stop(), "none" before it is called
  workers,    \* the goroutines bound to the context
  ctxDone,    \* the service context is cancelled
  stopCh,     \* Reader.stopCh is closed
  inShutdown, \* Shutdown was called on the HTTP server
  quit,       \* quit is closed
  logOpen,    \* the log file is open
  panicked    \* quit was closed twice

vars == <<run, hpc, stop, workers, ctxDone, stopCh, inShutdown, quit, logOpen,
          panicked>>

Workers == {"reader", "broadcaster", "cleanup"}

StopPositions == {"none", "cancel", "reader", "shutdown", "draining", "check",
                  "close", "wait", "closeLog", "returned"}

TypeOK ==
  /\ run \in {"starting", "waiting", "done"}
  /\ hpc \in {"none", "serving", "cancel", "check", "close", "done"}
  /\ stop \in StopPositions
  /\ workers \in [Workers -> {"none", "running", "ended"}]
  /\ {ctxDone, stopCh, inShutdown, quit, logOpen, panicked} \subseteq BOOLEAN

\* Service.Start has returned: the auth cleanup runs, run() is on its way.
Init ==
  /\ run = "starting" /\ hpc = "none" /\ stop = "none"
  /\ workers = [w \in Workers |-> IF w = "cleanup" THEN "running" ELSE "none"]
  /\ ctxDone = FALSE /\ stopCh = FALSE /\ inShutdown = FALSE
  /\ quit = FALSE /\ logOpen = TRUE /\ panicked = FALSE

\* The process has not died of the panic.
Alive == ~panicked

\* The two goroutines of interest go from one statement to another.
HttpGoes(from, to) == Alive /\ hpc = from /\ hpc' = to
StopGoes(from, to) == Alive /\ stop = from /\ stop' = to

-----------------------------------------------------------------------------
(* run(), and the workers it starts.                                       *)

RunStarts ==
  /\ Alive
  /\ run = "starting"
  /\ run' = "waiting"
  /\ hpc' = "serving"
  /\ workers' = [workers EXCEPT !["reader"] = "running", !["broadcaster"] = "running"]
  /\ UNCHANGED <<stop, ctxDone, stopCh, inShutdown, quit, logOpen, panicked>>

RunEnds ==
  /\ Alive
  /\ run = "waiting" /\ quit
  /\ run' = "done"
  /\ UNCHANGED <<hpc, stop, workers, ctxDone, stopCh, inShutdown, quit, logOpen, panicked>>

\* The context ends every worker; stopCh ends the reader only.
WorkerEnds(w) ==
  /\ Alive
  /\ workers[w] = "running"
  /\ ctxDone \/ (w = "reader" /\ stopCh)
  /\ workers' = [workers EXCEPT ![w] = "ended"]
  /\ UNCHANGED <<run, hpc, stop, ctxDone, stopCh, inShutdown, quit, logOpen, panicked>>

-----------------------------------------------------------------------------
(* The goroutine of the HTTP server.                                       *)

\* The close that follows a select's default case.
CloseQuit ==
  IF quit THEN panicked' = TRUE /\ quit' = quit
          ELSE panicked' = panicked /\ quit' = TRUE

\* ListenAndServe returns ErrServerClosed once Shutdown has been called ...
ListenClosed ==
  /\ HttpGoes("serving", "done") /\ inShutdown
  /\ UNCHANGED <<run, stop, workers, ctxDone, stopCh, inShutdown, quit, logOpen, panicked>>

\* ... and another error, such as a port in use, before that - or after it,
\* from a listen call that was under way when Shutdown began.
ListenFails ==
  /\ HttpGoes("serving", "cancel")
  /\ UNCHANGED <<run, stop, workers, ctxDone, stopCh, inShutdown, quit, logOpen, panicked>>

\* Mutant of HttpCancel: the context is not cancelled.
HttpNoCancel ==
  /\ HttpGoes("cancel", "check")
  /\ UNCHANGED <<run, stop, workers, ctxDone, stopCh, inShutdown, quit, logOpen, panicked>>

HttpCancel ==
  /\ HttpGoes("cancel", "check")
  /\ ctxDone' = TRUE
  /\ UNCHANGED <<run, stop, workers, stopCh, inShutdown, quit, logOpen, panicked>>

HttpCheck ==
  /\ HttpGoes("check", IF quit THEN "done" ELSE "close")
  /\ UNCHANGED <<run, stop, workers, ctxDone, stopCh, inShutdown, quit, logOpen, panicked>>

HttpClose ==
  /\ HttpGoes("close", "done")
  /\ CloseQuit
  /\ UNCHANGED <<run, stop, workers, ctxDone, stopCh, inShutdown, logOpen>>

-----------------------------------------------------------------------------
(* Stop(), called once by the service manager or on a signal.              *)

StopCalled ==
  /\ StopGoes("none", "cancel")
  /\ UNCHANGED <<run, hpc, workers, ctxDone, stopCh, inShutdown, quit, logOpen, panicked>>

\* Mutant of StopCancel: the context is not cancelled.
StopNoCancel ==
  /\ StopGoes("cancel", "reader")
  /\ UNCHANGED <<run, hpc, workers, ctxDone, stopCh, inShutdown, quit, logOpen, panicked>>

StopCancel ==
  /\ StopGoes("cancel", "reader")
  /\ ctxDone' = TRUE
  /\ UNCHANGED <<run, hpc, workers, stopCh, inShutdown, quit, logOpen, panicked>>

StopReader ==
  /\ StopGoes("reader", "shutdown")
  /\ stopCh' = TRUE
  /\ UNCHANGED <<run, hpc, workers, ctxDone, inShutdown, quit, logOpen, panicked>>

StopShutdown ==
  /\ StopGoes("shutdown", "draining")
  /\ inShutdown' = TRUE
  /\ UNCHANGED <<run, hpc, workers, ctxDone, stopCh, quit, logOpen, panicked>>

\* Shutdown returns when the server is idle, or after ten seconds.
StopDrained ==
  /\ StopGoes("draining", "check")
  /\ UNCHANGED <<run, hpc, workers, ctxDone, stopCh, inShutdown, quit, logOpen, panicked>>

\* Mutant of StopCheck: wait for run() without closing quit.
StopSkipClose ==
  /\ StopGoes("check", "wait")
  /\ UNCHANGED <<run, hpc, workers, ctxDone, stopCh, inShutdown, quit, logOpen, panicked>>

StopCheck ==
  /\ StopGoes("check", IF quit THEN "wait" ELSE "close")
  /\ UNCHANGED <<run, hpc, workers, ctxDone, stopCh, inShutdown, quit, logOpen, panicked>>

StopClose ==
  /\ StopGoes("close", "wait")
  /\ CloseQuit
  /\ UNCHANGED <<run, hpc, workers, ctxDone, stopCh, inShutdown, logOpen>>

\* Mutant of StopWait: the wait group is not waited for.
StopNoWait ==
  /\ StopGoes("wait", "closeLog")
  /\ UNCHANGED <<run, hpc, workers, ctxDone, stopCh, inShutdown, quit, logOpen, panicked>>

\* wg.Wait: the wait group counts run() only.
StopWait ==
  /\ StopGoes("wait", "closeLog")
  /\ run = "done"
  /\ UNCHANGED <<run, hpc, workers, ctxDone, stopCh, inShutdown, quit, logOpen, panicked>>

StopCloseLog ==
  /\ StopGoes("closeLog", "returned")
  /\ logOpen' = FALSE
  /\ UNCHANGED <<run, hpc, workers, ctxDone, stopCh, inShutdown, quit, panicked>>

Http == ListenClosed \/ ListenFails \/ HttpCancel \/ HttpCheck \/ HttpClose

Stop ==
  \/ StopCancel \/ StopReader \/ StopShutdown \/ StopDrained \/ StopCheck
  \/ StopClose \/ StopWait \/ StopCloseLog

Next == RunStarts \/ RunEnds \/ Http \/ StopCalled \/ Stop \/ \E w \in Workers : WorkerEnds(w)

Spec == Init /\ [][Next]_vars

-----------------------------------------------------------------------------
(* Properties.                                                             *)

\* What has been done is what the position of each goroutine says.
PositionsOK ==
  /\ hpc \in {"check", "close"} => ctxDone
  /\ stop \notin {"none", "cancel"} => ctxDone
  /\ stop \in {"draining", "check", "close", "wait", "closeLog", "returned"} => inShutdown
  /\ stop \in {"closeLog", "returned"} => run = "done"
  /\ ~logOpen => stop = "returned"

\* quit is closed only when the workers have been told to end, so run() never
\* returns and leaves the reader on the port with no signal to let it go.
QuitAfterCancel == quit => ctxDone

\* Whoever may still close quit, from where it is.
OnTheWay ==
  \/ hpc \in {"check", "close"}
  \/ stop \in {"reader", "shutdown", "draining", "check", "close"}

\* No wake-up is lost: from the moment the context is cancelled, quit is closed
\* or a goroutine that will close it is on its way - each of the two leaves the
\* close to the other only after seeing quit closed - so Stop never waits for a
\* run() nobody ends.
QuitIsOwed ==
  /\ ctxDone => quit \/ OnTheWay
  /\ stop \in {"wait", "closeLog", "returned"} => quit

\* A double close needs both: a server that failed and a Stop, each past its
\* look at quit before the other closed it.
PanicNeedsBoth ==
  panicked => quit /\ hpc = "done" /\ stop \in {"wait", "closeLog", "returned"}

\* Nothing the service started ends by itself: as long as the context is alive
\* run() waits and the workers that have begun go on.
NobodyEndsEarly ==
  run = "done" \/ (\E w \in Workers : workers[w] = "ended") => ctxDone

\* The log file is closed last: the server takes no more connections, and
\* run() is over.
LogClosedLast == ~logOpen => run = "done" /\ inShutdown /\ ctxDone

\* Stop, once called, returns: quit is closed by one side or the other, so the
\* wait for run() ends - unless the process dies of the double close.
StopReturns == stop = "cancel" ~> stop = "returned" \/ panicked

(* What a comment says and the code does not do.                           *)

\* daemon.go:135: "Stop() closes s.quit after Shutdown() completes, avoiding
\* double-close"; daemon.go:173: "Safe because select checks if already closed".
NoDoubleClose == ~panicked
=============================================================================

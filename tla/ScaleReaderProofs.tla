-------------------------- MODULE ScaleReaderProofs --------------------------
(***************************************************************************)
(* What TLC checks on two ports and two handlers, proved for any sets of   *)
(* ports, brands and handlers, any channel capacity, any burst length and  *)
(* any set of serial calls that may fail.                                  *)
(*                                                                         *)
(* The argument: the reader is the only one that locks across steps and    *)
(* the only one that opens a port, so the position rpc determines when mu  *)
(* and port can be held (LockPositions, PortPositions).  Everything else   *)
(* follows from that and from the order of Update and ClosePort.           *)
(***************************************************************************)
EXTENDS ScaleReader, TLAPS

-----------------------------------------------------------------------------
(* The operators.                                                          *)

\* Config.Update keeps the configuration well formed.
LEMMA UpdatedType ==
  ASSUME NEW c \in Configs, NEW req \in Requests
  PROVE  Updated(c, req) \in Configs
BY DEF Configs, Requests, Updated, FillEmpty

\* Config.Update that reports no change changed nothing.
LEMMA UnchangedUpdate ==
  ASSUME NEW c \in Configs, NEW req \in Requests, ~Changed(c, req)
  PROVE  Updated(c, req) = c
BY DEF Configs, Requests, Updated, FillEmpty, Changed

\* Config.Update reports a change exactly when the configuration is another one:
\* onConfigChange is called neither for nothing nor too seldom.
THEOREM ChangedIsExact ==
  ASSUME NEW c \in Configs, NEW req \in Requests
  PROVE  Changed(c, req) <=> Updated(c, req) # c
<1>1. Changed(c, req) => Updated(c, req) # c
  BY DEF Changed, Updated
<1>2. ~Changed(c, req) => Updated(c, req) = c
  BY UnchangedUpdate
<1> QED BY <1>1, <1>2

\* A configuration message that arrives twice closes the port once: repeated,
\* it changes nothing and reports nothing.
THEOREM RepeatedUpdateIsSilent ==
  ASSUME NEW c \in Configs, NEW req \in Requests
  PROVE  /\ Updated(Updated(c, req), req) = Updated(c, req)
         /\ ~Changed(Updated(c, req), req)
<1>1. ~Changed(Updated(c, req), req)
  BY DEF Configs, Requests, Changed, Updated, FillEmpty
<1> QED BY <1>1, UpdatedType, UnchangedUpdate

\* A non-blocking send keeps the channel within its capacity.
LEMMA TrySendType ==
  ASSUME TypeOK, NEW m \in Messages, TrySend(m)
  PROVE  broadcast' \in Seq(Messages) /\ Len(broadcast') <= ChanCap
BY ReaderAssumption DEF TypeOK, TrySend, Full

-----------------------------------------------------------------------------
(* Type correctness.                                                       *)

LEMMA InitType == Init => TypeOK
<1> SUFFICES ASSUME Init PROVE TypeOK
  OBVIOUS
<1>1. InitialConfig \in Configs
  BY ConfigAssumption DEF InitialConfig, Configs
<1>2. << >> \in Seq(Messages) /\ Len(<< >>) = 0
  OBVIOUS
<1>3. [h \in Handlers |-> "idle"] \in [Handlers -> {"idle", "closing"}]
  OBVIOUS
<1>4. broadcast \in Seq(Messages) /\ Len(broadcast) <= ChanCap
  BY <1>2, ReaderAssumption DEF Init
<1>5. left \in 0..TestReadings
  BY ReaderAssumption DEF Init
<1> QED
  BY <1>1, <1>3, <1>4, <1>5 DEF Init, TypeOK, Positions, Outcomes

LEMMA StepType == TypeOK /\ [Next]_vars => TypeOK'
<1> SUFFICES ASSUME TypeOK, [Next]_vars PROVE TypeOK'
  OBVIOUS
<1> USE ReaderAssumption
<1>1. CASE StartExit
  BY <1>1 DEF TypeOK, StartExit, Goto, closePort, CloseHandle, others, Positions
<1>2. CASE BeginCycle
  <2>1. /\ rpc' \in {"testSend", "connect"}
        /\ left' \in 0..TestReadings
        /\ rpc' = "testSend" => left' > 0
    BY <1>2 DEF TypeOK, BeginCycle
  <2> QED BY <1>2, <2>1 DEF TypeOK, BeginCycle, others, Positions
<1>3. CASE TestSend
  BY <1>3 DEF TypeOK, TestSend, Full, Messages, others, Positions
<1>4. CASE TestSleep
  BY <1>4 DEF TypeOK, TestSleep, others, Positions
<1>5. CASE Connect
  <2>1. CASE ConnectOK
    BY <1>5, <2>1 DEF TypeOK, Connect, ConnectOK, Configs, others, Positions
  <2>2. CASE ConnectError
    <3>1. broadcast' \in Seq(Messages) /\ Len(broadcast') <= ChanCap
      BY <2>2, TrySendType DEF ConnectError, Messages, Errors
    <3> QED BY <1>5, <2>2, <3>1 DEF TypeOK, Connect, ConnectError, others, Positions
  <2>3. CASE ConnectShadowed
    BY <1>5, <2>3 DEF TypeOK, Connect, ConnectShadowed, others, Positions
  <2> QED BY <1>5, <2>1, <2>2, <2>3 DEF Connect
<1>6. CASE CheckContext
  BY <1>6 DEF TypeOK, CheckContext, others, Positions
<1>7. CASE Request
  BY <1>7 DEF TypeOK, Request, WriteFailed, others, Positions
<1>8. CASE AwaitCut \/ BeginRead \/ Pace \/ Retry
  BY <1>8 DEF TypeOK, AwaitCut, BeginRead, Pace, Retry, Goto, others, Positions
<1>9. CASE EndRead
  BY <1>9 DEF TypeOK, EndRead, Goto, others, Positions, Outcomes
<1>10. CASE Deliver
  <2>1. broadcast' \in Seq(Messages) /\ Len(broadcast') <= ChanCap
    BY <1>10, TrySendType DEF Deliver, TypeOK, Messages, Errors
  <2> QED BY <1>10, <2>1 DEF TypeOK, Deliver, others, Positions, Outcomes
<1>11. CASE CloseOnError
  BY <1>11 DEF TypeOK, CloseOnError, Goto, closePort, CloseHandle, others, Positions
<1>12. ASSUME NEW h \in Handlers, ConfigMessage(h) PROVE TypeOK'
  BY <1>12, UpdatedType DEF TypeOK, ConfigMessage
<1>13. ASSUME NEW h \in Handlers, ClosePort(h) PROVE TypeOK'
  BY <1>13 DEF TypeOK, ClosePort, closePort, CloseHandle
<1>14. CASE Cancel \/ StopReader
  BY <1>14 DEF TypeOK, Cancel, StopReader
<1>15. CASE Receive
  BY <1>15 DEF TypeOK, Receive
<1>16. CASE UNCHANGED vars
  BY <1>16 DEF TypeOK, vars
<1> QED
  BY <1>1, <1>2, <1>3, <1>4, <1>5, <1>6, <1>7, <1>8, <1>9, <1>10, <1>11,
     <1>12, <1>13, <1>14, <1>15, <1>16 DEF Next, ReaderStep

\* Every variable keeps its type, and the channel its capacity, for every
\* instance of the reader.
THEOREM TypeCorrect == Spec => []TypeOK
BY InitType, StepType, PTL DEF Spec

-----------------------------------------------------------------------------
(* Where the lock and the port can be held.                                *)

Held == LockPositions /\ PortPositions /\ UnclosedIsOpen /\ ReadHoldsLock

LEMMA InitHeld == Init => Held
BY DEF Init, Held, LockPositions, PortPositions, UnclosedIsOpen, ReadHoldsLock

LEMMA StepHeld == TypeOK /\ Held /\ [Next]_vars => Held'
<1> SUFFICES ASSUME TypeOK, Held, [Next]_vars PROVE Held'
  OBVIOUS
<1> USE ReaderAssumption
    DEF Held, LockPositions, PortPositions, UnclosedIsOpen, ReadHoldsLock, Stopping
<1>1. CASE StartExit
  BY <1>1 DEF StartExit, Goto, closePort, CloseHandle, others
<1>2. CASE BeginCycle
  BY <1>2 DEF BeginCycle, others
<1>3. CASE TestSend
  BY <1>3 DEF TestSend, others
<1>4. CASE TestSleep
  BY <1>4 DEF TestSleep, others
<1>5. CASE Connect
  BY <1>5 DEF Connect, ConnectOK, ConnectError, ConnectShadowed, TypeOK, Configs, others
<1>6. CASE CheckContext
  BY <1>6 DEF CheckContext, others
<1>7. CASE Request
  BY <1>7 DEF Request, WriteFailed, others
<1>8. CASE AwaitCut \/ BeginRead \/ EndRead \/ Pace \/ Retry
  BY <1>8 DEF AwaitCut, BeginRead, EndRead, Pace, Retry, Goto, others
<1>9. CASE Deliver
  BY <1>9 DEF Deliver, others
<1>10. CASE CloseOnError
  BY <1>10 DEF CloseOnError, Goto, closePort, CloseHandle, others
<1>11. ASSUME NEW h \in Handlers, ConfigMessage(h) PROVE Held'
  BY <1>11 DEF ConfigMessage
<1>12. ASSUME NEW h \in Handlers, ClosePort(h) PROVE Held'
  BY <1>12 DEF ClosePort, closePort, CloseHandle
<1>13. CASE Cancel \/ StopReader \/ Receive
  BY <1>13 DEF Cancel, StopReader, Receive
<1>14. CASE UNCHANGED vars
  BY <1>14 DEF vars
<1> QED
  BY <1>1, <1>2, <1>3, <1>4, <1>5, <1>6, <1>7, <1>8, <1>9, <1>10, <1>11,
     <1>12, <1>13, <1>14 DEF Next, ReaderStep

-----------------------------------------------------------------------------
(* The handle and the configuration.                                       *)

LEMMA StepHandle ==
  TypeOK /\ Held /\ HandleMatchesSnapshot /\ [Next]_vars => HandleMatchesSnapshot'
<1> SUFFICES ASSUME TypeOK, Held, HandleMatchesSnapshot, [Next]_vars
             PROVE  HandleMatchesSnapshot'
  OBVIOUS
<1> USE DEF HandleMatchesSnapshot, LockLeaked
<1>1. CASE StartExit \/ CloseOnError
  BY <1>1 DEF StartExit, CloseOnError, Goto, closePort, CloseHandle
<1>2. CASE BeginCycle
  BY <1>2 DEF BeginCycle, Held, LockPositions, PortPositions
<1>3. CASE TestSend \/ TestSleep
  BY <1>3 DEF TestSend, TestSleep
<1>4. CASE Connect
  BY <1>4 DEF Connect, ConnectOK, ConnectError, ConnectShadowed, Held, PortPositions
<1>5. CASE CheckContext \/ Deliver
  BY <1>5 DEF CheckContext, Deliver
<1>6. CASE Request
  BY <1>6 DEF Request, WriteFailed
<1>7. CASE AwaitCut \/ BeginRead \/ EndRead \/ Pace \/ Retry
  BY <1>7 DEF AwaitCut, BeginRead, EndRead, Pace, Retry, Goto
<1>8. ASSUME NEW h \in Handlers, ConfigMessage(h) PROVE HandleMatchesSnapshot'
  BY <1>8 DEF ConfigMessage
<1>9. ASSUME NEW h \in Handlers, ClosePort(h) PROVE HandleMatchesSnapshot'
  BY <1>9 DEF ClosePort, closePort, CloseHandle
<1>10. CASE Cancel \/ StopReader \/ Receive \/ UNCHANGED vars
  BY <1>10 DEF Cancel, StopReader, Receive, vars
<1> QED
  BY <1>1, <1>2, <1>3, <1>4, <1>5, <1>6, <1>7, <1>8, <1>9, <1>10 DEF Next, ReaderStep

\* Under ReaderInv, a step either keeps both configurations, takes a fresh
\* snapshot, or leaves a handler on its way to the port.
LEMMA StepSwap ==
  TypeOK /\ Held /\ SwapEffective /\ [Next]_vars => SwapEffective'
<1> SUFFICES ASSUME TypeOK, Held, SwapEffective, [Next]_vars
             PROVE  SwapEffective'
  OBVIOUS
<1> USE DEF SwapEffective
<1>1. CASE StartExit
  BY <1>1 DEF StartExit, Goto, closePort, CloseHandle, others
<1>2. CASE CloseOnError
  BY <1>2 DEF CloseOnError, Goto, closePort, CloseHandle, others
<1>3. CASE BeginCycle
  BY <1>3 DEF BeginCycle, others
<1>4. CASE TestSend \/ TestSleep
  BY <1>4 DEF TestSend, TestSleep, others
<1>5. CASE Connect
  <2>1. port = NoPort /\ ~unclosed
    BY <1>5 DEF Connect, Held, PortPositions, UnclosedIsOpen
  <2> QED BY <1>5, <2>1 DEF Connect, ConnectOK, ConnectError, ConnectShadowed, others
<1>6. CASE CheckContext \/ Deliver
  BY <1>6 DEF CheckContext, Deliver, others
<1>7. CASE Request
  BY <1>7 DEF Request, WriteFailed, others
<1>8. CASE AwaitCut \/ BeginRead \/ EndRead \/ Pace \/ Retry
  BY <1>8 DEF AwaitCut, BeginRead, EndRead, Pace, Retry, Goto, others
<1>9. ASSUME NEW h \in Handlers, ConfigMessage(h) PROVE SwapEffective'
  <2>1. PICK req \in Requests :
          /\ cfg' = Updated(cfg, req)
          /\ hpc' = [hpc EXCEPT ![h] = IF Changed(cfg, req) THEN "closing" ELSE "idle"]
    BY <1>9 DEF ConfigMessage
  <2>2. UNCHANGED <<conf, port, rpc, missed, unclosed>>
    BY <1>9 DEF ConfigMessage
  <2>3. CASE Changed(cfg, req)
    \* The handler itself is now on its way.
    <3>1. hpc'[h] = "closing"
      BY <2>1, <2>3 DEF TypeOK
    <3> QED BY <3>1
  <2>4. CASE ~Changed(cfg, req)
    \* Nothing changed, and h was idle before and after.
    <3>1. cfg' = cfg
      BY <2>1, <2>4, UnchangedUpdate DEF TypeOK
    <3>2. \A g \in Handlers : hpc[g] = "closing" => hpc'[g] = "closing"
      BY <1>9, <2>1, <2>4 DEF TypeOK, ConfigMessage
    <3> QED BY <2>2, <3>1, <3>2
  <2> QED BY <2>3, <2>4
<1>10. ASSUME NEW h \in Handlers, ClosePort(h) PROVE SwapEffective'
  <2>1. CASE port = NoPort
    \* The port stays closed, so only a reader about to connect matters, and
    \* for that one the race is recorded.
    BY <1>10, <2>1 DEF ClosePort, closePort
  <2>2. CASE port # NoPort
    \* The port is closed, or its Close has failed, and with a port open
    \* and the lock free the reader is not about to connect.
    <3>1. rpc # "connect"
      BY <1>10, <2>2 DEF ClosePort, closePort, Held, PortPositions
    <3> QED BY <1>10, <2>2, <3>1 DEF ClosePort, closePort, CloseHandle
  <2> QED BY <2>1, <2>2
<1>11. CASE Cancel \/ StopReader \/ Receive \/ UNCHANGED vars
  BY <1>11 DEF Cancel, StopReader, Receive, vars
<1> QED
  BY <1>1, <1>2, <1>3, <1>4, <1>5, <1>6, <1>7, <1>8, <1>9, <1>10, <1>11
     DEF Next, ReaderStep

-----------------------------------------------------------------------------
(* The theorems.                                                           *)

LEMMA InitReaderInv == Init => ReaderInv
<1> SUFFICES ASSUME Init PROVE ReaderInv
  OBVIOUS
<1>1. HandleMatchesSnapshot /\ SwapEffective
  BY DEF Init, HandleMatchesSnapshot, SwapEffective
<1> QED BY <1>1, InitType, InitHeld DEF ReaderInv, Held

\* ReaderInv is inductive.
THEOREM ReaderInvariant == Spec => []ReaderInv
<1>1. ReaderInv /\ [Next]_vars => ReaderInv'
  BY StepType, StepHeld, StepHandle, StepSwap DEF ReaderInv, Held
<1> QED BY <1>1, InitReaderInv, PTL DEF Spec

\* connect never overwrites an open handle, whatever failed before.
THEOREM HandlesNeverLost == Spec => []NoHandleOverwritten
<1>1. ReaderInv => NoHandleOverwritten
  BY DEF ReaderInv, PortPositions, NoHandleOverwritten
<1> QED BY <1>1, ReaderInvariant, PTL

\* An open handle is the port of the running cycle's real-mode snapshot.
THEOREM HandleIsOfSnapshot == Spec => []HandleMatchesSnapshot
<1>1. ReaderInv => HandleMatchesSnapshot
  BY DEF ReaderInv
<1> QED BY <1>1, ReaderInvariant, PTL

\* An outdated snapshot in use is always about to be dropped, outside the two
\* named cases.
THEOREM SwapIsEffective == Spec => []SwapEffective
<1>1. ReaderInv => SwapEffective
  BY DEF ReaderInv
<1> QED BY <1>1, ReaderInvariant, PTL

\* Read runs under the lock on an open handle.
THEOREM ReadIsProtected == Spec => []ReadHoldsLock
<1>1. ReaderInv => ReadHoldsLock
  BY DEF ReaderInv
<1> QED BY <1>1, ReaderInvariant, PTL

\* A reader that has returned has released the port, or could not close it.
THEOREM PortIsReleased == Spec => []PortReleased
<1>1. ReaderInv => PortReleased
  BY DEF ReaderInv, PortReleased, LockPositions, PortPositions
<1> QED BY <1>1, ReaderInvariant, PTL

-----------------------------------------------------------------------------
(* The leaked lock.                                                        *)

LeakInv ==
  /\ unclosed => "close" \in Faults
  /\ mu /\ rpc # "reading" => "write" \in Faults

LEMMA StepLeak == ReaderInv /\ LeakInv /\ [Next]_vars => LeakInv'
<1> SUFFICES ASSUME ReaderInv, LeakInv, [Next]_vars PROVE LeakInv'
  OBVIOUS
<1> USE DEF LeakInv
<1>1. CASE StartExit \/ CloseOnError
  BY <1>1 DEF StartExit, CloseOnError, Goto, closePort, CloseHandle
<1>2. CASE BeginCycle \/ TestSend \/ TestSleep
  BY <1>2 DEF BeginCycle, TestSend, TestSleep, ReaderInv, LockPositions
<1>3. CASE Connect
  BY <1>3 DEF Connect, ConnectOK, ConnectError, ConnectShadowed
<1>4. CASE CheckContext \/ Deliver
  BY <1>4 DEF CheckContext, Deliver
<1>5. CASE Request
  BY <1>5 DEF Request, WriteFailed
<1>6. CASE AwaitCut \/ BeginRead \/ EndRead \/ Pace \/ Retry
  BY <1>6 DEF AwaitCut, BeginRead, EndRead, Pace, Retry, Goto
<1>7. ASSUME NEW h \in Handlers, ConfigMessage(h) \/ ClosePort(h) PROVE LeakInv'
  BY <1>7 DEF ConfigMessage, ClosePort, closePort, CloseHandle
<1>8. CASE Cancel \/ StopReader \/ Receive \/ UNCHANGED vars
  BY <1>8 DEF Cancel, StopReader, Receive, vars
<1> QED
  BY <1>1, <1>2, <1>3, <1>4, <1>5, <1>6, <1>7, <1>8 DEF Next, ReaderStep

\* Where writes or closes do not fail, the lock is never leaked.
THEOREM LeakIsRare == Spec => []LeakNeedsBothFailures
<1>1. Init => LeakInv
  BY DEF Init, LeakInv
<1>2. LeakInv => LeakNeedsBothFailures
  BY DEF LeakInv, LeakNeedsBothFailures, LockLeaked
<1> QED BY <1>1, <1>2, StepLeak, ReaderInvariant, PTL DEF Spec

\* Once leaked, the lock blocks everybody who could have freed it.
LEMMA LeakStays == ReaderInv /\ LockLeaked /\ [Next]_vars => LockLeaked' /\ port' = port
<1> SUFFICES ASSUME ReaderInv, LockLeaked, [Next]_vars PROVE LockLeaked' /\ port' = port
  OBVIOUS
<1>1. mu /\ unclosed /\ rpc \in {"start", "testSend", "testSleep", "connect", "retry"}
  BY DEF ReaderInv, LockPositions, LockLeaked
<1>2. CASE StartExit \/ CloseOnError \/ Connect \/ Request \/ BeginRead
  BY <1>1, <1>2 DEF StartExit, CloseOnError, closePort, Connect, Request, BeginRead
<1>3. CASE BeginCycle \/ TestSend \/ TestSleep \/ Retry
  BY <1>1, <1>3 DEF BeginCycle, TestSend, TestSleep, Retry, Goto, LockLeaked
<1>4. CASE CheckContext \/ AwaitCut \/ EndRead \/ Deliver \/ Pace
  BY <1>1, <1>4 DEF CheckContext, AwaitCut, EndRead, Deliver, Pace, Goto
<1>5. ASSUME NEW h \in Handlers, ConfigMessage(h) \/ ClosePort(h)
      PROVE  LockLeaked' /\ port' = port
  BY <1>1, <1>5 DEF ConfigMessage, ClosePort, closePort, LockLeaked
<1>6. CASE Cancel \/ StopReader \/ Receive \/ UNCHANGED vars
  BY <1>1, <1>6 DEF Cancel, StopReader, Receive, vars, LockLeaked
<1> QED
  BY <1>2, <1>3, <1>4, <1>5, <1>6 DEF Next, ReaderStep

\* A leaked lock is never recovered, whatever is configured, cancelled or
\* stopped: only the end of the process frees the port.
THEOREM LeakIsPermanent == Spec => LeakIsForever
<1>1. ReaderInv /\ [Next]_vars => [LockLeaked => LockLeaked' /\ port' = port]_vars
  BY LeakStays
<1> QED BY <1>1, ReaderInvariant, PTL DEF Spec, LeakIsForever

-----------------------------------------------------------------------------
(* The way to the return.                                                  *)

\* StepsLeft, position by position.
StepsAre ==
  /\ rpc = "start" => StepsLeft = 1
  /\ rpc = "loop" => StepsLeft = 2
  /\ rpc = "retry" => StepsLeft = 2
  /\ rpc = "connect" => StepsLeft = 3
  /\ rpc = "closeOnError" => StepsLeft = 3
  /\ rpc = "pace" => StepsLeft = 3
  /\ rpc = "deliver" => StepsLeft = 4
  /\ rpc = "reading" => StepsLeft = 5
  /\ rpc = "await" => StepsLeft = 6
  /\ rpc = "request" => StepsLeft = 7
  /\ rpc = "done" => StepsLeft = 0
  /\ rpc = "testSleep" => StepsLeft = 2 * left + 2
  /\ rpc = "testSend" => StepsLeft = 2 * left + 3

LEMMA StepsOf == TypeOK => StepsAre
BY ReaderAssumption DEF TypeOK, StepsAre, StepsLeft, Far

LEMMA StepProgress ==
  TypeOK /\ [Next]_vars /\ ctxDone =>
    IF rpc' = rpc THEN StepsLeft' = StepsLeft ELSE StepsLeft' \in 0..(StepsLeft - 1)
<1> SUFFICES ASSUME TypeOK, [Next]_vars, ctxDone
             PROVE  IF rpc' = rpc THEN StepsLeft' = StepsLeft
                    ELSE StepsLeft' \in 0..(StepsLeft - 1)
  OBVIOUS
<1>a. StepsAre /\ StepsAre'
  BY StepType, StepsOf, PTL
<1>0. left \in Nat
  BY ReaderAssumption DEF TypeOK
<1>b. UNCHANGED <<rpc, left>> => rpc' = rpc /\ StepsLeft' = StepsLeft
  BY DEF StepsLeft, Far
<1> USE <1>a DEF StepsAre
<1>1. CASE StartExit \/ BeginCycle
  BY <1>1 DEF StartExit, BeginCycle, Goto, Stopping
<1>2. CASE TestSend
  BY <1>0, <1>2 DEF TestSend
<1>3. CASE TestSleep
  <2>1. left \in Nat \ {0}
    BY <1>0, <1>3 DEF TestSleep, TypeOK
  <2> QED BY <2>1, <1>3 DEF TestSleep
<1>4. CASE Connect
  BY <1>4 DEF Connect, ConnectOK, ConnectError, ConnectShadowed
<1>5. CASE CheckContext \/ Deliver
  BY <1>5 DEF CheckContext, Deliver
<1>6. CASE Request
  BY <1>6 DEF Request, WriteFailed
<1>7. CASE AwaitCut \/ BeginRead \/ EndRead \/ CloseOnError \/ Pace \/ Retry
  BY <1>7 DEF AwaitCut, BeginRead, EndRead, CloseOnError, Pace, Retry, Goto
<1>8. ASSUME NEW h \in Handlers, ConfigMessage(h) \/ ClosePort(h)
      PROVE  rpc' = rpc /\ StepsLeft' = StepsLeft
  <2>1. UNCHANGED <<rpc, left>>
    BY <1>8 DEF ConfigMessage, ClosePort
  <2> QED BY <2>1, <1>b
<1>9. CASE Cancel \/ StopReader \/ Receive \/ UNCHANGED vars
  <2>1. UNCHANGED <<rpc, left>>
    BY <1>9 DEF Cancel, StopReader, Receive, vars
  <2> QED BY <2>1, <1>b
<1> QED
  BY <1>1, <1>2, <1>3, <1>4, <1>5, <1>6, <1>7, <1>8, <1>9 DEF Next, ReaderStep

\* After a cancel the reader takes at most StepsLeft more steps, for any burst,
\* any channel and any failures: the bound behind ShutdownTerminates.
THEOREM ShutdownIsBounded == Spec => ShutdownProgress
<1>1. TypeOK /\ [Next]_vars =>
        [ctxDone => IF rpc' = rpc THEN StepsLeft' = StepsLeft
                    ELSE StepsLeft' \in 0..(StepsLeft - 1)]_vars
  BY StepProgress
<1> QED BY <1>1, TypeCorrect, PTL DEF Spec, ShutdownProgress

-----------------------------------------------------------------------------
(* The reader implements the serial line.                                  *)

\* The value of the abstract variable wanted (see Link).
Wanted == IF cfg.modoPrueba THEN NoPort ELSE cfg.puerto

LEMMA InitLink == Init => Link!LinkInit
BY DEF Init, InitialConfig, Link!LinkInit

\* A step the line can see is one abstract action: a cycle that begins decides or
\* (blocked by a leaked lock) does nothing, connect establishes or abandons,
\* each close hangs up, and a configuration message reconfigures.
LEMMA StepLink == ReaderInv /\ ReaderInv' /\ [Next]_vars => [Link!LinkNext]_(Link!linkVars)
<1> SUFFICES ASSUME ReaderInv, ReaderInv', [Next]_vars
             PROVE  Link!LinkNext \/ UNCHANGED Link!linkVars
  OBVIOUS
<1> USE ReaderAssumption DEF Link!linkVars
<1>1. CASE StartExit \/ CloseOnError
  BY <1>1 DEF StartExit, CloseOnError, Goto, closePort, CloseHandle, others,
              Link!LinkNext, Link!Hangup
<1>2. CASE BeginCycle
  <2>1. CASE cfg.modoPrueba \/ mu
    BY <1>2, <2>1 DEF BeginCycle, others
  <2>2. CASE ~cfg.modoPrueba /\ ~mu
    <3>1. port = NoPort
      BY <1>2, <2>2 DEF BeginCycle, ReaderInv, PortPositions
    <3>2. cfg.puerto \in Ports
      BY DEF ReaderInv, TypeOK, Configs
    <3> QED BY <1>2, <2>2, <3>1, <3>2
            DEF BeginCycle, others, Link!LinkNext, Link!Decide
  <2> QED BY <2>1, <2>2
<1>3. CASE TestSend \/ TestSleep
  BY <1>3 DEF TestSend, TestSleep, others
<1>4. CASE Connect
  <2>1. port = NoPort /\ conf.puerto \in Ports
    BY <1>4 DEF Connect, ReaderInv, PortPositions, TypeOK, Configs
  <2>2. CASE ConnectOK
    BY <1>4, <2>1, <2>2 DEF Connect, ConnectOK, others, Link!LinkNext, Link!Establish
  <2>3. CASE ConnectError \/ ConnectShadowed
    BY <1>4, <2>1, <2>3 DEF Connect, ConnectError, ConnectShadowed, others,
                            Link!LinkNext, Link!Abandon
  <2> QED BY <1>4, <2>2, <2>3 DEF Connect
<1>5. CASE CheckContext \/ Deliver
  BY <1>5 DEF CheckContext, Deliver, others
<1>6. CASE Request
  BY <1>6 DEF Request, WriteFailed, others, Link!LinkNext, Link!Hangup
<1>7. CASE AwaitCut \/ BeginRead \/ EndRead \/ Pace \/ Retry
  BY <1>7 DEF AwaitCut, BeginRead, EndRead, Pace, Retry, Goto, others
<1>8. ASSUME NEW h \in Handlers, ConfigMessage(h)
      PROVE  Link!LinkNext
  <2>1. Wanted' \in Ports \union {NoPort}
    BY DEF ReaderInv, TypeOK, Configs, Wanted
  <2> QED BY <1>8, <2>1 DEF ConfigMessage, Wanted, Link!LinkNext, Link!Reconfigure
<1>9. ASSUME NEW h \in Handlers, ClosePort(h)
      PROVE  Link!LinkNext \/ UNCHANGED Link!linkVars
  BY <1>9 DEF ClosePort, closePort, CloseHandle, Link!LinkNext, Link!Hangup
<1>10. CASE Cancel \/ StopReader \/ Receive \/ UNCHANGED vars
  BY <1>10 DEF Cancel, StopReader, Receive, vars
<1> QED
  BY <1>1, <1>2, <1>3, <1>4, <1>5, <1>6, <1>7, <1>8, <1>9, <1>10
     DEF Next, ReaderStep

\* Every behaviour of the reader is a behaviour of the serial line.
THEOREM ReaderImplementsLink == Spec => ImplementsLink
BY InitLink, StepLink, ReaderInvariant, PTL DEF Spec, ImplementsLink, Link!LinkSpec

\* What the line promises says it of the reader, too: whatever is configured
\* while it runs, it never goes from one port to another without a Close.
THEOREM OnePortAtATime == Spec => PortsOneByOne
<1>1. [Link!LinkNext]_(Link!linkVars) => (port # NoPort /\ port' # port => port' = NoPort)
  BY DEF Link!LinkNext, Link!linkVars, Link!Decide, Link!Establish, Link!Abandon,
         Link!Hangup, Link!Reconfigure
<1>2. ReaderInv /\ ReaderInv' /\ [Next]_vars
        => [port # NoPort /\ port' # port => port' = NoPort]_vars
  BY <1>1, StepLink
<1> QED BY <1>2, ReaderInvariant, PTL DEF Spec, PortsOneByOne
=============================================================================

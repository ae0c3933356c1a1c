# Scale daemon: models, checks and proofs

TLA+ models of the scale daemon (`src/`): a Windows service that reads weights
from a scale on a serial port and sends them to WebSocket clients, who may change
its configuration while it runs. The modules here model the service: its serial
reader, its connections, its sessions, its log file, its shutdown, and the
composition of reader and shutdown. TLC checks them on small instances, and TLAPS
proves their safety properties for all values of the constants.

Contents: [inventory](#inventory) - [modules](#modules) - [runs](#runs) -
[fairness](#fairness) - [proofs](#proofs) -
[where code and documents differ](#where-code-and-documents-differ) -
[not modelled](#not-modelled) - [plan](#plan)

## Inventory

```
 WebSocket client --config--> handler --Update--> Config <--Get-- reader --Read/Write--> serial port
        ^                        |                                  |  ^
        |                        +-----------ClosePort--------------+--+ (mutex, port handle)
        |                                                           |
        +-- write goroutine <-- broadcaster <-- channel of 100 <----+
                                     |
                                     +--> lastWeightTime --> GET /health
 service manager --Start/Stop--> daemon: context, stopCh, HTTP server, quit, log file
```

| Component (source) | State | Operations | Talks to | What makes it correct |
|---|---|---|---|---|
| Serial reader (`internal/scale/scale.go`) | port handle, mutex, stop channel | Start, Stop, ClosePort, readCycle, connect, sendError | Config (Get), broadcast channel, serial library | one handle at a time, of the configured port, read under the lock, released on the way out; a new configuration takes effect; a full channel, a slow read or a failing call never stops it |
| Configuration (`internal/config`) | port, brand, test mode, under an RWMutex | New, Get, Update | reader, handlers, health | Update reports a change exactly when a value changes |
| Broadcaster (`internal/server/broadcaster.go`) | set of clients, RWMutex | Start, broadcastWeight, removeAndCloseClient, AddClient, RemoveClient | channel, WebSocket library, health | nobody is connected and left out, nobody stays registered when gone |
| Connections (`internal/server/server.go`) | a goroutine per connection | handleWebSocket, listenForMessages, handleMessage, handleConfigMessage | broadcaster, limiter, Config, reader, log manager | a closed connection ends its handler; `ambiente` comes first |
| Rate limiter (`internal/server/rate_limit.go`) | times of accepted requests per client, mutex | Allow | handleMessage | never more than the limit in a minute, never a refusal without cause |
| Lifecycle (`internal/daemon`) | context, quit, wait group, log manager | Init, Start, run, Stop, onConfigChange | everything | Stop returns and lets go of things in order; a failing HTTP server leaves nothing running |
| Health (`server.go`, HandleHealth) | time of the last activity | RecordWeightActivity, HandleHealth | broadcaster | "connected" means that weights arrive |
| Authentication (`internal/auth`, login handlers of `server.go`) | sessions, failed logins, RWMutex | CreateSession, ValidateSession, IsLockedOut, RecordFailedLogin, ClearFailedLogins, cleanup | HTTP handlers | a session lives 15 minutes and no longer, whoever deletes it; a lockout ends by time alone |
| Logging (`internal/logging`) | log file, handle, verbosity, RWMutex | Setup, RotateIfNeeded, Write, SetVerbose, Flush, GetTail, Close | everything | the file stays in order through Flush, rotation, a crash and a write that fails half way; the logger ends on the open file; the tail is the last whole lines of its window |
| Dashboard (`internal/assets/web/js`) | connection state, last weight | connect, reconnect, onmessage, sendConfig | the server's protocol | it reconnects, and shows a stale weight as stale |

What is hard here, and hard to test, is listed line by line under `hazards` in
`PROJECT.json`: a snapshot of the configuration used after it changed; a mutex held
across a five second Read that handlers and the shutdown wait for; calls that fail
one after the other (Write, then Close); blocking and non-blocking sends on one
bounded channel; write goroutines of older messages racing with the handler of the
client they write to; the edges of a sliding window; a shutdown in which two
goroutines close one channel; a reader and connections that outlive the wait group;
sessions found under one lock and deleted under another while a cleanup runs; a log
file that is closed, truncated, rewritten and reopened without a lock, by a process
that may be killed between any two of these steps, and by writes that may fail with a
part written.

## Modules

| Module | Models | Uses |
|---|---|---|
| `ScaleConfig` | Config as data: what Get returns and Update computes | |
| `ScaleReader` | the reader goroutine, the configuration handlers, the channel | `ScaleConfig`, `SerialLink` (refinement) |
| `SerialLink` | abstract: what the reader promises about the serial line | |
| `Broadcaster` | broadcaster, its write goroutines, the connection handlers, health activity | |
| `ConfigRateLimiter` | Allow | |
| `DaemonLifecycle` | Start, run, the HTTP goroutine, Stop; abstract: a reader that ends when told to | |
| `ScaleDaemon` | the service: the lifecycle with the real reader, channel and connections | `DaemonLifecycle` (EXTENDS), `ScaleReader` (INSTANCE); refines both |
| `AuthManager` | sessions, login throttling, the cleanup loop and the handlers that call them | `SessionLease` (refinement) |
| `SessionLease` | abstract: what a session token promises | |
| `LogTail` | ReadLastNLines, with its reference definition | |
| `LogManager` | Setup, rotation, Flush, Close, the lines logged, crash and restart | `LogTail` (EXTENDS), `LogJournal` (refinement) |
| `LogJournal` | abstract: what the log file promises a reader | |
| `MC...` | instances for TLC: bounds, symmetry, fault sets | |
| `...Proofs` | theorems and their proofs about the module they are named after | |

The operators that plant a plausible bug ("Mutant of ..." in their comments) stand
before the definition they replace; `PROJECT.json` says which property each must
break. They are used in no specification.

### ScaleReader

`rpc` is the statement the reader goroutine is about to execute; the other
variables are the code's own (`port`, `mu`, `broadcast`), the configuration
(`cfg`), the snapshot of the cycle (`conf`) and the two signals (`ctxDone`,
`stopped`). A critical section nobody can observe half way is one action. The
critical section around Read is two, `BeginRead` and `EndRead`, because handlers
really wait there. `mu` is therefore TRUE between two steps in two cases only:
during a Read, and for ever after the return at scale.go:217.

| Code | Action |
|---|---|
| Start: the select | `StartExit`, or `BeginCycle` with the Get of readCycle |
| readCycle: test mode | `TestSend` (blocks on a full channel), `TestSleep` |
| connect | `Connect`: `ConnectOK`, `ConnectError`, `ConnectShadowed` |
| loop head | `CheckContext` |
| Write | `Request`, with `WriteFailed` |
| 500 ms wait, nil check, Read | `AwaitCut`, `BeginRead`, `EndRead` |
| result or error | `Deliver`, `CloseOnError` |
| 300 ms wait; 3 s wait | `Pace`; `Retry` |
| handleConfigMessage, onConfigChange | `ConfigMessage(h)`, `ClosePort(h)` - two steps, with anything in between |
| Stop: cancel, reader.Stop | `Cancel`, `StopReader` |
| Broadcaster.Start | `Receive` |

Any serial call named in `Faults` may fail at any time. A sleep has no action of
its own where the code ignores its result. The loop's second Get (line 201) only
chooses the command byte and is not modelled. A weight is the model value
`"weight"`: its text decides only whether it is empty.

Two history variables let the properties name the code's known exceptions exactly:
`missed` (a ClosePort ran between the Get and the connect of this cycle) and
`unclosed` (the last Close of the open handle failed). No guard reads them.

### SerialLink

The line is down or connected to one port. An attempt is decided from the
configuration while the line is down (`Decide`), and it succeeds for that port
(`Establish`) or is given up (`Abandon`); the line must go down (`Hangup`) before
the next. The refinement maps `link` to the handle, `wanted` to the configuration
and `target` to the snapshot while the reader is about to connect and can get the
lock. The line is thus never switched from one port to another without a close, and
never opened for a port that was not the configured one when the cycle began. The
race of `reader_hot_swap` is a legal behaviour of this promise: between `Decide`
and `Establish` there may be a `Reconfigure`.

### Broadcaster

Each connection is used once, as a pointer is while it is referenced: its handler
goes from `none` over `greet` (registered, `ambiente` not yet written), `listen`,
`remove` and `close` to `gone`. A message takes it from `listen` to `handle`
(`ReceiveMessage`; one may still be on its way when the connection breaks). From
there handleMessage returns (`HandleMessage`), panics, whatever the state of the
connection (`Panic`, to `crashed`: this skips RemoveClient, which is not deferred),
or never returns: a changed configuration calls ClosePort (server.go:311, 384), and
that waits for ever for the lock the reader leaks at scale.go:217
(`BlockInClosePort`, to `blocked`). Of the reader only that leak is known here, as
the flag `leaked`, which may be raised at any time (`LeakLock`). `Kinds` are the
messages of an instance; the message matters to health only. `writes[c]` counts the
write goroutines still on their way to `c`: they are unordered, so their number is
enough. removeAndCloseClient is two steps, because the close happens after the
unlock. `recent` stands for the 15 seconds of HandleHealth.

### ConfigRateLimiter

Time is a tick; several requests may fall on one tick, so entries are numbered.
The stored list is a set, because the code never uses its order. `accepted` and
`refused` are histories that the properties compare with the sliding window.

### DaemonLifecycle

One action per statement of Stop and of the error path of the HTTP goroutine. The
`select` on quit and the `close` in its default case are separate steps. A second
close sets `panicked`, after which nothing moves: the process is dead. The worker
called `reader` is what the lifecycle relies on: it ends when the context or stopCh
says so. `ScaleDaemon` replaces it by the real one.

### ScaleDaemon

`ScaleDaemon` extends the lifecycle and instantiates the reader on the same context
and stopCh, so every step of the service is a step of one module and a step or a
stutter of the other. `ReaderMoves` is a step of the reader between the start that
run() gives it and its return, which is the end of the worker; `BroadcasterMoves`
drains the channel as long as the broadcaster has not returned; `Configures` and
`ClosesPort` are the two steps of a configuration message on a connection. A
WebSocket connection is hijacked and Shutdown does not end it, so these go on until
the process is gone. stopCh is closed by Stop only: a failing HTTP server cancels
the context and never stops the reader by name.

Two questions exist only here. The wait group counts run() and not the reader
(daemon.go:182): `PortHasReader` says that an open port still has a reader that has
not returned, wherever Stop has got to; that this reader then closes it is
`ShutdownTerminates` and `FailureReleases`, up to the leaked lock. `LogClosedLast`
speaks of run() and of Shutdown: the reader and the hijacked handlers may still log
afterwards, to a closed file, which the code ignores. A server that fails (a port in
use) only cancels the context: `FailureReleases` says that this ends every goroutine
and frees the serial port.

### AuthManager and SessionLease

handleLogin is one action per lock: `CheckLockout`, `ValidatePassword` (its answer is
a choice), `RecordFailedLogin` or `ClearFailedLogins`, `CreateSession`.
ValidateSession is three: the lookup under the read lock, the comparison with the
clock outside it, and the deletion under the write lock. The clock and the cleanup
loop move between any two. Failures are counted per r.RemoteAddr, an address with its
port; an HTTP/1 connection serves one request at a time, so each key has one login
under way at most.

A time is kept as the ticks left until it: -1 once it is past, 0 at the instant
itself (where neither `Before` nor `After` holds), positive before. The clock then
needs no bound. Counts of failures above the limit are alike in every comparison,
so the count stops there. A token is random: a model value is issued again only when
the table and every request under way have forgotten it.

`SessionLease` has no table, no locks and no cleanup: a token is valid for
SessionDuration after it is issued, and one step answers a request. Under the
refinement a request between its lookup and its answer is `asking`.

### LogManager, LogTail and LogJournal

A file is the sequence of its lines as a reader finds them: which logged line it is,
its length in bytes, and whether its newline is there. A write that fails may leave a
piece of a line without its end (number 0, `Torn`), and what is appended next becomes
part of that line (`Onto`). A rewrite ends every line it writes (`Ended`). `pc` is
the step each goroutine is at: the connections that send logFlush, and the one that
runs Setup and Close. Flush takes no lock. What keeps two Flushes apart is that
closing a file twice is an error, with which the second returns (logging.go:140-144);
`open` is the set of handles not yet closed. os.WriteFile is two steps, `Truncate`
and `WriteBack`, and the second writes at offset 0 of what is there by then
(`Overlay`). Its failure (`WriteFails`) comes before the truncation, or after any
part of the text is written: any number of lines, and any part of one more (`Cuts`).
The same holds for the write of one logged line (`LogFails`), whose error the log
package ignores. A power cut in the middle of a write is such a failure and then a
restart. `m.file` is read and written without a lock as well, each access one step.
Close and the read of the tail are one step, and so are OpenFile and the assignment:
nobody gets past a closed file in between.

`Restart` is possible at any step: only the file is left, and Setup runs. The history
variable `spoilt` names what the guarded properties except: `nil`, a Flush that began
without a file to close and so excluded nobody (for good: no restart repairs the
file), and, in the running process, `overlap`, a Flush that began between another's
assignment and its SetOutput, and `failed`, a call that failed half way. No guard
reads it.

`LogTail` computes the tail from the window as ReadLastNLines does, and `LastWhole`
from the lines that lie entirely in the window. They differ in one case, which has a
name (`WindowOnLine`): the window of a longer file starts exactly with a line, and
rotation.go:92-94 drops that line although it is whole. `TailOfWindow` says that the
tail is the reference's in every other case; `log_tail` shows this one. Lines have
two bytes or more, because a line of one byte is blank: ReadLastNLines trims blank
lines at the end (rotation.go:86-89), which is not modelled.

`LogJournal` has no Flush, no handles, no processes and no kills: a line is added at
the end (`Record`) or missed, but for a piece (`Miss`), and lines are dropped from
the beginning (`Forget`). Only a step in which a call fails may lose lines from the
end, and leave a piece where it stopped (`Lose`). A call that fails without a loss,
or a new process, changes nothing (`Turn`). Under the refinement the journal is the
file, or, between the two halves of os.WriteFile, the lines the writer holds
(`Content`): truncating is no loss yet, and a kill there drops everything. The
promise ends (`Withdraw`) with the first Flush that begins without a file to close
(`Guarded`).

## Runs

A passing run takes between a few seconds and three minutes; a run that
expects a violation stops at the first one.

| Run | Instance | Shows |
|---|---|---|
| `reader` | 2 ports, 2 brands, 2 handlers, channel of 1, bursts of 2, all faults, fair: 230,072 states | lock and handle invariants, refinement of `SerialLink`; shutdown ends the reader, handlers get the lock, a change is applied |
| `broadcaster` | 2 connections, channel of 1, 2 writes each, weights only: 293,244 states | registration, no ghosts, who leaves and why, dead clients removed, handlers end unless they wait for the leaked lock |
| `limiter` | 2 addresses, limit 2, window 3, 8 ticks, 6 requests: 526,065 states | the window, both ways |
| `lifecycle` | `ScaleDaemon`: 1 port, 1 brand, 1 connection, channel of 1, bursts of 1, Write and Close may fail: 199,590 states | order of the shutdown, no port without a reader, Stop returns, a failed server lets go of everything, refinement of both parts |
| `auth` | 2 tokens, 2 requests, 1 source, durations of 2 ticks, limit 2: 76,336 states | sessions kept and collected, lockouts that only age, refinement of `SessionLease` |
| `logging` | 4 lines of 2 or 3 bytes, window 5, limit 7, Flush to 2 lines, rotation to 3, 2 Flushes, 3 handles, all faults: 552,522 states | one rewriter, nothing stale written back, order, a live logger, a bounded restart, the tail against its reference, refinement of `LogJournal` |
| `reader_retry`, `reader_hot_swap`, `broadcaster_ambiente`, `broadcaster_health`, `lifecycle_quit`, `log_tail` | as above, with the fewest faults that matter; `lifecycle_quit` on `DaemonLifecycle` alone | one violation each, [below](#where-code-and-documents-differ) |

Why the bounds are enough:

- *Two ports, two brands*: a change can touch the port, only the brand, only the
  mode, or nothing. A third value adds no case to an equality test. In the
  composition the mode alone changes: its questions are about who ends whom, and the
  run `reader` has the others.
- *Two handlers*: one may close what the other has just caused to be opened, and both
  may wait for the lock. *One* in the composition: the least that outlives Stop.
- *Channel of 1* (100 in the code): empty and full are the only cases, and full
  happens often. *Bursts of 2* (6 in the code): a first, an inner and a last reading.
- *Two writes for one client*: the least with which two failures race to remove it,
  and a write of an older message outlives its client. The code's bound is the one
  second deadline with messages at least 300 ms apart.
- *Eight ticks of a three tick window with limit two*: it fills, slides by one and
  empties twice.
- *Two tokens, two requests, durations of two*: two requests meet on one expired
  token, a token expires beside a valid one, and every value of a remaining time
  (before, one step before, at, past) occurs. *One source*: sources share nothing,
  and the proofs are for any number.
- *One kind of message* in `broadcaster`: the kind is read by `ActivityMeansWeight`
  alone, whose run has both.
- *Four lines of two or three bytes, window 5, limit 7*: windows start with a line and
  inside one, a file reaches the limit exactly, a failed write leaves pieces of one and
  two bytes, and with a piece three lines fit the window, of which a Flush keeps two.
  *Two lines* for a Flush are the least with which a second, unguarded writer leaves
  lines out of order. *Three handles*: the manager's, the one a Flush has opened, and
  one more for a second Flush.

Symmetry is used for addresses, handles and Flushes, in runs that check safety only.

Deadlock is checked for the limiter only. The others really stop, or could not
deadlock: a service that has been stopped, a panic, a reader behind a leaked lock;
the clock of `auth` and the restart of `logging` are always possible.

## Fairness

- The reader: weak fairness of `ReaderStep`. Its goroutine is scheduled, serial calls
  return (Read has a timeout), sleeps end.
- Handlers in ClosePort: strong fairness. The reader takes the lock again and again,
  and `sync.Mutex` hands it to a waiter that has waited for more than a millisecond.
- The channel: weak fairness of `Receive`, until the context is cancelled; afterwards
  the broadcaster may be gone.
- The broadcaster and the handlers: weak fairness of each goroutine. Every write ends
  by its deadline. handleMessage returns or waits for the leaked lock (weak fairness
  of `HandleMessage` or `BlockInClosePort`): its writes have deadlines, and a
  ClosePort gets the lock in the end unless it is leaked, which is `HandlerReturns`
  of run `reader`. A read error is owed for a connection the server itself closed,
  never for a peer that vanished.
- The service (`ScaleDaemon`): the same for each goroutine, and for those of the
  lifecycle, where Shutdown has a timeout. The workers and the handlers are owed a
  step only until Stop has returned (`Lives`): then main returns, and the process
  ends whatever they are doing.
- Sessions: time passes, and the ticker of the cleanup loop fires until the context
  ends. No client owes a request. Nothing is assumed for the log file: its properties
  are safety properties.
- Clients, the scale, a disconnect, a panic, the failure of the HTTP server and the
  call of Stop owe nothing.

## Proofs

| Theorem (module) | Says, for all constants |
|---|---|
| `ChangedIsExact`, `RepeatedUpdateIsSilent` (`ScaleReaderProofs`) | Update reports a change exactly when something changes, and none for a repeated request |
| `TypeCorrect`, `ReaderInvariant` | types; the inductive invariant `ReaderInv` |
| `HandlesNeverLost`, `HandleIsOfSnapshot`, `SwapIsEffective`, `ReadIsProtected`, `PortIsReleased` | the safety properties of run `reader` |
| `LeakIsRare`, `LeakIsPermanent` | the leaked lock needs a failed Write and a failed Close, and nothing ever frees it |
| `ShutdownIsBounded` | each step of a cancelled reader brings it nearer to its return |
| `ReaderImplementsLink`, `OnePortAtATime` | every behaviour of the reader is one of `SerialLink`; no port follows another without a close |
| `HubTypes`, `HubInvariant`, `ConnectedStayRegistered`, `NoGhosts` (`BroadcasterProofs`) | types; registration of clients |
| `ClientsLeaveForCause` | a client leaves dead, or owed its close, and does not come back |
| `LimiterTypes`, `LimiterInvariant`, `LimitIsKept`, `RefusalIsJustified` (`ConfigRateLimiterProofs`) | types; the window, both ways |
| `EveryMinuteIsBounded` | the limit holds in every minute, wherever it begins |
| `ShutdownInvariant`, `QuitFollowsCancel`, `LogIsClosedLast` (`DaemonLifecycleProofs`) | the order of the shutdown |
| `QuitIsNeverForgotten`, `PanicOnlyInTheRace`, `WorkersEndForCause` | no wake-up is lost; when quit is closed twice; nobody ends early |
| `DaemonImplementsReader`, `DaemonImplementsLifecycle` (`ScaleDaemonProofs`) | the service implements both of its parts |
| `PortNeverAlone`, `WorkerIsReader`, `DaemonTypes` | an open port has a reader; the worker and the reader are one; types |
| `ServiceShutsDownInOrder`, `ServiceReaderIsSafe`, `ServiceImplementsLink` | what was proved of the parts, of the whole service |
| `AuthInvariant`, `AuthTypes`, `SessionsLast`, `LockoutHolds`, `LockoutOnlyTime` (`AuthManagerProofs`) | the inductive invariant; sessions and lockouts |
| `AuthImplementsLease` | ValidateSession answers as one atomic check would |
| `TailFits`, `TailIsReference`, `OneLineMissed` (`LogTailProofs`) | the tail fits its window; it is the reference's unless the window starts exactly with a line, and then misses that line only |
| `LogInvariant`, `LogTypes`, `FlushExcludes`, `FlushNotStale`, `FileInOrder`, `LoggerStaysAlive` (`LogManagerProofs`) | the inductive invariant; the concurrency properties of run `logging` |
| `RestartIsBounded`, `TailIsOfWindow` | the size after a restart; what logTail answers, unless the window starts exactly with a line |
| `LogImplementsJournal` | every behaviour of the log file, failing and partial writes included, is one of `LogJournal` |

Every invariant, every action property and every refinement a passing run checks is
proved. The inductive invariants were checked by TLC on the same instances before
they were proved; no run repeats them.

They rest on the named assumptions only: the default port and brand are a port and a
brand, the empty string is neither, nil is no port, capacities, limits and durations
are positive, faults are fault kinds, the goroutine of Setup is no connection, lines
have two bytes or more, and the window of the tail and one byte more (the newline a
rewrite may add) are smaller than the limit of the file, as 64 KB and 5 MB are.
Nothing is assumed about the number of ports, handlers, connections, addresses,
tokens, requests, Flushes or handles.

*The reader.* `NoHandleOverwritten` says nothing of the lines before connect, so it
is not inductive. What makes it so is knowing where the handle and the lock can be
held: `PortPositions` (an open handle outside a leaked lock is found only inside the
read loop, on the way out of a stopping reader, or after an exit whose Close failed),
`LockPositions` (the lock is found locked during a Read, or leaked at the statements
a cycle without a handle can reach), and `UnclosedIsOpen`. `SwapEffective` needs them
for one step: `BeginCycle` takes a fresh snapshot, and no handle of an older one is
there. Each invariant is proved action by action.

*The refinement.* Initial states map to initial states, and under `ReaderInv` every
step maps to a step of the line or to a stutter. `Connect` is the interesting one: it
needs `NoHandleOverwritten` for the guard `link = None` of `Establish`.
`OnePortAtATime` is read off the abstract line: each of its actions leaves the link,
opens it from none, or hangs it up.

*The leaked lock.* `LeakInv` says that `unclosed` needs a Close that may fail, and
that a lock held outside a Read needs a Write that may. Once leaked, the port is open
and the reader is at a statement that takes no lock or waits for it; so no step of
anybody changes `mu`, `unclosed` or `port`.

*The way to the return.* TLAPS does not prove `ShutdownTerminates`; it proves the
argument it rests on. `StepsLeft` is a variant: the distance from each statement to
Start's return once the context is cancelled, plus two steps for each reading left of
a test burst. With the context cancelled every step of the reader makes it smaller,
and no step of a handler, of Stop or of the broadcaster changes it. What is left to
fairness is that the reader takes its steps, which it does unless it waits for a
leaked lock.

*The broadcaster.* A client leaves the set in two ways: its own handler removes it,
and has then left the loop, or a failed write does, and then owes the close.
`ConnectedIsRegistered` says this, and with the types it is inductive.
`ClientsLeaveForCause` needs `PartingInv` for the way over the handler: whoever has
left the read loop had a dead connection.

*The limiter.* What is stored for an address contains every accepted entry that can
still count, and nothing that was not accepted (`StoredIsRecent`). So at a request
the pruned list is exactly the sliding window (`RecentIsWindow`), and the
comparison with the limit decides both properties. A new entry changes no older
window, since entries are numbered in the order of acceptance (`Numbered`).
That bounds minutes that end with a request. Any other minute that holds a request is
contained in the window of its last one (`MinuteInWindow`), which exists because the
accepted requests are finitely many (`Greatest`).

*The shutdown.* A position of Stop or of the HTTP goroutine implies what was done
before it (`PositionsOK`); both reach the close of quit only after a cancel.
`QuitIsOwed` is the other half: each of the two passes the close only after closing
quit or seeing it closed, so a cancel always finds quit closed or one of them before
its close. `CloseInv` makes it inductive by adding where the one that closed quit can
be; it also says that a panic needs both of them past their look at quit.

*The composition.* A step of the service maps to a step or a stutter of each part
(`StepLifecycle`, and its counterpart for the reader). For the lifecycle the fact
that carries it is `ReaderLeaves`: the reader reaches its end only when the context
or stopCh has told it to. For the reader it is that the context and stopCh are
changed in the order its own module assumes. The theorems of `ScaleReaderProofs`
then apply to the service, and with `Coupled` they give `PortNeverAlone`.
(`ScaleDaemon` knows the reader as the instance `R`; its proofs come with a second
instance, `RP`, of the module that holds them. The lemma `SameReader` unfolds the
definitions of both to the same text, and `SameLink` does so for the line.) Through
the refinements the theorems about the lifecycle and the line hold of the service.

*Sessions.* `SessionKept` is not inductive: a request about to delete might hold a
token that is valid again. `VisitKnows` excludes it, since a token is not issued while
a request asks for it. `NoLoginWhileLocked` needs `LockIsFull`: a lockedUntil ahead
means a full counter, so the check turns the next login away. For the refinement the
deletion is a stutter of the lease's tokens, and its answer is right by `VisitKnows`.

*The log file.* The invariant says which goroutine may be where. While Main is in
Setup nobody flushes; otherwise, as long as no Flush began without a file, at most
one goroutine rewrites, and while it does no handle at all is open (`GuardInv`), so
nobody gets past Close and nothing is appended. What a Flush holds is then still a
tail of the file it truncates (`NothingLoggedMeanwhile`), and a tail of an ordered
file is ordered (`OrderInv`). `AliveInv` follows the new handle from the manager to
the logger, and `SizeInv` what Setup is going to write back, which fits the window
and so is below the limit. "In order" leaves out the pieces failed writes have left,
wherever they are; that a part of a text, a line put onto a piece, or the text with
its last newline keeps the order are lemmas, and so are the facts about `Last` and
`Overlay`. For the journal, `ContentOf` says that at most one goroutine holds lines,
so `Content` is determined; a Flush that begins, or truncates, leaves it alone or
keeps its last lines, and a write that fails keeps the first ones and perhaps a
piece.

*The size of a file.* `Bytes` is a sum over the lines, defined by recursion.
Induction over a predicate is out of reach here, but induction over a set is not: a
set of numbers that has 0 and the successor of each member is Nat, since the numbers
outside it would have a least element (`SetInduction`, from the library's theorem on
well-founded relations). So for every file there is one function that counts the
bytes of its first lines (`CountsExist`, `CountsUnique`), `Bytes` is its last value,
and the bytes of the lines from i on are a difference of two values (`BytesFrom`).
This function grows with every line, so the lines in the window are those from some
line on, and the two definitions of the tail are compared by where they begin: at the
same line, or, where the window starts exactly with a line, one line apart.

Model-checked only: every liveness property (`ShutdownTerminates`, `HandlerReturns`,
`SwapApplied`, `DeadClientRemoved`, `HandlerEnds`, `StopReturns`, `FailureReleases`,
`SessionsCollected`). TLAPS does not prove liveness under fairness, nor anything about
ENABLED. For two of them the safety half is proved: `ShutdownIsBounded` for the return
of the reader, `QuitIsNeverForgotten` for the return of Stop.

## Where code and documents differ

1. **A write error whose Close fails leaks the lock** (`reader_retry`).
   scale.go:214 announces "Cerrando y reintentando..."; lines 215-218 return without
   the unlock. The next cycle waits in connect for ever, ClosePort never returns and
   a shutdown leaves the port open.
2. **A configuration change can be missed** (`reader_hot_swap`). README.md:58-60
   promises a restart "with new parameters". A ClosePort between the Get at
   scale.go:162 and the end of connect finds no handle; the reader then opens
   the old port and keeps it until the next change or error.
3. **The tail drops a whole line** (`log_tail`). rotation.go:91 says "If we started
   mid-line, discard first partial line"; line 92 asks only whether the file is longer
   than the window, so a window that starts exactly with a line loses it.
4. **A reading may come before `ambiente`** (`broadcaster_ambiente`).
   SCALE_WEBSOCKET_V1.md:59-60 and 104 against server.go:246 and 249.
5. **Health counts error codes and failed writes as weights**
   (`broadcaster_health`). broadcaster.go:18 says "Called after successful weight
   broadcast"; lines 72-75 call it after starting the writes of any message.
6. **quit can be closed twice** (`lifecycle_quit`). daemon.go:135 and 173 call
   the select safe; both goroutines can take its default case.

Properties of the passing runs name these exceptions and so hold for everything else:
`LockLeaked` in the reader and the service, `leaked` and `blocked` in the
broadcaster, for the first; `missed` for the second, with `unclosed` (a handle whose
Close failed stays with the old port); `WindowOnLine` for the third; `panicked` for
the sixth; and `spoilt` for the log file, as described above. They do not catch the
cases they name: for the first three and the sixth those are what the violation runs
are for.

Noticed while modelling, without a run of their own:

- server.go:218 says that handleLogout "clears the session"; it clears the browser's
  cookie, and the table keeps the session until its time is over.
- auth.go:24-26 and 120-134 speak of an IP; the key is r.RemoteAddr (server.go:191),
  the address with its port, so each connection counts for itself.
- After an expired lockout one more failure locks the key again at once, until the
  cleanup has removed the entry: the count is not reset by time.
- A port that cannot be set up is not reported, although README.md:90-91 says that
  connection failures are pushed to clients: at scale.go:300-306 the inner `err`
  shadows the outer one, and connect returns nil (`ConnectShadowed`).
- README.md:94 and 254 and rotation.go:15 promise the last 1000 lines; the tail is
  read through a window of 64 KB, which holds fewer long ones.
- A logTail with a negative number of lines (server.go:347) slices out of range at
  rotation.go:99 and panics the handler; this is one cause of `Panic` in
  `Broadcaster`.
- README.md:255 lists client connects among the filtered messages; the prefixes of
  logging.go:22-23 are Spanish and the lines logged at server.go:247 and 253 are
  English, so they are not filtered.
- A Flush that fails after its Close leaves the manager with a closed file: each
  later Flush ends at its own Close, and lines are lost until the service restarts
  (`LoggingAlive` names it). A failing write may also have lost the last lines of the
  file, those it had not written again (`Lose`).
- A process killed between the two halves of os.WriteFile leaves an empty log. The
  next one goes on with it: order is kept, the lines are gone.

## Not modelled

- **HTTP routes, pages, JSON** (server.go, models.go, embed.go): no state between two
  requests.
- **Dashboard** (`internal/assets/web/js`): scripts of one thread in a browser. The
  service does not depend on them, and what they promise is what a page looks like.
- **Init and GetEnvironment**: run before any other goroutine exists.
- **Verbosity** (SetVerbose, NonCriticalPrefixes, GetStatus): one flag under a lock.
  A line the filter drops is a line `LogManager` did not log.
- **The path checks of loaders.go**, the **password hash** (its answer is a choice)
  and the **token made from the clock** when crypto/rand fails (auth.go:82-86), which
  is returned without being stored.
- **The text of weights, logs and errors, the command byte, the length of delays**:
  no property is about them. ReadLastNLines with a negative n is outside the domain
  of `LogTail`; its panic is one of `Broadcaster`'s. Blank lines: none is logged, and
  those at the end of a tail would be trimmed.
- **Order of readings at one client**: only the number of pending writes is kept.
- **The memory of maps that only grow** (the limiter's clients, failed logins below
  the limit): the code has no bound to check.

## Plan

Written, in this order: `ScaleConfig` and `ScaleReader` with `SerialLink`;
`Broadcaster`; `ConfigRateLimiter`; `DaemonLifecycle`; a proof module for each; then
`AuthManager` with `SessionLease`, `LogTail` and `LogManager` with `LogJournal`, and
`ScaleDaemon`, each with its proofs.

What could be proved next: the variant behind `SessionsCollected` and the one of Stop,
as `ShutdownIsBounded` is the reader's; that a handler in ClosePort waits for one
Read at most; an abstract registry that `Broadcaster` implements.

What could follow in the model:

1. A device in `ScaleReader`: a lost cable as a state instead of a fault per call.
   What to check waits for a decision in the code: the EOF path keeps the port and
   never reconnects (scale.go:244), and nothing says whether it should.
2. The broadcaster's clients in `ScaleDaemon`: a weight read reaches a connected
   client or was dropped for a named reason. `Broadcaster` and `ScaleReader` meet in
   the channel only, which both model.
3. A dashboard client: reconnection, and staleness of the weight it displays.

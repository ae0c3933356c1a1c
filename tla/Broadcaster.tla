----------------------------- MODULE Broadcaster -----------------------------
(***************************************************************************)
(* The fan-out of readings to WebSocket clients: the goroutine that drains *)
(* the broadcast channel (internal/server/broadcaster.go), the goroutines  *)
(* it starts for every message and client, and the connection handlers     *)
(* that register and unregister clients (handleWebSocket and               *)
(* listenForMessages in internal/server/server.go).                        *)
(*                                                                         *)
(* A message is a weight or an error code; the text does not matter.  Each *)
(* write has its own goroutine and a one second deadline, so the writes to *)
(* one client are unordered and only their number is kept.  Of the scale   *)
(* reader one thing is known here: it may leak its lock (scale.go:217),    *)
(* and a handler that changes the configuration then waits for ever.       *)
(***************************************************************************)
EXTENDS Naturals, Sequences, FiniteSets

CONSTANTS
  Conns,       \* connections; each is used once, as a pointer value is
  Kinds,       \* the messages of this instance; only health tells them apart
  ChanCap,     \* capacity of the broadcast channel
  MaxWrites    \* bound on the write goroutines alive for one client

ASSUME BroadcasterAssumption ==
  /\ Kinds \subseteq {"weight", "error"}
  /\ ChanCap \in Nat \ {0} /\ MaxWrites \in Nat \ {0}

VARIABLES
  broadcast,  \* the channel the reader fills
  bpc,        \* the broadcaster: "idle", "spawn", "record" or "stopped"
  current,    \* the message being broadcast, "none" between two
  snapshot,   \* the clients it goes to
  clients,    \* Broadcaster.clients
  hpc,        \* each connection's handler
  conn,       \* each connection: "none", "open", "broken" (by the peer or the
              \* network: nothing can be written any more, which nobody may
              \* have noticed) or "closed" (by the server)
  writes,     \* per connection: write goroutines still writing
  dropping,   \* ... one of them removed the client and has still to close it
  recent,     \* lastWeightTime is less than 15 seconds ago
  leaked      \* the lock of the scale reader is held by nobody who will free it

hub == <<broadcast, bpc, current, snapshot>>
writeVars == <<writes, dropping>>
vars == <<hub, clients, hpc, conn, writeVars, recent, leaked>>

HandlerPositions ==
  {"none", "greet", "listen", "handle", "blocked", "remove", "close", "gone", "crashed"}

TypeOK ==
  /\ broadcast \in Seq(Kinds) /\ Len(broadcast) <= ChanCap
  /\ bpc \in {"idle", "spawn", "record", "stopped"}
  /\ current \in Kinds \union {"none"}
  /\ snapshot \subseteq Conns /\ clients \subseteq Conns
  /\ hpc \in [Conns -> HandlerPositions]
  /\ conn \in [Conns -> {"none", "open", "broken", "closed"}]
  /\ writes \in [Conns -> 0..MaxWrites]
  /\ dropping \in [Conns -> BOOLEAN]
  /\ recent \in BOOLEAN /\ leaked \in BOOLEAN

Init ==
  /\ broadcast = << >> /\ bpc = "idle" /\ current = "none" /\ snapshot = {}
  /\ clients = {}
  /\ hpc = [c \in Conns |-> "none"]
  /\ conn = [c \in Conns |-> "none"]
  /\ writes = [c \in Conns |-> 0]
  /\ dropping = [c \in Conns |-> FALSE]
  /\ recent = FALSE /\ leaked = FALSE

-----------------------------------------------------------------------------
(* The broadcaster goroutine.                                              *)

\* Mutant of Produce: the capacity forgotten.
ProduceUnbounded(k) ==
  /\ broadcast' = Append(broadcast, k)
  /\ UNCHANGED <<bpc, current, snapshot, clients, conn, recent, hpc, writeVars, leaked>>

\* The reader's non-blocking send.
Produce(k) ==
  /\ Len(broadcast) < ChanCap
  /\ broadcast' = Append(broadcast, k)
  /\ UNCHANGED <<bpc, current, snapshot, clients, conn, recent, hpc, writeVars, leaked>>

\* Take a message and, under the read lock, the clients it goes to.
Take ==
  /\ bpc = "idle" /\ broadcast # << >>
  /\ broadcast' = Tail(broadcast)
  /\ IF clients = {}
       THEN UNCHANGED <<bpc, current, snapshot>>
       ELSE bpc' = "spawn" /\ current' = Head(broadcast) /\ snapshot' = clients
  /\ UNCHANGED <<clients, conn, recent, hpc, writeVars, leaked>>

\* One write goroutine per client of the snapshot.  The bound stands for the
\* one second deadline: messages are at least 300 ms apart.
Spawn ==
  /\ bpc = "spawn"
  /\ \A c \in snapshot : writes[c] < MaxWrites
  /\ writes' = [c \in Conns |-> IF c \in snapshot THEN writes[c] + 1 ELSE writes[c]]
  /\ bpc' = "record" /\ snapshot' = {}
  /\ UNCHANGED <<broadcast, current, clients, conn, dropping, recent, hpc, leaked>>

\* onWeightSent: RecordWeightActivity, whatever the message was and however
\* its writes end.
Record ==
  /\ bpc = "record"
  /\ recent' = TRUE
  /\ bpc' = "idle" /\ current' = "none"
  /\ UNCHANGED <<broadcast, snapshot, clients, conn, hpc, writeVars, leaked>>

\* The select of Start sees the service context cancelled; a message that is
\* being broadcast is finished first.
StopBroadcasting ==
  /\ bpc = "idle"
  /\ bpc' = "stopped"
  /\ UNCHANGED <<broadcast, current, snapshot, clients, conn, recent, hpc, writeVars, leaked>>

-----------------------------------------------------------------------------
(* A write goroutine.                                                      *)

WriteSucceeds(c) ==
  /\ writes[c] > 0 /\ conn[c] = "open"
  /\ writes' = [writes EXCEPT ![c] = @ - 1]
  /\ UNCHANGED <<hub, clients, hpc, conn, dropping, recent, leaked>>

\* Mutant of WriteFails: the error is only logged.
WriteFailsLogged(c) ==
  /\ writes[c] > 0
  /\ writes' = [writes EXCEPT ![c] = @ - 1]
  /\ UNCHANGED <<hub, clients, hpc, conn, dropping, recent, leaked>>

\* Mutant of WriteFails: the client is forgotten, its connection left open.
WriteFailsOnly(c) ==
  /\ writes[c] > 0
  /\ writes' = [writes EXCEPT ![c] = @ - 1]
  /\ clients' = clients \ {c}
  /\ UNCHANGED <<hub, hpc, conn, dropping, recent, leaked>>

\* The peer is gone, the server closed the connection, or the deadline passed.
\* removeAndCloseClient deletes the client under the lock, and only the
\* goroutine that found it there goes on to close the connection.  A pause
\* between the failure and the lock is a failure that comes later.
WriteFails(c) ==
  /\ writes[c] > 0
  /\ writes' = [writes EXCEPT ![c] = @ - 1]
  /\ clients' = clients \ {c}
  /\ dropping' = [dropping EXCEPT ![c] = @ \/ c \in clients]
  /\ UNCHANGED <<hub, hpc, conn, recent, leaked>>

CloseDropped(c) ==
  /\ dropping[c]
  /\ dropping' = [dropping EXCEPT ![c] = FALSE]
  /\ conn' = [conn EXCEPT ![c] = "closed"]
  /\ UNCHANGED <<hub, clients, writes, recent, hpc, leaked>>

-----------------------------------------------------------------------------
(* A connection handler: handleWebSocket, from Accept to its deferred      *)
(* Close.                                                                  *)

\* The handler of c goes from one position to another.
Handler(c, from, to) == hpc[c] = from /\ hpc' = [hpc EXCEPT ![c] = to]

\* Accept and AddClient: nobody else knows the connection in between.
AddClient(c) ==
  /\ Handler(c, "none", "greet")
  /\ conn' = [conn EXCEPT ![c] = "open"]
  /\ clients' = clients \union {c}
  /\ UNCHANGED <<hub, recent, writeVars, leaked>>

\* The environment message; the result of its write is ignored.
SendEnvironmentInfo(c) ==
  /\ Handler(c, "greet", "listen")
  /\ UNCHANGED <<hub, clients, conn, recent, writeVars, leaked>>

\* Mutant of ReadError: the handler returns without RemoveClient.
ReadErrorOnly(c) ==
  /\ Handler(c, "listen", "close")
  /\ conn[c] \in {"broken", "closed"}
  /\ UNCHANGED <<hub, clients, conn, recent, writeVars, leaked>>

\* Mutant of ReadError: the loop goes on after an error.
ReadErrorIgnored(c) ==
  /\ Handler(c, "listen", "listen")
  /\ conn[c] \in {"broken", "closed"}
  /\ UNCHANGED <<hub, clients, conn, recent, writeVars, leaked>>

\* listenForMessages ends with the first read error.  A message that is not a
\* JSON object makes the library close the connection: it counts as broken.
ReadError(c) ==
  /\ Handler(c, "listen", "remove")
  /\ conn[c] \in {"broken", "closed"}
  /\ UNCHANGED <<hub, clients, conn, recent, writeVars, leaked>>

\* A message is read; one may still be on its way when the connection breaks.
ReceiveMessage(c) ==
  /\ Handler(c, "listen", "handle")
  /\ conn[c] \in {"open", "broken"}
  /\ UNCHANGED <<hub, clients, conn, recent, writeVars, leaked>>

\* handleMessage returns: an answer that is not written within a second breaks
\* the connection, and a ClosePort gets the lock in the end (HandlerReturns of
\* ScaleReader) ...
HandleMessage(c) ==
  /\ Handler(c, "handle", "listen")
  /\ UNCHANGED <<hub, clients, conn, recent, writeVars, leaked>>

\* ... or never, when a changed configuration meets the leaked lock.
BlockInClosePort(c) ==
  /\ leaked
  /\ Handler(c, "handle", "blocked")
  /\ UNCHANGED <<hub, clients, conn, recent, writeVars, leaked>>

\* The first statement after the loop.
RemoveClient(c) ==
  /\ Handler(c, "remove", "close")
  /\ clients' = clients \ {c}
  /\ UNCHANGED <<hub, conn, recent, writeVars, leaked>>

\* A panic while a message is handled: net/http recovers it after the deferred
\* Close, but RemoveClient is not deferred.
Panic(c) ==
  /\ Handler(c, "handle", "crashed")
  /\ conn' = [conn EXCEPT ![c] = "closed"]
  /\ UNCHANGED <<hub, clients, recent, writeVars, leaked>>

\* The deferred Close.
CloseConn(c) ==
  /\ Handler(c, "close", "gone")
  /\ conn' = [conn EXCEPT ![c] = "closed"]
  /\ UNCHANGED <<hub, clients, recent, writeVars, leaked>>

-----------------------------------------------------------------------------
(* The environment.                                                        *)

Disconnect(c) ==
  /\ conn[c] = "open"
  /\ conn' = [conn EXCEPT ![c] = "broken"]
  /\ UNCHANGED <<hub, clients, recent, hpc, writeVars, leaked>>

\* Fifteen seconds without RecordWeightActivity, as HandleHealth measures them.
Expire ==
  /\ recent
  /\ recent' = FALSE
  /\ UNCHANGED <<hub, clients, conn, hpc, writeVars, leaked>>

\* The scale reader returns with its lock held.
LeakLock ==
  /\ ~leaked
  /\ leaked' = TRUE
  /\ UNCHANGED <<hub, clients, hpc, conn, recent, writeVars>>

WriteStep(c) == WriteSucceeds(c) \/ WriteFails(c) \/ CloseDropped(c)

HandlerStep(c) ==
  \/ SendEnvironmentInfo(c) \/ ReceiveMessage(c) \/ HandleMessage(c) \/ BlockInClosePort(c)
  \/ ReadError(c) \/ RemoveClient(c) \/ CloseConn(c)

Next ==
  \/ \E k \in Kinds : Produce(k)
  \/ Take \/ Spawn \/ Record \/ StopBroadcasting
  \/ \E c \in Conns : WriteStep(c) \/ HandlerStep(c)
  \/ \E c \in Conns : AddClient(c) \/ Panic(c) \/ Disconnect(c)
  \/ Expire \/ LeakLock

Spec == Init /\ [][Next]_vars

\* The goroutines of the process keep running; every write ends by its
\* deadline.  A read error is noticed for a connection the server itself has
\* closed; a peer that vanished may never be noticed by a read.  handleMessage
\* returns, or waits for the leaked lock.  Peers, the scale and the shutdown owe
\* nothing.
Fairness ==
  /\ WF_vars(Take) /\ WF_vars(Spawn) /\ WF_vars(Record)
  /\ \A c \in Conns :
       /\ WF_vars(WriteSucceeds(c) \/ WriteFails(c))
       /\ WF_vars(CloseDropped(c))
       /\ WF_vars(SendEnvironmentInfo(c))
       /\ WF_vars(HandleMessage(c) \/ BlockInClosePort(c))
       /\ WF_vars(conn[c] = "closed" /\ ReadError(c))
       /\ WF_vars(RemoveClient(c)) /\ WF_vars(CloseConn(c))

FairSpec == Spec /\ Fairness

-----------------------------------------------------------------------------
(* Properties.                                                             *)

\* A client whose handler has not left its loop, on an open connection, is
\* registered for readings, or the goroutine that removed it is about to close
\* it: no client stays connected and is silently left out.
ConnectedIsRegistered ==
  \A c \in Conns :
    hpc[c] \in {"greet", "listen", "handle", "blocked"} /\ conn[c] = "open"
      => c \in clients \/ dropping[c]

\* A handler that is done with its client leaves none behind, although write
\* goroutines of older snapshots are still on their way.
NoGhostClients ==
  \A c \in Conns : hpc[c] \in {"close", "gone"} => c \notin clients

\* A client leaves the map only when its connection is dead or about to be
\* closed by whoever took it out, and for good: neither a stale snapshot nor a
\* handler puts it back.
LeavesForCause ==
  [][\A c \in Conns :
       /\ c \in clients /\ c \notin clients' =>
            conn[c] \in {"broken", "closed"} \/ dropping'[c]
       /\ c \notin clients /\ c \in clients' => hpc[c] = "none"]_vars

\* A dead connection does not stay registered while messages keep coming: a
\* failed write removes it where its handler did not - because the peer
\* vanished silently or the handler panicked.
DeadClientRemoved ==
  []<>(broadcast # << >>) =>
    \A c \in Conns :
      c \in clients /\ conn[c] \in {"broken", "closed"} ~> 
           c \notin clients \/ bpc = "stopped"

\* A connection the server closed ends its handler, whatever the handler is at
\* when that happens - unless it waits for the lock the reader leaked, which no
\* close reaches.
HandlerEnds ==
  \A c \in Conns :
    conn[c] = "closed" ~> \/ hpc[c] \in {"gone", "crashed"}
                          \/ leaked /\ hpc[c] = "blocked"

(* What the documentation says and the code does not do.                   *)

\* api/v1/SCALE_WEBSOCKET_V1.md:59-60: the server sends "ambiente" on
\* connection, and the stream of readings comes after it.
AmbienteFirst ==
  [][\A c \in clients : WriteSucceeds(c) => hpc[c] # "greet"]_vars

\* broadcaster.go:18: onWeightSent is "Called after successful weight
\* broadcast".  So /health turns connected only because of a weight.
ActivityMeansWeight == [][~recent /\ recent' => current = "weight"]_vars
=============================================================================

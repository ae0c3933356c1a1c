-------------------------- MODULE BroadcasterProofs --------------------------
(***************************************************************************)
(* Registration of clients, proved for any set of connections, any channel *)
(* capacity and any number of write goroutines.                            *)
(***************************************************************************)
EXTENDS Broadcaster, SequenceTheorems, TLAPS

HubInv == TypeOK /\ ConnectedIsRegistered /\ NoGhostClients

-----------------------------------------------------------------------------
(* Type correctness.                                                       *)

LEMMA InitHubType == Init => TypeOK
<1> SUFFICES ASSUME Init PROVE TypeOK
  OBVIOUS
<1>1. broadcast \in Seq(Kinds) /\ Len(broadcast) <= ChanCap
  BY BroadcasterAssumption DEF Init
<1>2. writes \in [Conns -> 0..MaxWrites]
  BY BroadcasterAssumption DEF Init
<1> QED BY <1>1, <1>2 DEF Init, TypeOK, HandlerPositions

LEMMA StepHubType == TypeOK /\ [Next]_vars => TypeOK'
<1> SUFFICES ASSUME TypeOK, [Next]_vars PROVE TypeOK'
  OBVIOUS
<1> USE BroadcasterAssumption
<1>1. ASSUME NEW k \in Kinds, Produce(k) PROVE TypeOK'
  BY <1>1 DEF TypeOK, Produce, hub, writeVars
<1>2. CASE Take
  <2>1. /\ broadcast' \in Seq(Kinds) /\ Len(broadcast') <= ChanCap
        /\ Head(broadcast) \in Kinds
    BY <1>2, HeadTailProperties DEF Take, TypeOK
  <2> QED BY <1>2, <2>1 DEF TypeOK, Take, hub, writeVars
<1>3. CASE Spawn
  BY <1>3 DEF TypeOK, Spawn
<1>4. CASE Record \/ StopBroadcasting \/ Expire \/ LeakLock
  BY <1>4 DEF TypeOK, Record, StopBroadcasting, Expire, LeakLock, hub, writeVars
<1>5. ASSUME NEW c \in Conns, WriteSucceeds(c) \/ WriteFails(c) PROVE TypeOK'
  <2>1. writes' \in [Conns -> 0..MaxWrites]
    <3>1. writes[c] \in 0..MaxWrites /\ writes[c] > 0
      BY <1>5 DEF TypeOK, WriteSucceeds, WriteFails
    <3>2. writes[c] - 1 \in 0..MaxWrites
      BY <3>1
    <3>3. writes' = [writes EXCEPT ![c] = writes[c] - 1]
      BY <1>5 DEF WriteSucceeds, WriteFails
    <3> QED BY <3>2, <3>3 DEF TypeOK
  <2>2. dropping' \in [Conns -> BOOLEAN] /\ clients' \subseteq Conns
    BY <1>5, Zenon DEF TypeOK, WriteSucceeds, WriteFails
  <2> QED BY <1>5, <2>1, <2>2 DEF TypeOK, WriteSucceeds, WriteFails, hub
<1>6. ASSUME NEW c \in Conns, CloseDropped(c) \/ Disconnect(c) PROVE TypeOK'
  BY <1>6 DEF TypeOK, CloseDropped, Disconnect, hub, writeVars
<1>7. ASSUME NEW c \in Conns, HandlerStep(c) PROVE TypeOK'
  BY <1>7 DEF TypeOK, HandlerStep, SendEnvironmentInfo, ReceiveMessage, HandleMessage,
              BlockInClosePort, ReadError, RemoveClient,
              CloseConn, Handler, HandlerPositions, hub, writeVars
<1>8. ASSUME NEW c \in Conns, AddClient(c) \/ Panic(c) PROVE TypeOK'
  BY <1>8 DEF TypeOK, AddClient, Panic, Handler, HandlerPositions, hub, writeVars
<1>9. CASE UNCHANGED vars
  BY <1>9 DEF TypeOK, vars, hub, writeVars
<1> QED
  BY <1>1, <1>2, <1>3, <1>4, <1>5, <1>6, <1>7, <1>8, <1>9 DEF Next, WriteStep

-----------------------------------------------------------------------------
(* Registration.                                                           *)

LEMMA StepHub == HubInv /\ [Next]_vars => HubInv'
<1> SUFFICES ASSUME HubInv, [Next]_vars
             PROVE  ConnectedIsRegistered' /\ NoGhostClients'
  BY StepHubType DEF HubInv
<1> USE DEF HubInv, ConnectedIsRegistered, NoGhostClients
<1>1. CASE \/ \E k \in Kinds : Produce(k)
           \/ Take \/ Spawn \/ Record \/ StopBroadcasting \/ Expire \/ LeakLock \/ UNCHANGED vars
  BY <1>1 DEF Produce, Take, Spawn, Record, StopBroadcasting, Expire, LeakLock, vars, hub, writeVars
<1>2. ASSUME NEW c \in Conns, WriteSucceeds(c)
      PROVE  ConnectedIsRegistered' /\ NoGhostClients'
  BY <1>2 DEF WriteSucceeds
<1>3. ASSUME NEW c \in Conns, WriteFails(c)
      PROVE  ConnectedIsRegistered' /\ NoGhostClients'
  \* A client is taken out of the map by the goroutine that will close it, or
  \* was out already.
  BY <1>3 DEF WriteFails, TypeOK
<1>4. ASSUME NEW c \in Conns, CloseDropped(c) \/ Disconnect(c)
      PROVE  ConnectedIsRegistered' /\ NoGhostClients'
  BY <1>4 DEF CloseDropped, Disconnect, TypeOK, hub, writeVars
<1>5. ASSUME NEW c \in Conns, AddClient(c) \/ Panic(c)
      PROVE  ConnectedIsRegistered' /\ NoGhostClients'
  BY <1>5 DEF AddClient, Panic, Handler, TypeOK, hub, writeVars
<1>6. ASSUME NEW c \in Conns, HandlerStep(c)
      PROVE  ConnectedIsRegistered' /\ NoGhostClients'
  BY <1>6 DEF HandlerStep, SendEnvironmentInfo, ReceiveMessage, HandleMessage,
              BlockInClosePort, ReadError, RemoveClient, CloseConn,
              Handler, TypeOK, hub, writeVars
<1> QED BY <1>1, <1>2, <1>3, <1>4, <1>5, <1>6 DEF Next, WriteStep

\* HubInv is inductive.
THEOREM HubInvariant == Spec => []HubInv
<1>1. Init => HubInv
  BY InitHubType DEF Init, HubInv, ConnectedIsRegistered, NoGhostClients
<1> QED BY <1>1, StepHub, PTL DEF Spec

\* Every variable keeps its type: the channel its capacity, and the counter of
\* write goroutines never falls below zero.
THEOREM HubTypes == Spec => []TypeOK
<1>1. HubInv => TypeOK
  BY DEF HubInv
<1> QED BY <1>1, HubInvariant, PTL

\* No client stays connected and listened to without being registered, or
\* about to be closed.
THEOREM ConnectedStayRegistered == Spec => []ConnectedIsRegistered
<1>1. HubInv => ConnectedIsRegistered
  BY DEF HubInv
<1> QED BY <1>1, HubInvariant, PTL

\* No handler leaves its client in the map.
THEOREM NoGhosts == Spec => []NoGhostClients
<1>1. HubInv => NoGhostClients
  BY DEF HubInv
<1> QED BY <1>1, HubInvariant, PTL

-----------------------------------------------------------------------------
(* Leaving.                                                                *)

\* A handler that has left its loop had a dead connection.
PartingInv ==
  \A c \in Conns :
    /\ hpc[c] \in {"remove", "close", "gone", "crashed"} => conn[c] \in {"broken", "closed"}
    /\ hpc[c] = "none" => c \notin clients /\ conn[c] = "none" /\ ~dropping[c]

LEMMA StepParting == TypeOK /\ PartingInv /\ [Next]_vars => PartingInv'
<1> SUFFICES ASSUME TypeOK, PartingInv, [Next]_vars PROVE PartingInv'
  OBVIOUS
<1> USE DEF PartingInv
<1>1. CASE \/ \E k \in Kinds : Produce(k)
           \/ Take \/ Spawn \/ Record \/ StopBroadcasting \/ Expire \/ LeakLock \/ UNCHANGED vars
  BY <1>1 DEF Produce, Take, Spawn, Record, StopBroadcasting, Expire, LeakLock, vars, hub, writeVars
<1>2. ASSUME NEW c \in Conns, WriteSucceeds(c) \/ WriteFails(c) PROVE PartingInv'
  BY <1>2 DEF WriteSucceeds, WriteFails, TypeOK
<1>3. ASSUME NEW c \in Conns, CloseDropped(c) \/ Disconnect(c) PROVE PartingInv'
  BY <1>3 DEF CloseDropped, Disconnect, TypeOK, hub, writeVars
<1>4. ASSUME NEW c \in Conns, AddClient(c) \/ Panic(c) PROVE PartingInv'
  <2>1. CASE AddClient(c)
    BY <2>1 DEF AddClient, Handler, TypeOK, hub, writeVars
  <2>2. CASE Panic(c)
    BY <2>2 DEF Panic, Handler, TypeOK, hub, writeVars
  <2> QED
    BY <1>4, <2>1, <2>2
<1>5. ASSUME NEW c \in Conns, HandlerStep(c) PROVE PartingInv'
  BY <1>5 DEF HandlerStep, SendEnvironmentInfo, ReceiveMessage, HandleMessage,
              BlockInClosePort, ReadError, RemoveClient, CloseConn,
              Handler, TypeOK, hub, writeVars
<1> QED BY <1>1, <1>2, <1>3, <1>4, <1>5 DEF Next, WriteStep

\* What a step may do to the map of clients.
Leaving(c) ==
  /\ c \in clients /\ c \notin clients' => conn[c] \in {"broken", "closed"} \/ dropping'[c]
  /\ c \notin clients /\ c \in clients' => hpc[c] = "none"

LEMMA StepLeaving ==
  TypeOK /\ PartingInv /\ [Next]_vars => \A c \in Conns : Leaving(c)
<1> SUFFICES ASSUME TypeOK, PartingInv, [Next]_vars, NEW c \in Conns PROVE Leaving(c)
  OBVIOUS
<1> USE DEF Leaving
<1>1. CASE UNCHANGED clients
  BY <1>1
<1>2. ASSUME NEW d \in Conns, WriteFails(d) PROVE Leaving(c)
  BY <1>2 DEF WriteFails, TypeOK
<1>3. ASSUME NEW d \in Conns, AddClient(d) PROVE Leaving(c)
  BY <1>3 DEF AddClient, Handler
<1>4. ASSUME NEW d \in Conns, RemoveClient(d) PROVE Leaving(c)
  BY <1>4 DEF RemoveClient, Handler, PartingInv
<1>5. \/ UNCHANGED clients
      \/ \E d \in Conns : WriteFails(d) \/ AddClient(d) \/ RemoveClient(d)
  BY DEF Next, Produce, Take, Spawn, Record, StopBroadcasting, WriteStep, WriteSucceeds,
         CloseDropped, HandlerStep, SendEnvironmentInfo, ReceiveMessage, HandleMessage,
         BlockInClosePort, ReadError, CloseConn, Panic, Disconnect, Expire, LeakLock, vars
<1> QED BY <1>1, <1>2, <1>3, <1>4, <1>5

\* Clients leave the map because their connection is dead or is being closed,
\* and never come back, whatever writes of older snapshots are on their way.
THEOREM ClientsLeaveForCause == Spec => LeavesForCause
<1>1. Init => PartingInv
  BY DEF Init, PartingInv
<1>2. TypeOK /\ PartingInv /\ [Next]_vars => [\A c \in Conns : Leaving(c)]_vars
  BY StepLeaving
<1> QED BY <1>1, <1>2, StepParting, HubTypes, PTL DEF Spec, LeavesForCause, Leaving
=============================================================================

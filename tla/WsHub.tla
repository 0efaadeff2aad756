-------------------------------- MODULE WsHub --------------------------------
(***************************************************************************)
(* WebSocket connections: internal/api/ws_hub.go, ws_client.go and         *)
(* ws_handler.go.                                                          *)
(*                                                                         *)
(* A handler reserves a slot, upgrades the connection and hands the client *)
(* to the hub over a buffered channel.  The hub is one goroutine: it owns  *)
(* the set of clients and every client's send channel.  A client has three *)
(* goroutines more: one reads, one writes, one builds the snapshot of the  *)
(* recent blocks and sends it through the hub.                             *)
(*                                                                         *)
(* The hub's select takes any channel that is ready.  Blocks are committed *)
(* and broadcast in order here; WsPoller has the poller.                   *)
(***************************************************************************)
EXTENDS Integers, Sequences, FiniteSets, SequencesExt

CONSTANTS
  Clients,        \* connections, each with one life
  Ips,            \* addresses a limit is kept for
  IpOf,           \* IpOf[c]: the address of c, or NoIp
  NoIp,           \* the address is not known: only the global limit holds
  MaxClients,     \* websocket.max_clients; 0 for no limit
  MaxConnsPerIP,  \* websocket.max_conns_per_ip; 0 for no limit
  RegisterCap, UnregisterCap, BroadcastCap, DirectCap, SendCap,  \* channel sizes
  MaxOthers,      \* bound: connections that stay, from the one address
  MaxBlocks,      \* bound: blocks that are committed
  MaxViewers      \* bound: connections in a run that commits blocks

ASSUME HubSizes ==
  /\ IsFiniteSet(Clients) /\ IpOf \in [Clients -> Ips \cup {NoIp}] /\ NoIp \notin Ips
  /\ {MaxClients, MaxConnsPerIP, MaxOthers, MaxBlocks, MaxViewers} \subseteq Nat
  /\ {RegisterCap, UnregisterCap, BroadcastCap, DirectCap, SendCap} \subseteq Nat \ {0}

VARIABLES
  \* admission: reserved slots
  total, perIP,
  \* the slots of connections that stay open all the time
  others,
  \* per client: its goroutines, the connection, the subscription; the writer
  \* ends when the connection does
  handler, reader, snapshot, conn, wants,
  \* per client: messages in its send channel, how often it was closed, whether
  \* the hub acknowledged the registration, the blocks it was told of (and 0
  \* once it has its snapshot)
  sending, closed, registered, told,
  \* the hub, its clients and its channels
  hub, clients, registerCh, unregisterCh, broadcastCh, directCh, done,
  \* the blocks: committed ones, and those the poller went through
  committed, polled

slotVars == <<total, perIP>>
goroutineVars == <<handler, reader, snapshot, conn, wants>>
channelVars == <<sending, closed, registered, told>>
queueVars == <<registerCh, unregisterCh, broadcastCh, directCh>>
worldVars == <<committed, polled, others>>
hubVars == <<slotVars, goroutineVars, channelVars, hub, clients, queueVars, done, worldVars>>

OtherEvent == 0   \* an event that tells of no block
NoSnapshot == [pc |-> "off", blocks |-> {}]

HubInit ==
  /\ others \in {0, MaxOthers} /\ total = 0 /\ perIP = [i \in Ips |-> 0]
  /\ handler = [c \in Clients |-> "new"]
  /\ reader = [c \in Clients |-> FALSE]
  /\ snapshot = [c \in Clients |-> NoSnapshot]
  /\ conn = [c \in Clients |-> FALSE] /\ wants = [c \in Clients |-> TRUE]
  /\ sending = [c \in Clients |-> 0] /\ closed = [c \in Clients |-> 0]
  /\ registered = [c \in Clients |-> FALSE] /\ told = [c \in Clients |-> {}]
  /\ hub = "run" /\ clients = {} /\ done = FALSE
  /\ registerCh = <<>> /\ unregisterCh = <<>> /\ broadcastCh = <<>> /\ directCh = <<>>
  /\ committed = 0 /\ polled = 0
-----------------------------------------------------------------------------
(* Admission: admit, release.                                               *)

Visitors == {c \in Clients : handler[c] # "new"}

Full(c) ==
  \/ 0 < MaxClients /\ MaxClients <= others + total
  \/ 0 < MaxConnsPerIP /\ IpOf[c] # NoIp /\ MaxConnsPerIP <= others + perIP[IpOf[c]]

Admit(c) ==
  /\ handler[c] = "new" /\ (committed = 0 \/ others + Cardinality(Visitors) < MaxViewers)
  /\ IF Full(c)
       THEN handler' = [handler EXCEPT ![c] = "returned"] /\ UNCHANGED slotVars
       ELSE /\ handler' = [handler EXCEPT ![c] = "admitted"]
            /\ total' = total + 1
            /\ perIP' = [i \in Ips |-> IF i = IpOf[c] THEN perIP[i] + 1 ELSE perIP[i]]
  /\ UNCHANGED <<reader, snapshot, conn, wants, channelVars, hub, clients, queueVars,
                 done, worldVars>>

Less(n, k) == IF k < n THEN n - k ELSE 0

\* The slots of the clients in S are given back.
Release(S) ==
  /\ total' = Less(total, Cardinality(S))
  /\ perIP' = [i \in Ips |-> Less(perIP[i], Cardinality({c \in S : IpOf[c] = i}))]
-----------------------------------------------------------------------------
(* The handler: HandleWebSocket.                                            *)

\* Upgrade may refuse the request, its origin for instance.
Upgrade(c) ==
  /\ handler[c] = "admitted"
  /\ \/ /\ handler' = [handler EXCEPT ![c] = "upgraded"] /\ conn' = [conn EXCEPT ![c] = TRUE]
        /\ UNCHANGED slotVars
     \/ /\ handler' = [handler EXCEPT ![c] = "returned"] /\ Release({c}) /\ UNCHANGED conn
  /\ UNCHANGED <<reader, snapshot, wants, channelVars, hub, clients, queueVars, done,
                 worldVars>>

\* The client is handed over, and its goroutines start; the channel has room
\* after the hub stopped, too.
Register(c) ==
  /\ handler[c] = "upgraded" /\ Len(registerCh) < RegisterCap
  /\ handler' = [handler EXCEPT ![c] = "returned"]
  /\ registerCh' = Append(registerCh, c)
  /\ reader' = [reader EXCEPT ![c] = TRUE]
  /\ snapshot' = [snapshot EXCEPT ![c].pc = "build"]
  /\ UNCHANGED <<slotVars, conn, wants, channelVars, hub, clients, unregisterCh, broadcastCh,
                 directCh, done, worldVars>>

\* Mutant: the slot is left to a hub that never saw the client.
RegisterAtStopKeepsSlot(c) ==
  /\ handler[c] = "upgraded" /\ done
  /\ handler' = [handler EXCEPT ![c] = "returned"] /\ conn' = [conn EXCEPT ![c] = FALSE]
  /\ UNCHANGED <<slotVars, reader, snapshot, wants, channelVars, hub, clients, queueVars,
                 done, worldVars>>

\* The other branch of the select.
RegisterAtStop(c) ==
  /\ handler[c] = "upgraded" /\ done
  /\ handler' = [handler EXCEPT ![c] = "returned"] /\ conn' = [conn EXCEPT ![c] = FALSE]
  /\ Release({c})
  /\ UNCHANGED <<reader, snapshot, wants, channelVars, hub, clients, queueVars, done,
                 worldVars>>
-----------------------------------------------------------------------------
(* The goroutines of a client: readPump, writePump, sendBlockSnapshot.      *)

\* A message of the peer changes the events it wants; nobody checks their names.
ReadSubscription(c) ==
  /\ reader[c] /\ conn[c]
  /\ \E w \in BOOLEAN : wants' = [wants EXCEPT ![c] = w]
  /\ UNCHANGED <<slotVars, handler, reader, snapshot, conn, channelVars, hub, clients,
                 queueVars, done, worldVars>>

\* The connection is closed, lost or silent for too long.  A full channel is
\* not waited for.
ReadFails(c) ==
  /\ reader[c] /\ reader' = [reader EXCEPT ![c] = FALSE]
  /\ unregisterCh' = IF Len(unregisterCh) < UnregisterCap
                       THEN Append(unregisterCh, c) ELSE unregisterCh
  /\ conn' = [conn EXCEPT ![c] = FALSE]
  /\ UNCHANGED <<slotVars, handler, snapshot, wants, channelVars, hub, clients,
                 registerCh, broadcastCh, directCh, done, worldVars>>

\* A message is written, if the connection is still good.
Write(c) ==
  /\ conn[c] /\ 0 < sending[c]
  /\ sending' = [sending EXCEPT ![c] = @ - 1]
  /\ UNCHANGED <<slotVars, goroutineVars, closed, registered, told, hub, clients, queueVars, done,
                 worldVars>>

\* The hub has closed the channel and everything in it is written.
WriteEnds(c) ==
  /\ conn[c] /\ 0 < closed[c] /\ sending[c] = 0 /\ conn' = [conn EXCEPT ![c] = FALSE]
  /\ UNCHANGED <<slotVars, handler, reader, snapshot, wants, channelVars, hub, clients, queueVars,
                 done, worldVars>>

\* A write or a ping fails.
WriteFails(c) ==
  /\ reader[c] /\ conn[c] /\ conn' = [conn EXCEPT ![c] = FALSE]
  /\ UNCHANGED <<slotVars, handler, reader, snapshot, wants, channelVars, hub, clients, queueVars,
                 done, worldVars>>

\* buildBlockSnapshot, with the blocks committed now; the queries may fail.
BuildSnapshot(c) ==
  /\ snapshot[c].pc = "build"
  /\ \/ snapshot' = [snapshot EXCEPT ![c] = [pc |-> "wait", blocks |-> 0..committed]]
     \/ snapshot' = [snapshot EXCEPT ![c].pc = "done"]
  /\ UNCHANGED <<slotVars, handler, reader, conn, wants, channelVars, hub, clients,
                 queueVars, done, worldVars>>

SnapshotGoes(c, pc) == snapshot' = [snapshot EXCEPT ![c].pc = pc]

\* Mutant: it waits for the registration whether or not the hub is there.
AwaitRegistrationForever(c) ==
  /\ snapshot[c].pc = "wait" /\ registered[c] /\ SnapshotGoes(c, "send")
  /\ UNCHANGED <<slotVars, handler, reader, conn, wants, channelVars, hub, clients,
                 queueVars, done, worldVars>>

\* It waits until the hub knows the client, or stops.
AwaitRegistration(c) ==
  /\ snapshot[c].pc = "wait"
  /\ \/ registered[c] /\ SnapshotGoes(c, "send")
     \/ done /\ SnapshotGoes(c, "done")
  /\ UNCHANGED <<slotVars, handler, reader, conn, wants, channelVars, hub, clients,
                 queueVars, done, worldVars>>

\* SendEventToClient.
SendSnapshot(c) ==
  /\ snapshot[c].pc = "send" /\ SnapshotGoes(c, "done")
  /\ \/ /\ Len(directCh) < DirectCap
        /\ directCh' = Append(directCh, [client |-> c, blocks |-> snapshot[c].blocks])
     \/ done /\ UNCHANGED directCh
  /\ UNCHANGED <<slotVars, handler, reader, conn, wants, channelVars, hub, clients,
                 registerCh, unregisterCh, broadcastCh, done, worldVars>>
-----------------------------------------------------------------------------
(* The hub: Run.                                                            *)

\* Mutant: a client is removed as often as it is asked for.
RemoveClientsAgain(S) ==
  /\ clients' = clients \ S
  /\ closed' = [c \in Clients |-> IF c \in S THEN closed[c] + 1 ELSE closed[c]]
  /\ Release(S)

\* removeClient, for those of S that are there.
RemoveClients(S) ==
  /\ clients' = clients \ S
  /\ closed' = [c \in Clients |-> IF c \in S \cap clients THEN closed[c] + 1 ELSE closed[c]]
  /\ Release(S \cap clients)

HubRegister ==
  /\ hub = "run" /\ registerCh # <<>>
  /\ clients' = clients \cup {Head(registerCh)}
  /\ registered' = [registered EXCEPT ![Head(registerCh)] = TRUE]
  /\ registerCh' = Tail(registerCh)
  /\ UNCHANGED <<slotVars, goroutineVars, sending, closed, told, hub, unregisterCh, broadcastCh,
                 directCh, done, worldVars>>

HubUnregister ==
  /\ hub \in {"run", "drain"} /\ unregisterCh # <<>>
  /\ RemoveClients({Head(unregisterCh)})
  /\ unregisterCh' = Tail(unregisterCh)
  /\ UNCHANGED <<goroutineVars, sending, registered, told, hub, registerCh, broadcastCh, directCh,
                 done, worldVars>>

\* A message for the clients of S; those without room are dropped.
Deliver(S, blocks) ==
  LET slow == {c \in S : sending[c] = SendCap}
  IN /\ RemoveClients(slow)
     /\ sending' = [c \in Clients |-> IF c \in S \ slow THEN sending[c] + 1 ELSE sending[c]]
     /\ told' = [c \in Clients |-> IF c \in S \ slow THEN told[c] \cup blocks ELSE told[c]]

\* Mutant: a client without room misses the event and stays.
HubBroadcastSkips ==
  /\ hub = "run" /\ broadcastCh # <<>>
  /\ LET S == {c \in clients : wants[c] /\ sending[c] < SendCap}
     IN Deliver(S, {Head(broadcastCh)} \ {OtherEvent})
  /\ broadcastCh' = Tail(broadcastCh)
  /\ UNCHANGED <<goroutineVars, registered, hub, registerCh, unregisterCh, directCh, done, worldVars>>

HubBroadcast ==
  /\ hub = "run" /\ broadcastCh # <<>>
  /\ Deliver({c \in clients : wants[c]}, {Head(broadcastCh)} \ {OtherEvent})
  /\ broadcastCh' = Tail(broadcastCh)
  /\ UNCHANGED <<goroutineVars, registered, hub, registerCh, unregisterCh, directCh, done, worldVars>>

HubDirect ==
  /\ hub = "run" /\ directCh # <<>>
  /\ Deliver({Head(directCh).client} \cap clients, Head(directCh).blocks)
  /\ directCh' = Tail(directCh)
  /\ UNCHANGED <<goroutineVars, registered, hub, registerCh, unregisterCh, broadcastCh, done,
                 worldVars>>

\* Shutdown: the channels are drained as long as something is in them, then
\* every client goes.
HubStops ==
  /\ hub = "run" /\ done /\ hub' = "drain"
  /\ UNCHANGED <<slotVars, goroutineVars, channelVars, clients, queueVars, done, worldVars>>

DrainRegister ==
  /\ hub = "drain" /\ registerCh # <<>>
  /\ clients' = clients \cup {Head(registerCh)} /\ registerCh' = Tail(registerCh)
  /\ UNCHANGED <<slotVars, goroutineVars, channelVars, hub, unregisterCh, broadcastCh, directCh,
                 done, worldVars>>

DrainEnds ==
  /\ hub = "drain" /\ registerCh = <<>> /\ unregisterCh = <<>>
  /\ hub' = "stopped" /\ RemoveClients(clients)
  /\ UNCHANGED <<goroutineVars, sending, registered, told, queueVars, done, worldVars>>
-----------------------------------------------------------------------------
(* The rest of the process.                                                 *)

Stop ==
  /\ ~done /\ done' = TRUE
  /\ UNCHANGED <<slotVars, goroutineVars, channelVars, hub, clients, queueVars, worldVars>>

CommitBlock ==
  /\ committed < MaxBlocks /\ committed' = committed + 1 /\ others + Cardinality(Visitors) <= MaxViewers
  /\ UNCHANGED <<slotVars, goroutineVars, channelVars, hub, clients, queueVars, done, polled, others>>

\* BroadcastEvent: a full channel drops the event.
Broadcast(event) ==
  broadcastCh' = IF Len(broadcastCh) < BroadcastCap THEN Append(broadcastCh, event) ELSE broadcastCh

\* The poller goes through the committed blocks; without clients there is
\* nobody to tell.
PollBlock ==
  /\ polled < committed /\ polled' = polled + 1
  /\ IF clients = {} THEN UNCHANGED broadcastCh ELSE Broadcast(polled + 1)
  /\ UNCHANGED <<slotVars, goroutineVars, channelVars, hub, clients, registerCh, unregisterCh,
                 directCh, done, committed, others>>

PollOther ==
  /\ clients # {} /\ broadcastCh = <<>> /\ Broadcast(OtherEvent)
  /\ UNCHANGED <<slotVars, goroutineVars, channelVars, hub, clients, registerCh, unregisterCh,
                 directCh, done, worldVars>>
-----------------------------------------------------------------------------
HandlerNext(c) == Admit(c) \/ Upgrade(c) \/ Register(c) \/ RegisterAtStop(c)
WriterNext(c) == Write(c) \/ WriteEnds(c)
SnapshotNext(c) == BuildSnapshot(c) \/ AwaitRegistration(c) \/ SendSnapshot(c)
HubNext ==
  \/ HubRegister \/ HubUnregister \/ HubBroadcast \/ HubDirect
  \/ HubStops \/ DrainRegister \/ DrainEnds
BlocksNext == PollBlock \/ PollOther

SocketsNext ==
  \/ \E c \in Clients :
       \/ HandlerNext(c) \/ ReadSubscription(c) \/ ReadFails(c)
       \/ WriterNext(c) \/ WriteFails(c) \/ SnapshotNext(c)
  \/ HubNext \/ BlocksNext \/ CommitBlock \/ Stop

HubSpec == HubInit /\ [][SocketsNext]_hubVars

\* Every goroutine goes on, each channel of the hub's select is taken in the
\* end, the poller broadcasts again and again, and a dead connection is noticed.
FairHubSpec ==
  /\ HubSpec
  /\ WF_hubVars(HubRegister) /\ WF_hubVars(HubUnregister) /\ WF_hubVars(HubBroadcast) /\ WF_hubVars(HubDirect)
  /\ WF_hubVars(HubStops \/ DrainRegister \/ DrainEnds) /\ WF_hubVars(PollOther)
  /\ \A c \in Clients :
       /\ SF_hubVars(Register(c)) /\ WF_hubVars(RegisterAtStop(c)) /\ WF_hubVars(WriterNext(c))
       /\ WF_hubVars(BuildSnapshot(c)) /\ WF_hubVars(AwaitRegistration(c)) /\ SF_hubVars(SendSnapshot(c))
-----------------------------------------------------------------------------
(* Properties.                                                              *)

Holding ==
  {c \in Clients : handler[c] \in {"admitted", "upgraded"}} \cup ToSet(registerCh) \cup clients

\* Every slot that is reserved belongs to one client that is on its way to the
\* hub or known to it: no slot is given back twice, and none is lost, through
\* slow clients, clients that leave and the shutdown.
SlotsPaired ==
  /\ total = Cardinality(Holding)
  /\ \A i \in Ips : perIP[i] = Cardinality({c \in Holding : IpOf[c] = i})

\* No send channel is closed twice, and the hub knows no client whose channel is
\* closed: sending to it would bring the process down.
ChannelsClosedOnce ==
  /\ \A c \in Clients : closed[c] <= 1
  /\ \A c \in clients \cup ToSet(registerCh) : closed[c] = 0

\* Clients that left are forgotten in the end, as long as they want events and
\* the hub runs: what their own message to the hub misses, by a full channel or
\* by arriving before the registration, the slow-client rule finds.
GoneClientsForgotten ==
  []<>(\A c \in Clients :
         snapshot[c].pc # "off" /\ ~reader[c] /\ wants[c] /\ ~done => c \notin Holding)

\* No handler and no snapshot goroutine waits for ever, for a registration, for
\* room or for a hub that is gone, and a hub that is told to stop stops.
EverybodyReturns ==
  []<>(/\ \A c \in Clients : handler[c] # "upgraded" /\ snapshot[c].pc \in {"off", "done"}
       /\ done => hub = "stopped" /\ clients = {})

\* Not so (README 6): what HandleWebSocket says of the snapshot, a block broadcast while it is
\* built is delivered too, so a client that got its snapshot has no gap.
NoGapAfterSnapshot ==
  \A c \in clients :
    0 \in told[c] /\ wants[c] /\ broadcastCh = <<>> => 1..polled \subseteq told[c]
=============================================================================

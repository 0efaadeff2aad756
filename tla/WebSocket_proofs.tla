---------------------------- MODULE WebSocket_proofs ----------------------------
(***************************************************************************)
(* Proofs about the WebSocket side of the API: about WsHub, for any number *)
(* of connections and addresses, any limits and any capacity of the        *)
(* channels; about WsPoller, for any window, any chain and any number of   *)
(* rewinds, outages and failed queries.                                    *)
(***************************************************************************)
EXTENDS WsHub, WsPoller, Numbers, FiniteSetTheorems, SequenceTheorems

-----------------------------------------------------------------------------
(* The hub and its clients.                                                 *)

HubTypes ==
  /\ total \in Nat /\ perIP \in [Ips -> Nat]
  /\ handler \in [Clients -> {"new", "admitted", "upgraded", "returned"}]
  /\ closed \in [Clients -> Nat] /\ clients \in SUBSET Clients
  /\ registerCh \in Seq(Clients) /\ unregisterCh \in Seq(Clients)

\* A client is with its handler, in the register channel or in the hub's set,
\* once and at one place only, and its channel is open until the hub drops it.
ApartInv ==
  /\ \A i, j \in 1..Len(registerCh) : registerCh[i] = registerCh[j] => i = j
  /\ \A c \in clients : c \notin ToSet(registerCh)
  /\ \A c \in clients \cup ToSet(registerCh) : handler[c] = "returned" /\ closed[c] = 0
  /\ \A c \in Clients : closed[c] <= 1 /\ (handler[c] # "returned" => closed[c] = 0)

HubInv == HubTypes /\ ApartInv /\ SlotsPaired
-----------------------------------------------------------------------------
(* Sequences without repetition.                                            *)

LEMMA ToSetOfEmpty == ToSet(<<>>) = {}
<1> QED BY DEF ToSet

LEMMA ToSetType == ASSUME NEW s \in Seq(Clients) PROVE ToSet(s) \subseteq Clients
<1> QED BY DEF ToSet

LEMMA ToSetOfAppend ==
  ASSUME NEW s \in Seq(Clients), NEW c \in Clients
  PROVE  ToSet(Append(s, c)) = ToSet(s) \cup {c}
<1>1. /\ Append(s, c) \in Seq(Clients) /\ Len(Append(s, c)) = Len(s) + 1 /\ Len(s) \in Nat
      /\ \A i \in 1..Len(s) : Append(s, c)[i] = s[i]
      /\ Append(s, c)[Len(s) + 1] = c
  BY AppendProperties
<1>2. DOMAIN Append(s, c) = 1..(Len(s) + 1) /\ DOMAIN s = 1..Len(s)
  BY <1>1
<1>3. \A i \in 1..(Len(s) + 1) : i \in 1..Len(s) \/ i = Len(s) + 1
  BY <1>1
<1>4. Len(s) + 1 \in 1..(Len(s) + 1) /\ \A i \in 1..Len(s) : i \in 1..(Len(s) + 1)
  BY <1>1
<1> QED BY <1>1, <1>2, <1>3, <1>4 DEF ToSet

LEMMA HeadAndTail ==
  ASSUME NEW s \in Seq(Clients), s # <<>>, \A i, j \in 1..Len(s) : s[i] = s[j] => i = j
  PROVE  /\ Head(s) \in Clients /\ Tail(s) \in Seq(Clients)
         /\ ToSet(Tail(s)) = ToSet(s) \ {Head(s)} /\ Head(s) \in ToSet(s)
         /\ \A i, j \in 1..Len(Tail(s)) : Tail(s)[i] = Tail(s)[j] => i = j
<1>1. /\ Head(s) \in Clients /\ Tail(s) \in Seq(Clients) /\ Len(Tail(s)) = Len(s) - 1
      /\ Head(s) = s[1] /\ \A i \in 1..Len(Tail(s)) : Tail(s)[i] = s[i + 1]
  BY HeadTailProperties
<1>2. Len(s) \in Nat /\ 1 <= Len(s) /\ DOMAIN s = 1..Len(s) /\ DOMAIN Tail(s) = 1..(Len(s) - 1)
  BY <1>1
<1>3. \A i \in 1..(Len(s) - 1) : i + 1 \in 1..Len(s) /\ i + 1 # 1
  BY <1>2
<1>4. \A i \in 1..Len(s) : i # 1 => i - 1 \in 1..(Len(s) - 1) /\ (i - 1) + 1 = i
  BY <1>2
<1>5. 1 \in 1..Len(s)
  BY <1>2
<1>6. ASSUME NEW x \in ToSet(Tail(s)) PROVE x \in ToSet(s) \ {Head(s)}
  <2>1. PICK i \in 1..(Len(s) - 1) : x = Tail(s)[i]
    BY <1>2, <1>6 DEF ToSet
  <2>2. x = s[i + 1] /\ i + 1 \in 1..Len(s) /\ i + 1 # 1
    BY <1>1, <1>3, <2>1
  <2>3. x # s[1]
    BY <1>5, <2>2
  <2> QED BY <1>1, <1>2, <2>2, <2>3 DEF ToSet
<1>7. ASSUME NEW x \in ToSet(s), x # Head(s) PROVE x \in ToSet(Tail(s))
  <2>1. PICK i \in 1..Len(s) : x = s[i]
    BY <1>2, <1>7 DEF ToSet
  <2>2. i # 1
    BY <1>1, <1>7, <2>1
  <2> DEFINE j == i - 1
  <2>3. j \in 1..(Len(s) - 1) /\ j + 1 = i
    BY <1>4, <2>2
  <2>4. Tail(s)[j] = x
    BY <1>1, <2>1, <2>3
  <2> QED BY <1>2, <2>3, <2>4 DEF ToSet
<1>8. ASSUME NEW i \in 1..Len(Tail(s)), NEW j \in 1..Len(Tail(s)), Tail(s)[i] = Tail(s)[j] PROVE i = j
  <2>1. s[i + 1] = s[j + 1] /\ i + 1 \in 1..Len(s) /\ j + 1 \in 1..Len(s)
    BY <1>1, <1>3, <1>8
  <2>2. i + 1 = j + 1 /\ i \in Int /\ j \in Int
    BY <2>1
  <2> QED BY <2>2
<1>9. Head(s) \in ToSet(s)
  BY <1>1, <1>2, <1>5 DEF ToSet
<1> QED BY <1>1, <1>6, <1>7, <1>8, <1>9
-----------------------------------------------------------------------------
(* Slots.                                                                   *)

HoldingOf(i) == {c \in Holding : IpOf[c] = i}

LEMMA HoldingFinite ==
  ASSUME HubTypes
  PROVE  Holding \subseteq Clients /\ IsFiniteSet(Holding) /\ \A i : IsFiniteSet(HoldingOf(i))
<1>1. Holding \subseteq Clients
  BY ToSetType DEF Holding, HubTypes
<1>2. IsFiniteSet(Clients)
  BY HubSizes
<1>3. IsFiniteSet(Holding)
  BY <1>1, <1>2, FS_Subset
<1>4. \A i : HoldingOf(i) \in SUBSET Holding
  BY DEF HoldingOf
<1> QED BY <1>1, <1>3, <1>4, FS_Subset

LEMMA SlotsSame ==
  ASSUME SlotsPaired, total' = total, perIP' = perIP, Holding' = Holding
  PROVE  SlotsPaired'
<1> QED BY DEF SlotsPaired

LEMMA SlotReserved ==
  ASSUME HubTypes, SlotsPaired, NEW c \in Clients, c \notin Holding,
         Holding' = Holding \cup {c}, total' = total + 1,
         perIP' = [i \in Ips |-> IF i = IpOf[c] THEN perIP[i] + 1 ELSE perIP[i]]
  PROVE  SlotsPaired' /\ total' \in Nat /\ perIP' \in [Ips -> Nat]
<1>1. total' = Cardinality(Holding \cup {c})
  BY HoldingFinite, FS_AddElement DEF SlotsPaired
<1>2. ASSUME NEW i \in Ips PROVE perIP'[i] = Cardinality({d \in Holding \cup {c} : IpOf[d] = i})
  <2>1. perIP[i] = Cardinality(HoldingOf(i)) /\ IsFiniteSet(HoldingOf(i)) /\ c \notin HoldingOf(i)
    BY HoldingFinite DEF SlotsPaired, HoldingOf
  <2>2. CASE i = IpOf[c]
    <3>1. {d \in Holding \cup {c} : IpOf[d] = i} = HoldingOf(i) \cup {c}
      BY <2>2 DEF HoldingOf
    <3> QED BY <2>1, <2>2, <3>1, FS_AddElement
  <2>3. CASE i # IpOf[c]
    <3>1. {d \in Holding \cup {c} : IpOf[d] = i} = HoldingOf(i)
      BY <2>3 DEF HoldingOf
    <3> QED BY <2>1, <2>3, <3>1
  <2> QED BY <2>2, <2>3
<1>3. total' \in Nat /\ perIP' \in [Ips -> Nat]
  BY DEF HubTypes
<1> QED BY <1>1, <1>2, <1>3 DEF SlotsPaired

\* What is given back is what was held: the counts never stop at zero for want.
LEMMA SlotsReleased ==
  ASSUME HubTypes, SlotsPaired, NEW S \in SUBSET Holding, Release(S), Holding' = Holding \ S
  PROVE  SlotsPaired' /\ total' \in Nat /\ perIP' \in [Ips -> Nat]
<1>1. ASSUME NEW H, IsFiniteSet(H), NEW T \in SUBSET H
      PROVE  Less(Cardinality(H), Cardinality(T)) = Cardinality(H \ T) /\ Cardinality(H \ T) \in Nat
  <2>1. H \cap T = T /\ IsFiniteSet(T) /\ IsFiniteSet(H \ T)
    BY <1>1, FS_Subset
  <2>2. Cardinality(H \ T) = Cardinality(H) - Cardinality(T)
    BY <1>1, <2>1, FS_Difference
  <2>3. Cardinality(H) \in Nat /\ Cardinality(T) \in Nat /\ Cardinality(H \ T) \in Nat
    BY <1>1, <2>1, FS_CardinalityType
  <2> QED BY <2>2, <2>3 DEF Less
<1>2. total' = Cardinality(Holding \ S) /\ total' \in Nat
  BY <1>1, HoldingFinite DEF Release, SlotsPaired
<1>3. ASSUME NEW i \in Ips
      PROVE  perIP'[i] = Cardinality({c \in Holding \ S : IpOf[c] = i}) /\ perIP'[i] \in Nat
  <2> DEFINE T == {c \in S : IpOf[c] = i}
  <2>1. T \in SUBSET HoldingOf(i) /\ HoldingOf(i) \ T = {c \in Holding \ S : IpOf[c] = i}
    BY DEF HoldingOf
  <2>2. perIP'[i] = Less(Cardinality(HoldingOf(i)), Cardinality(T))
    BY DEF Release, SlotsPaired, HoldingOf
  <2> QED BY <1>1, <2>1, <2>2, HoldingFinite
<1>4. perIP' \in [Ips -> Nat]
  BY <1>3 DEF Release
<1> QED BY <1>2, <1>3, <1>4 DEF SlotsPaired
-----------------------------------------------------------------------------
(* Steps.                                                                   *)

LEMMA InitHub == HubInit => HubInv
<1> SUFFICES ASSUME HubInit PROVE HubInv
  OBVIOUS
<1>1. HubTypes /\ registerCh = <<>> /\ clients = {} /\ ToSet(registerCh) = {} /\ Len(registerCh) = 0
  BY ToSetOfEmpty DEF HubInit, HubTypes
<1>2. ApartInv
  BY <1>1 DEF HubInit, ApartInv
<1>3. Holding = {}
  BY <1>1 DEF HubInit, Holding
<1>4. Cardinality({}) = 0 /\ \A i : {c \in Holding : IpOf[c] = i} = {}
  BY <1>3, FS_EmptySet
<1>5. SlotsPaired
  BY <1>3, <1>4 DEF HubInit, SlotsPaired
<1> QED BY <1>1, <1>2, <1>5 DEF HubInv

\* What most steps leave alone.
LEMMA HubElsewhere ==
  ASSUME HubInv, UNCHANGED <<total, perIP, handler, closed, clients, registerCh>>,
         unregisterCh' \in Seq(Clients)
  PROVE  HubInv'
<1>1. Holding' = Holding
  BY DEF Holding
<1>2. SlotsPaired'
  BY <1>1, SlotsSame DEF HubInv
<1> QED BY <1>2 DEF HubInv, HubTypes, ApartInv

LEMMA RemoveStep ==
  ASSUME HubInv, NEW S, RemoveClients(S), UNCHANGED <<handler, registerCh>>, unregisterCh' \in Seq(Clients)
  PROVE  HubInv'
<1> USE DEF HubInv
<1>1. clients' = clients \ S /\ clients' \in SUBSET Clients
      /\ closed' = [c \in Clients |-> IF c \in S \cap clients THEN closed[c] + 1 ELSE closed[c]]
  BY DEF RemoveClients, HubTypes
<1>2. closed' \in [Clients -> Nat]
  BY <1>1 DEF HubTypes
<1>3. S \cap clients \in SUBSET Holding
  BY DEF Holding
<1>4. Holding' = Holding \ (S \cap clients)
  BY <1>1 DEF Holding, ApartInv, HubTypes
<1>5. SlotsPaired' /\ total' \in Nat /\ perIP' \in [Ips -> Nat]
  BY <1>3, <1>4, SlotsReleased DEF RemoveClients
<1>6. HubTypes'
  BY <1>1, <1>2, <1>5 DEF HubTypes
<1>7. ASSUME NEW c \in clients' \cup ToSet(registerCh') PROVE handler'[c] = "returned" /\ closed'[c] = 0
  <2>1. c \in clients \cup ToSet(registerCh) /\ c \notin S \cap clients /\ c \in Clients
    BY <1>1, <1>7, ToSetType DEF ApartInv, HubTypes
  <2> QED BY <1>1, <2>1 DEF ApartInv
<1>8. ASSUME NEW c \in Clients PROVE closed'[c] <= 1 /\ (handler'[c] # "returned" => closed'[c] = 0)
  <2>1. CASE c \in S \cap clients
    BY <1>1, <2>1 DEF ApartInv
  <2>2. CASE c \notin S \cap clients
    BY <1>1, <2>2 DEF ApartInv
  <2> QED BY <2>1, <2>2
<1>9. ApartInv'
  BY <1>1, <1>7, <1>8 DEF ApartInv
<1> QED BY <1>5, <1>6, <1>9

\* A client moves from the register channel into the hub's set.
LEMMA TakeStep ==
  ASSUME HubInv, registerCh # <<>>, clients' = clients \cup {Head(registerCh)},
         registerCh' = Tail(registerCh), UNCHANGED <<total, perIP, handler, closed, unregisterCh>>
  PROVE  HubInv'
<1> DEFINE c == Head(registerCh)
<1>1. /\ c \in Clients /\ Tail(registerCh) \in Seq(Clients)
      /\ ToSet(registerCh') = ToSet(registerCh) \ {c} /\ c \in ToSet(registerCh)
      /\ \A i, j \in 1..Len(registerCh') : registerCh'[i] = registerCh'[j] => i = j
  BY HeadAndTail DEF HubInv, HubTypes, ApartInv
<1> HIDE DEF c
<1>2. clients' = clients \cup {c}
  BY DEF c
<1>3. HubTypes'
  BY <1>1, <1>2 DEF HubInv, HubTypes
<1>4. Holding' = Holding
  BY <1>1, <1>2 DEF Holding
<1>5. SlotsPaired'
  BY <1>4, SlotsSame DEF HubInv
<1>6. ApartInv'
  BY <1>1, <1>2 DEF HubInv, ApartInv
<1> QED BY <1>3, <1>5, <1>6 DEF HubInv

\* A client that no longer is with its handler gives its slot back, unless the
\* handler passed it on.
LEMMA ReturnStep ==
  ASSUME HubInv, NEW c \in Clients, handler[c] \in {"admitted", "upgraded"},
         handler' = [handler EXCEPT ![c] = "returned"], Release({c}),
         UNCHANGED <<closed, clients, registerCh, unregisterCh>>
  PROVE  HubInv'
<1> USE DEF HubInv
<1>1. c \in Holding /\ c \notin clients /\ c \notin ToSet(registerCh)
  BY DEF Holding, ApartInv
<1>2. Holding' = Holding \ {c}
  BY <1>1 DEF Holding, HubTypes
<1>3. SlotsPaired' /\ total' \in Nat /\ perIP' \in [Ips -> Nat]
  BY <1>1, <1>2, SlotsReleased
<1>4. HubTypes' /\ ApartInv'
  BY <1>3 DEF HubTypes, ApartInv
<1> QED BY <1>3, <1>4

LEMMA HandlerStep ==
  ASSUME HubInv, NEW c \in Clients, HandlerNext(c)
  PROVE  HubInv'
<1> USE DEF HubInv
<1>1. CASE Admit(c)
  <2>0. UNCHANGED <<closed, clients, registerCh, unregisterCh>> /\ handler[c] = "new"
    BY <1>1 DEF Admit, channelVars, queueVars
  <2>1. c \notin Holding
    BY <2>0 DEF Holding, ApartInv
  <2>2. CASE handler' = [handler EXCEPT ![c] = "returned"] /\ UNCHANGED slotVars
    <3>1. Holding' = Holding
      BY <2>0, <2>1, <2>2 DEF Holding, HubTypes
    <3>2. SlotsPaired'
      BY <2>2, <3>1, SlotsSame DEF slotVars
    <3> QED BY <2>0, <2>2, <3>2 DEF HubTypes, ApartInv, slotVars
  <2>3. CASE /\ handler' = [handler EXCEPT ![c] = "admitted"] /\ total' = total + 1
             /\ perIP' = [i \in Ips |-> IF i = IpOf[c] THEN perIP[i] + 1 ELSE perIP[i]]
    <3>1. Holding' = Holding \cup {c}
      BY <2>0, <2>3 DEF Holding, HubTypes
    <3>2. SlotsPaired' /\ total' \in Nat /\ perIP' \in [Ips -> Nat]
      BY <2>1, <2>3, <3>1, SlotReserved
    <3>3. \A d \in clients \cup ToSet(registerCh) : d # c
      BY <2>1 DEF Holding
    <3> QED BY <2>0, <2>3, <3>2, <3>3 DEF HubTypes, ApartInv
  <2> QED BY <1>1, <2>2, <2>3 DEF Admit
<1>2. CASE Upgrade(c)
  <2>0. UNCHANGED <<closed, clients, registerCh, unregisterCh>> /\ handler[c] = "admitted"
    BY <1>2 DEF Upgrade, channelVars, queueVars
  <2>1. CASE handler' = [handler EXCEPT ![c] = "upgraded"] /\ UNCHANGED slotVars
    <3>1. Holding' = Holding
      BY <2>0, <2>1 DEF Holding, HubTypes
    <3>2. SlotsPaired'
      BY <2>1, <3>1, SlotsSame DEF slotVars
    <3> QED BY <2>0, <2>1, <3>2 DEF HubTypes, ApartInv, slotVars
  <2>2. CASE handler' = [handler EXCEPT ![c] = "returned"] /\ Release({c})
    BY <2>0, <2>2, ReturnStep
  <2> QED BY <1>2, <2>1, <2>2 DEF Upgrade
<1>3. CASE Register(c)
  <2>0. /\ UNCHANGED <<total, perIP, closed, clients, unregisterCh>> /\ handler[c] = "upgraded"
        /\ handler' = [handler EXCEPT ![c] = "returned"] /\ registerCh' = Append(registerCh, c)
    BY <1>3 DEF Register, slotVars, channelVars
  <2>1. c \notin clients /\ c \notin ToSet(registerCh) /\ closed[c] = 0
    BY <2>0 DEF ApartInv
  <2>2. ToSet(registerCh') = ToSet(registerCh) \cup {c} /\ registerCh' \in Seq(Clients)
    BY <2>0, ToSetOfAppend DEF HubTypes
  <2>3. Holding' = Holding
    BY <2>0, <2>2 DEF Holding, HubTypes
  <2>4. SlotsPaired'
    BY <2>0, <2>3, SlotsSame
  <2>5. \A i, j \in 1..Len(registerCh') : registerCh'[i] = registerCh'[j] => i = j
    <3> DEFINE n == Len(registerCh)
    <3>1. /\ n \in Nat /\ Len(registerCh') = n + 1 /\ registerCh'[n + 1] = c
          /\ \A i \in 1..n : registerCh'[i] = registerCh[i] /\ registerCh[i] # c
      <4>1. registerCh \in Seq(Clients)
        BY DEF HubTypes
      <4>2. \A i \in 1..n : registerCh[i] \in ToSet(registerCh)
        BY <4>1 DEF ToSet
      <4> QED BY <2>0, <2>1, <4>1, <4>2, AppendProperties
    <3>2. \A i \in 1..(n + 1) : i \in 1..n \/ i = n + 1
      BY <3>1
    <3> HIDE DEF n
    <3>3. \A i, j \in 1..n : registerCh[i] = registerCh[j] => i = j
      BY DEF ApartInv, n
    <3> QED BY <3>1, <3>2, <3>3
  <2>6. HubTypes'
    BY <2>0, <2>2 DEF HubTypes
  <2>7. ApartInv'
    BY <2>0, <2>1, <2>2, <2>5 DEF ApartInv, HubTypes
  <2> QED BY <2>4, <2>6, <2>7
<1>4. CASE RegisterAtStop(c)
  BY <1>4, ReturnStep DEF RegisterAtStop, channelVars, queueVars
<1> QED BY <1>1, <1>2, <1>3, <1>4 DEF HandlerNext

LEMMA ClientStep ==
  ASSUME HubInv, NEW c \in Clients,
         ReadSubscription(c) \/ ReadFails(c) \/ WriterNext(c) \/ WriteFails(c) \/ SnapshotNext(c)
  PROVE  HubInv'
<1>1. UNCHANGED <<total, perIP, handler, closed, clients, registerCh>>
  BY DEF ReadSubscription, ReadFails, WriterNext, Write, WriteEnds, WriteFails, SnapshotNext, BuildSnapshot,
         AwaitRegistration, SendSnapshot, slotVars, goroutineVars, channelVars, queueVars
<1>2. unregisterCh' \in Seq(Clients)
  <2>1. unregisterCh \in Seq(Clients) /\ Append(unregisterCh, c) \in Seq(Clients)
    BY AppendProperties DEF HubInv, HubTypes
  <2>2. CASE ReadFails(c)
    BY <2>1, <2>2 DEF ReadFails
  <2>3. CASE ~ReadFails(c)
    <3>1. unregisterCh' = unregisterCh
      BY <2>3 DEF ReadSubscription, WriterNext, Write, WriteEnds, WriteFails, SnapshotNext, BuildSnapshot,
           AwaitRegistration, SendSnapshot, queueVars
    <3> QED BY <2>1, <3>1
  <2> QED BY <2>2, <2>3
<1> QED BY <1>1, <1>2, HubElsewhere

LEMMA HubStep ==
  ASSUME HubInv, HubNext
  PROVE  HubInv'
<1>0. unregisterCh \in Seq(Clients)
  BY DEF HubInv, HubTypes
<1>1. CASE HubRegister
  BY <1>1, TakeStep DEF HubRegister, slotVars, goroutineVars
<1>2. CASE HubUnregister
  <2>1. unregisterCh' \in Seq(Clients)
    BY <1>0, <1>2, HeadTailProperties DEF HubUnregister
  <2> QED BY <1>2, <2>1, RemoveStep DEF HubUnregister, goroutineVars
<1>3. CASE HubBroadcast
  <2>1. PICK S : RemoveClients(S)
    BY <1>3 DEF HubBroadcast, Deliver
  <2> QED BY <1>0, <1>3, <2>1, RemoveStep DEF HubBroadcast, goroutineVars
<1>4. CASE HubDirect
  <2>1. PICK S : RemoveClients(S)
    BY <1>4 DEF HubDirect, Deliver
  <2> QED BY <1>0, <1>4, <2>1, RemoveStep DEF HubDirect, goroutineVars
<1>5. CASE HubStops
  BY <1>0, <1>5, HubElsewhere DEF HubStops, slotVars, goroutineVars, channelVars, queueVars
<1>6. CASE DrainRegister
  BY <1>6, TakeStep DEF DrainRegister, slotVars, goroutineVars, channelVars
<1>7. CASE DrainEnds
  BY <1>0, <1>7, RemoveStep DEF DrainEnds, goroutineVars, queueVars
<1> QED BY <1>1, <1>2, <1>3, <1>4, <1>5, <1>6, <1>7 DEF HubNext

LEMMA StepHub == HubInv /\ [SocketsNext]_hubVars => HubInv'
<1> SUFFICES ASSUME HubInv, [SocketsNext]_hubVars PROVE HubInv'
  OBVIOUS
<1>0. unregisterCh \in Seq(Clients)
  BY DEF HubInv, HubTypes
<1>1. CASE BlocksNext \/ CommitBlock \/ Stop
  <2>1. UNCHANGED <<total, perIP, handler, closed, clients, registerCh, unregisterCh>>
    BY <1>1 DEF BlocksNext, PollBlock, PollOther, CommitBlock, Stop, slotVars, goroutineVars, channelVars, queueVars
  <2> QED BY <1>0, <2>1, HubElsewhere
<1>2. CASE UNCHANGED hubVars
  BY <1>0, <1>2, HubElsewhere DEF hubVars, slotVars, goroutineVars, channelVars, queueVars
<1> QED BY <1>1, <1>2, HandlerStep, ClientStep, HubStep DEF SocketsNext
-----------------------------------------------------------------------------
(* The theorems.                                                            *)

\* The inductive invariant holds throughout.
THEOREM HubInvariance == HubSpec => []HubInv
<1> QED BY InitHub, StepHub, PTL DEF HubSpec

\* Every reserved slot belongs to one client on its way to the hub or known to
\* it (admit, release and removeClient).
THEOREM SlotsArePaired == HubSpec => []SlotsPaired
<1>1. HubInv => SlotsPaired
  BY DEF HubInv
<1> QED BY <1>1, HubInvariance, PTL

\* No send channel is closed twice, or while the hub may still send to it
\* (removeClient, Run).
THEOREM NeverClosedTwice == HubSpec => []ChannelsClosedOnce
<1>1. HubInv => ChannelsClosedOnce
  BY DEF HubInv, ApartInv, ChannelsClosedOnce
<1> QED BY <1>1, HubInvariance, PTL
-----------------------------------------------------------------------------
(* The poller.                                                              *)

Fields == {"pc", "todo", "marked", "commit", "tick", "current"}

PollerTypes ==
  /\ rows \in [Heights -> Nat] /\ shown \in [Heights -> Nat] /\ reorgs \in Nat
  /\ notices \in Seq(Heights) /\ head \in 0..MaxHeight
  /\ baselined \in BOOLEAN /\ poller.todo \in SUBSET Heights
  /\ poller.commit \in Nat
  /\ DOMAIN poller = Fields

Old(h) == rows[h] = 1

\* The rows the API found are marked, or below what a scan reads; what the
\* goroutine works off is none of them, and it works off nothing before the
\* baseline.
OldInv ==
  /\ \A h \in Heights : shown[h] # 1
  /\ \A i \in 1..Len(notices) : ~Old(notices[i])
  /\ \A h \in poller.todo : ~Old(h)
  /\ baselined => \A h \in Heights : Old(h) => h \in seen \/ h + Window <= head
  /\ poller.commit # 1
  /\ poller.todo = {} => ~poller.marked /\ poller.commit = 0
  /\ poller.todo # {} => poller.pc \in {"notice", "scan"}
  /\ poller.pc \in {"notice", "scan"} => baselined

PollerInv == PollerTypes /\ OldInv

LEMMA SizesAre ==
  /\ Window \in Nat /\ 0 < Window /\ MaxHeight \in Nat /\ Heights \subseteq 1..MaxHeight
  /\ Heights \subseteq Nat /\ Heights \subseteq 0..MaxHeight
<1> QED BY PollerSizes DEF Heights

LEMMA IdleIs == /\ Idle.pc = "idle" /\ Idle.todo = {} /\ DOMAIN Idle = Fields
                /\ ~Idle.marked /\ Idle.commit = 0
<1> QED BY DEF Idle, Fields

LEMMA AfterScanIs ==
  ASSUME NEW p PROVE /\ AfterScan(p).todo = {} /\ AfterScan(p).pc \notin {"notice", "scan"}
                       /\ DOMAIN AfterScan(p) = Fields
                       /\ ~AfterScan(p).marked /\ AfterScan(p).commit = 0
<1> QED BY DEF AfterScan, Idle, Fields

\* A step that leaves the goroutine with nothing to broadcast, and the marks
\* and the rows alone.
LEMMA NothingToDo ==
  ASSUME PollerInv, UNCHANGED <<rows, shown, reorgs, baselined, head, seen, notices>>,
         poller'.todo = {}, poller'.pc \notin {"notice", "scan"},
         DOMAIN poller' = Fields, ~poller'.marked, poller'.commit = 0
  PROVE  PollerInv'
<1> QED BY DEF PollerInv, PollerTypes, OldInv, Old

LEMMA Elsewhere ==
  ASSUME PollerInv, UNCHANGED <<rows, shown, reorgs, baselined, head, seen, notices, poller>>
  PROVE  PollerInv'
<1> QED BY DEF PollerInv, PollerTypes, OldInv, Old
-----------------------------------------------------------------------------
(* The rows and the notifications.                                          *)

LEMMA InitPoller == Init => PollerInv
<1> SUFFICES ASSUME Init PROVE PollerInv
  OBVIOUS
<1>1. notices \in Seq(Heights) /\ Len(notices) = 0
  BY DEF Init
<1>2. rows \in [Heights -> Nat] /\ shown \in [Heights -> Nat] /\ \A h \in Heights : shown[h] # 1
  BY DEF Init
<1>3. PollerTypes
  <2>1. head \in 0..MaxHeight /\ baselined \in BOOLEAN /\ reorgs \in Nat
    <3>1. head = 0 /\ baselined = FALSE /\ reorgs = 0
      BY DEF Init
    <3>2. 0 \in Nat /\ 0 \in 0..MaxHeight
      BY SizesAre
    <3> QED BY <3>1, <3>2
  <2>2. /\ poller.todo = {} /\ DOMAIN poller = Fields
        /\ ~poller.marked /\ poller.commit = 0
    BY IdleIs DEF Init
  <2> QED BY <1>1, <1>2, <2>1, <2>2 DEF PollerTypes
<1>4. OldInv
  BY <1>1, <1>2, IdleIs DEF Init, OldInv
<1> QED BY <1>3, <1>4 DEF PollerInv

LEMMA CommitStep == ASSUME PollerInv, NEW h \in Heights, Commit(h) PROVE PollerInv'
<1>1. UNCHANGED <<shown, reorgs, baselined, head, seen, poller>>
  BY DEF Commit, stateVars, clientVars, budgetVars
<1>2. rows' \in [Heights -> Nat] /\ \A g \in Heights : Old(g)' => Old(g)
  <2>1. rows' = [rows EXCEPT ![h] = reorgs + 2] /\ reorgs + 2 \in Nat /\ reorgs + 2 # 1
    BY DEF Commit, PollerInv, PollerTypes
  <2> QED BY <2>1 DEF PollerInv, PollerTypes, Old
<1>3. rows'[h] # 1
  BY DEF Commit, PollerInv, PollerTypes
<1>4. notices' \in Seq(Heights) /\ \A i \in 1..Len(notices') : ~Old(notices[i])'
  <2>1. CASE notices' = notices
    BY <2>1, <1>2, ElementOfSeq DEF PollerInv, PollerTypes, OldInv, Old
  <2>2. CASE notices' = Append(notices, h)
    <3>1. /\ notices' \in Seq(Heights) /\ Len(notices') = Len(notices) + 1 /\ Len(notices) \in Nat
          /\ \A i \in 1..Len(notices) : notices'[i] = notices[i]
          /\ notices'[Len(notices) + 1] = h
      BY <2>2, AppendProperties DEF PollerInv, PollerTypes
    <3>2. ASSUME NEW i \in 1..Len(notices') PROVE rows'[notices'[i]] # 1
      <4>1. CASE i = Len(notices) + 1
        BY <1>3, <3>1, <4>1
      <4>2. CASE i # Len(notices) + 1
        <5>1. i \in 1..Len(notices)
          BY <3>1, <4>2
        <5>2. notices[i] \in Heights /\ rows[notices[i]] # 1
          BY <5>1, ElementOfSeq DEF PollerInv, PollerTypes, OldInv, Old
        <5> QED BY <1>2, <3>1, <5>1, <5>2 DEF Old
      <4> QED BY <4>1, <4>2
    <3> QED BY <3>1, <3>2 DEF Old
  <2> QED BY <2>1, <2>2 DEF Commit
<1>5. PollerTypes'
  BY <1>1, <1>2, <1>4 DEF PollerInv, PollerTypes
<1>6. OldInv'
  BY <1>1, <1>2, <1>4 DEF PollerInv, PollerTypes, OldInv, Old
<1> QED BY <1>5, <1>6 DEF PollerInv

LEMMA RewindStep == ASSUME PollerInv, Rewind PROVE PollerInv'
<1>1. UNCHANGED <<shown, baselined, head, seen, poller, notices>> /\ reorgs' = reorgs + 1
  BY DEF Rewind, stateVars, clientVars, budgetVars
<1>2. rows' \in [Heights -> Nat] /\ \A g \in Heights : rows'[g] = 1 => rows[g] = 1
  BY DEF Rewind, PollerInv, PollerTypes
<1>3. \A i \in 1..Len(notices) : notices[i] \in Heights
  BY ElementOfSeq DEF PollerInv, PollerTypes
<1>4. PollerTypes'
  BY <1>1, <1>2 DEF PollerInv, PollerTypes
<1>5. OldInv'
  BY <1>1, <1>2, <1>3 DEF PollerInv, PollerTypes, OldInv, Old
<1> QED BY <1>4, <1>5 DEF PollerInv
-----------------------------------------------------------------------------
(* The goroutine.                                                           *)

LEMMA NoticeStep == ASSUME PollerInv, Notice PROVE PollerInv'
<1>1. UNCHANGED <<rows, shown, reorgs, baselined, head, seen>>
  BY DEF Notice, stateVars, clientVars, budgetVars
<1>2. /\ notices \in Seq(Heights) /\ Head(notices) = notices[1] /\ 1 \in 1..Len(notices)
      /\ notices' \in Seq(Heights) /\ Len(notices') = Len(notices) - 1
      /\ \A i \in 1..Len(notices') : notices'[i] = notices[i + 1] /\ i + 1 \in 1..Len(notices)
  <2>1. notices \in Seq(Heights) /\ notices # <<>> /\ notices' = Tail(notices)
    BY DEF Notice, PollerInv, PollerTypes
  <2>2. /\ Head(notices) = notices[1] /\ notices' \in Seq(Heights) /\ Len(notices') = Len(notices) - 1
        /\ \A i \in 1..Len(notices') : notices'[i] = notices[i + 1]
    BY <2>1, HeadTailProperties
  <2>3. Len(notices) \in Nat /\ Len(notices) # 0
    BY <2>1, EmptySeq
  <2> QED BY <2>1, <2>2, <2>3
<1>3. Head(notices) \in Heights /\ ~Old(Head(notices))
  BY <1>2, ElementOfSeq DEF PollerInv, OldInv
<1>4. \/ poller'.todo = {} /\ poller'.pc = "idle"
      \/ baselined /\ poller'.todo = {Head(notices)} /\ poller'.pc = "notice"
  BY DEF Notice, Idle
<1>8. DOMAIN poller' = Fields /\ ~poller'.marked /\ poller'.commit = 0
  BY DEF Notice, Idle, Fields
<1>5. PollerTypes'
  BY <1>1, <1>2, <1>3, <1>4, <1>8 DEF PollerInv, PollerTypes
<1>6. \A i \in 1..Len(notices') : ~Old(notices'[i])
  BY <1>2 DEF PollerInv, OldInv
<1>7. OldInv'
  BY <1>1, <1>3, <1>4, <1>6, <1>8 DEF PollerInv, PollerTypes, OldInv, Old
<1> QED BY <1>5, <1>7 DEF PollerInv

\* The baseline marks every row a scan will read.
LEMMA BaselineMarks ==
  ASSUME PollerInv, Baseline
  PROVE  head' \in 0..MaxHeight /\ \A h \in Committed : h \in seen' \/ h + Window <= head'
<1> DEFINE Above(h) == {g \in Committed : h < g}
           newest == {h \in Committed : Cardinality(Above(h)) < Window}
<1>1. Committed \subseteq Heights /\ Committed \in SUBSET (0..MaxHeight)
  BY SizesAre DEF Committed
<1>2. seen' = newest /\ head' = Max({0} \cup newest)
  BY DEF Baseline
<1>3. {0} \cup newest \in SUBSET (0..MaxHeight)
  <2>1. newest \subseteq Committed
    OBVIOUS
  <2> HIDE DEF newest
  <2> QED BY <1>1, <2>1, SizesAre
<1>4. head' \in 0..MaxHeight /\ \A g \in newest : g <= head'
  BY <1>2, <1>3, MaxOfHeights, SizesAre
<1>5. \A g \in Committed : g <= head'
  <2> SUFFICES ASSUME Committed # {} PROVE \A g \in Committed : g <= head'
    OBVIOUS
  <2> DEFINE top == Max(Committed)
  <2>1. top \in Committed /\ \A g \in Committed : g <= top
    BY <1>1, MaxOfHeights, SizesAre
  <2>2. Above(top) = {}
    <3> SUFFICES ASSUME NEW g \in Above(top) PROVE FALSE
      OBVIOUS
    <3>1. g \in Committed /\ top < g /\ g <= top
      BY <2>1
    <3>2. g \in 0..MaxHeight /\ top \in 0..MaxHeight
      BY <1>1, <2>1, <3>1
    <3> HIDE DEF top
    <3> QED BY <3>1, <3>2
  <2>3. top \in newest
    BY <2>1, <2>2, FS_EmptySet, SizesAre
  <2> HIDE DEF top, newest
  <2>4. top <= head' /\ top \in 0..MaxHeight
    BY <1>1, <1>4, <2>1, <2>3
  <2> QED BY <1>1, <1>4, <2>1, <2>4
<1>6. ASSUME NEW h \in Committed, h \notin newest PROVE h + Window <= head'
  <2>1. h \in 0..MaxHeight
    BY <1>1
  <2>2. Above(h) \in SUBSET ((h + 1)..head')
    <3> SUFFICES ASSUME NEW g \in Above(h) PROVE g \in (h + 1)..head'
      OBVIOUS
    <3>1. g \in Committed /\ h < g
      OBVIOUS
    <3>2. g \in 0..MaxHeight /\ g <= head'
      BY <1>1, <1>5, <3>1
    <3> QED BY <1>4, <2>1, <3>1, <3>2
  <2>3. IsFiniteSet((h + 1)..head') /\ Cardinality((h + 1)..head') = IF h + 1 > head' THEN 0 ELSE head' - (h + 1) + 1
    <3>1. h + 1 \in Int /\ head' \in Int
      BY <1>4, <2>1
    <3> QED BY <3>1, FS_Interval
  <2>4. IsFiniteSet(Above(h)) /\ Cardinality(Above(h)) <= Cardinality((h + 1)..head')
    BY <2>2, <2>3, FS_Subset
  <2>5. Cardinality(Above(h)) \in Nat /\ ~(Cardinality(Above(h)) < Window)
    BY <1>6, <2>4, FS_CardinalityType
  <2> HIDE DEF Above
  <2> QED BY <1>4, <2>1, <2>3, <2>4, <2>5, SizesAre
<1> QED BY <1>2, <1>4, <1>6

LEMMA ReadStep == ASSUME PollerInv, ReadRows PROVE PollerInv'
<1>1. UNCHANGED <<rows, shown, reorgs, notices>>
  BY DEF ReadRows, feedVars, mempoolVars, clientVars
<1>2. CASE ~baselined /\ Baseline /\ poller' = AfterScan(poller)
  <2>1. baselined' = TRUE
    BY <1>2 DEF Baseline
  <2>2. head' \in 0..MaxHeight /\ \A h \in Heights : Old(h) => h \in seen' \/ h + Window <= head'
    BY <1>2, BaselineMarks DEF Committed, Old
  <2>3. /\ poller'.todo = {} /\ poller'.pc \notin {"notice", "scan"}
        /\ DOMAIN poller' = Fields /\ ~poller'.marked /\ poller'.commit = 0
    BY <1>2, AfterScanIs
  <2> QED BY <1>1, <2>1, <2>2, <2>3 DEF PollerInv, PollerTypes, OldInv, Old
<1>3. CASE baselined /\ UNCHANGED stateVars /\ poller' = [poller EXCEPT !.pc = "scan", !.todo = Trailing \ seen]
  <2>1. UNCHANGED <<baselined, head, seen>>
    BY <1>3 DEF stateVars
  <2>2. Trailing \subseteq Heights /\ \A h \in Trailing : head - Window < h
    BY DEF Trailing, Committed
  <2>3. poller'.todo \subseteq Trailing \ seen
    BY <1>3
  <2>4. ASSUME NEW h \in poller'.todo PROVE ~Old(h)
    <3>0. h \in Trailing /\ h \notin seen
      BY <2>3
    <3>1. h \in Heights /\ h \notin seen /\ head - Window < h /\ h \in Nat /\ head \in Nat
      BY <2>2, <3>0, SizesAre DEF PollerInv, PollerTypes
    <3>2. ~(h + Window <= head)
      BY <3>1, SizesAre
    <3> QED BY <1>3, <3>1, <3>2 DEF PollerInv, OldInv
  <2>5. poller'.todo \subseteq Heights
    BY <2>2, <2>3
  <2>6. /\ DOMAIN poller' = Fields /\ poller'.pc = "scan"
        /\ ~poller'.marked /\ poller'.commit = 0
    <3>1. ~poller.marked /\ poller.commit = 0
      BY DEF ReadRows, PollerInv, PollerTypes, OldInv
    <3> QED BY <1>3, <3>1 DEF PollerInv, PollerTypes, Fields
  <2> QED BY <1>1, <1>3, <2>1, <2>4, <2>5, <2>6 DEF PollerInv, PollerTypes, OldInv, Old
<1>4. CASE poller' = AfterScan(poller) /\ UNCHANGED stateVars
  BY <1>1, <1>4, AfterScanIs, NothingToDo DEF stateVars
<1> QED BY <1>2, <1>3, <1>4 DEF ReadRows

\* The block in hand is one that committed since the API started.
LEMMA NextBlockIs ==
  ASSUME PollerInv, poller.todo # {}
  PROVE  /\ NextBlock \in poller.todo /\ NextBlock \in Heights /\ ~Old(NextBlock)
         /\ baselined /\ rows[NextBlock] \in Nat \ {1}
<1>1. poller.todo \in SUBSET Heights /\ poller.todo \in SUBSET Nat
  BY SizesAre DEF PollerInv, PollerTypes
<1>2. NextBlock \in poller.todo
  BY <1>1, MinOfHeights DEF NextBlock
<1> QED BY <1>1, <1>2 DEF PollerInv, PollerTypes, OldInv, Old

\* What a step to a block in hand may do: mark or unmark it, go on to the next
\* one, or show the commit that was read.
LEMMA BlockStep ==
  ASSUME PollerInv, poller.todo # {}, UNCHANGED <<rows, reorgs, baselined, notices>>,
         head' \in {head, Max({head, NextBlock})},
         \A g \in seen : g # NextBlock => g \in seen',
         shown' \in {shown, [shown EXCEPT ![NextBlock] = poller.commit]},
         DOMAIN poller' = DOMAIN poller, poller'.pc = poller.pc,
         poller'.commit \in {0, poller.commit, rows[NextBlock]},
         \/ poller'.todo = poller.todo
         \/ /\ poller'.todo = poller.todo \ {NextBlock}
            /\ ~poller'.marked /\ poller'.commit = 0
  PROVE  PollerInv'
<1>2. /\ NextBlock \in poller.todo /\ NextBlock \in Heights /\ ~Old(NextBlock)
      /\ baselined /\ rows[NextBlock] \in Nat \ {1}
  BY NextBlockIs
<1> HIDE DEF NextBlock
<1>6. shown' \in [Heights -> Nat] /\ \A g \in Heights : shown'[g] # 1
  BY <1>2 DEF PollerInv, PollerTypes, OldInv
<1>7. head' \in 0..MaxHeight /\ head <= head'
  <2>1. head \in 0..MaxHeight /\ NextBlock \in 0..MaxHeight
    BY <1>2, SizesAre DEF PollerInv, PollerTypes
  <2>2. Max({head, NextBlock}) \in 0..MaxHeight /\ head <= Max({head, NextBlock})
    <3>1. head \in Int /\ NextBlock \in Int
      BY <2>1, SizesAre
    <3>2. Max({head, NextBlock}) \in {head, NextBlock} /\ Max({head, NextBlock}) >= head
      BY <3>1, MaxOfTwo
    <3> QED BY <2>1, <3>1, <3>2, SizesAre
  <2>3. head <= head
    BY <2>1
  <2>4. CASE head' = head
    BY <2>1, <2>3, <2>4
  <2>5. CASE head' = Max({head, NextBlock})
    BY <2>2, <2>5
  <2> QED BY <2>4, <2>5
<1>8. poller'.todo \subseteq poller.todo /\ poller'.commit \in Nat \ {1}
  BY <1>2 DEF PollerInv, PollerTypes, OldInv
<1>9. PollerTypes'
  BY <1>6, <1>7, <1>8 DEF PollerInv, PollerTypes
<1>10. ASSUME NEW g \in Heights, Old(g) PROVE g \in seen' \/ g + Window <= head'
  <2>1. g # NextBlock
    BY <1>2, <1>10
  <2>2. g \in seen \/ g + Window <= head
    BY <1>2, <1>10 DEF PollerInv, OldInv
  <2>3. g \in Nat /\ head \in Nat /\ head' \in Nat
    BY <1>7, SizesAre DEF PollerInv, PollerTypes
  <2> QED BY <1>7, <2>1, <2>2, <2>3, SizesAre
<1>11. OldInv'
  BY <1>2, <1>6, <1>8, <1>10 DEF PollerInv, PollerTypes, OldInv, Old
<1> QED BY <1>9, <1>11 DEF PollerInv

LEMMA DoneIs ==
  ASSUME PollerInv
  PROVE  /\ DOMAIN BlockDone = DOMAIN poller /\ BlockDone.pc = poller.pc
         /\ BlockDone.todo = poller.todo \ {NextBlock}
         /\ ~BlockDone.marked /\ BlockDone.commit = 0
<1> QED BY DEF BlockDone, PollerInv, PollerTypes, Fields

LEMMA MarkStep == ASSUME PollerInv, MarkBlock PROVE PollerInv'
<1>1. /\ poller.todo # {} /\ UNCHANGED <<rows, reorgs, baselined, notices, shown>>
      /\ head' = Max({head, NextBlock}) /\ seen \subseteq seen'
  BY DEF MarkBlock, feedVars, clientVars, budgetVars
<1>2. CASE poller' = [poller EXCEPT !.marked = TRUE]
  <2>1. /\ DOMAIN poller' = DOMAIN poller /\ poller'.pc = poller.pc /\ poller'.todo = poller.todo
        /\ poller'.commit = poller.commit
    BY <1>2 DEF PollerInv, PollerTypes, Fields
  <2> QED BY <1>1, <2>1, BlockStep
<1>3. CASE poller' = BlockDone
  BY <1>1, <1>3, DoneIs, BlockStep
<1> QED BY <1>2, <1>3 DEF MarkBlock

LEMMA ReadBlockStep == ASSUME PollerInv, ReadBlock PROVE PollerInv'
<1>1. /\ poller.todo # {} /\ UNCHANGED <<rows, reorgs, baselined, notices, shown, head>>
      /\ \A g \in seen : g # NextBlock => g \in seen'
  BY DEF ReadBlock, UnmarkBlock, feedVars, clientVars, PollerInv, OldInv
<1>2. CASE poller' = [poller EXCEPT !.commit = rows[NextBlock]]
  <2>1. /\ DOMAIN poller' = DOMAIN poller /\ poller'.pc = poller.pc /\ poller'.todo = poller.todo
        /\ poller'.commit = rows[NextBlock]
    BY <1>2 DEF PollerInv, PollerTypes, Fields
  <2> QED BY <1>1, <2>1, BlockStep
<1>3. CASE poller' = BlockDone
  BY <1>1, <1>3, DoneIs, BlockStep
<1> QED BY <1>2, <1>3 DEF ReadBlock, UnmarkBlock

LEMMA SendStep == ASSUME PollerInv, SendBlock PROVE PollerInv'
<1>1. /\ poller.todo # {} /\ UNCHANGED <<rows, reorgs, baselined, notices, head>>
      /\ \A g \in seen : g # NextBlock => g \in seen'
      /\ poller' = BlockDone
  BY DEF SendBlock, UnmarkBlock, feedVars, clientVars, PollerInv, OldInv
<1>2. shown' \in {shown, [shown EXCEPT ![NextBlock] = poller.commit]}
  BY DEF SendBlock
<1> QED BY <1>1, <1>2, DoneIs, BlockStep

LEMMA EndStep == ASSUME PollerInv, BroadcastsEnd PROVE PollerInv'
<1>1. UNCHANGED <<rows, shown, reorgs, baselined, head, notices>> /\ poller' = AfterScan(poller)
  BY DEF BroadcastsEnd, feedVars, clientVars, budgetVars
<1>2. \A h \in seen : h \in seen' \/ ~(head <= h + Window)
  BY DEF BroadcastsEnd
<1>3. ASSUME baselined, NEW h \in Heights, Old(h) PROVE h \in seen' \/ h + Window <= head
  <2>1. h \in seen \/ h + Window <= head
    BY <1>3 DEF PollerInv, OldInv
  <2>2. h \in Nat /\ head \in Nat
    BY SizesAre DEF PollerInv, PollerTypes
  <2> QED BY <1>2, <2>1, <2>2, SizesAre
<1>4. /\ poller'.todo = {} /\ poller'.pc \notin {"notice", "scan"}
      /\ DOMAIN poller' = Fields /\ ~poller'.marked /\ poller'.commit = 0
  BY <1>1, AfterScanIs
<1> QED BY <1>1, <1>3, <1>4 DEF PollerInv, PollerTypes, OldInv, Old
-----------------------------------------------------------------------------
LEMMA StepPoller == PollerInv /\ [Next]_vars => PollerInv'
<1> SUFFICES ASSUME PollerInv, [Next]_vars PROVE PollerInv'
  OBVIOUS
<1>1. CASE Reconnected \/ Tick
  <2>1. /\ UNCHANGED <<rows, shown, reorgs, baselined, head, seen, notices>>
        /\ poller'.todo = {} /\ poller'.pc = "read"
        /\ DOMAIN poller' = Fields /\ ~poller'.marked /\ poller'.commit = 0
    BY <1>1 DEF Reconnected, Tick, Idle, Fields, feedVars, stateVars, clientVars, budgetVars
  <2> QED BY <2>1, NothingToDo
<1>2. CASE PollHashes
  <2>1. UNCHANGED <<rows, shown, reorgs, baselined, head, seen, notices>>
    BY <1>2 DEF PollHashes, feedVars, stateVars, clientVars
  <2>2. /\ poller'.todo = {} /\ poller'.pc \in {"idle", "rows"}
        /\ DOMAIN poller' = Fields /\ ~poller'.marked /\ poller'.commit = 0
    <3>1. poller' = Idle \/ poller' = [Idle EXCEPT !.pc = "rows", !.current = pending]
      BY <1>2 DEF PollHashes
    <3>2. CASE poller' = Idle
      BY <3>2, IdleIs
    <3>3. CASE poller' = [Idle EXCEPT !.pc = "rows", !.current = pending]
      <4>1. poller' = [pc |-> "rows", todo |-> {}, marked |-> FALSE, commit |-> 0,
                      tick |-> FALSE, current |-> pending]
        BY <3>3 DEF Idle
      <4> QED BY <4>1 DEF Fields
    <3> QED BY <3>1, <3>2, <3>3
  <2> QED BY <2>1, <2>2, NothingToDo
<1>3. CASE PollRows
  <2>1. UNCHANGED <<rows, shown, reorgs, baselined, head, seen, notices>> /\ poller' = Idle
    BY <1>3 DEF PollRows, feedVars, stateVars
  <2> QED BY <2>1, IdleIs, NothingToDo
<1>4. CASE Disconnect \/ Reconnect \/ PendingMoves \/ ClientsMove \/ UNCHANGED vars
  BY <1>4, Elsewhere DEF Disconnect, Reconnect, PendingMoves, ClientsMove, vars, feedVars, stateVars,
     clientVars, budgetVars
<1> QED BY <1>1, <1>2, <1>3, <1>4, CommitStep, RewindStep, NoticeStep, ReadStep, MarkStep, ReadBlockStep,
        SendStep, EndStep DEF Next, PollerNext, OthersNext
-----------------------------------------------------------------------------
(* The theorem.                                                             *)

\* What the table held when the API started is never broadcast, whatever
\* commits, is lost, fails or is rewound meanwhile (scanNetwork).
THEOREM HistoryStaysQuiet == Spec => []HistoryNotReplayed
<1>1. PollerInv => HistoryNotReplayed
  BY DEF PollerInv, OldInv, HistoryNotReplayed
<1> QED BY <1>1, InitPoller, StepPoller, PTL DEF Spec
=============================================================================

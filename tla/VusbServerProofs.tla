-------------------------- MODULE VusbServerProofs --------------------------
(***************************************************************************)
(* Proofs about VusbServer: the types of its state, the array of clients,  *)
(* and the ownership of devices, for every table size, every number of     *)
(* clients and sessions, and with clients that name any id in a detach.    *)
(***************************************************************************)
EXTENDS VusbServer, FiniteSetTheorems, TLAPS

----------------------------------------------------------------------------
(* The driver's device table, as the server's plugs and unplugs use it.    *)

TableInv == TableTypeOK /\ CountMatchesSlots

\* The occupied ids are a finite set, so its cardinality is a number.
LEMMA OccupiedFinite ==
    /\ IsFiniteSet(DeviceIds) /\ Cardinality(DeviceIds) = MaxDevices
    /\ IsFiniteSet(Occupied) /\ Cardinality(Occupied) \in 0..MaxDevices
<1>1. IsFiniteSet(DeviceIds) /\ Cardinality(DeviceIds) = MaxDevices
  <2>1. 1 \in Int /\ MaxDevices \in Int
    BY TableAssumption
  <2>2. IsFiniteSet(1..MaxDevices) /\ Cardinality(1..MaxDevices) = MaxDevices
    BY <2>1, FS_Interval, TableAssumption
  <2>. QED
    BY <2>2 DEF DeviceIds
<1>2. Occupied \subseteq DeviceIds
  BY DEF Occupied
<1>3. IsFiniteSet(Occupied) /\ Cardinality(Occupied) <= MaxDevices
  BY <1>1, <1>2, FS_Subset
<1>4. Cardinality(Occupied) \in Nat
  BY <1>3, FS_CardinalityType
<1>. QED
  BY <1>1, <1>3, <1>4, TableAssumption

\* At start the table is empty.
LEMMA TableInitInv == TableInit => TableInv
<1> SUFFICES ASSUME TableInit PROVE TableInv
  OBVIOUS
<1>1. Occupied = {}
  BY DEF TableInit, Occupied, Present, NoDevice
<1>2. Cardinality(Occupied) = 0
  BY <1>1, FS_EmptySet
<1>. QED
  BY <1>2, TableAssumption
  DEF TableInit, TableInv, TableTypeOK, CountMatchesSlots, DeviceType, NoDevice, DeviceStates

\* A step that changes no slot's occupancy preserves the invariant.
LEMMA TableSameSlots ==
    ASSUME TableInv, Devices' \in [DeviceIds -> DeviceType],
           \A id \in DeviceIds : Devices'[id].plug = Devices[id].plug,
           UNCHANGED <<DeviceCount, plugs>>
    PROVE  TableInv'
<1>1. Occupied' = Occupied
  BY DEF Occupied, Present
<1>. QED
  BY <1>1 DEF TableInv, TableTypeOK, CountMatchesSlots

\* VusbCreateVirtualDevice preserves the invariant.
LEMMA CreateInv ==
    ASSUME TableInv, NEW id \in Nat, VusbCreateVirtualDevice(id)
    PROVE  TableInv'
<1>1. CASE /\ DeviceCount < MaxDevices
           /\ FirstFit(id)
           /\ Devices' = [Devices EXCEPT ![id] = NewDevice(plugs + 1)]
           /\ DeviceCount' = DeviceCount + 1
           /\ plugs' = plugs + 1
  <2>1. id \in DeviceIds /\ id \notin Occupied
    BY <1>1 DEF FirstFit, FreeIds
  <2>2. Devices' \in [DeviceIds -> DeviceType] /\ plugs' \in Nat
    <3>1. plugs + 1 \in Nat
      BY DEF TableInv, TableTypeOK
    <3>2. NewDevice(plugs + 1) \in DeviceType
      BY <3>1 DEF DeviceType, NewDevice, DeviceStates
    <3>. QED
      BY <1>1, <3>1, <3>2 DEF TableInv, TableTypeOK
  <2>3. Occupied' = Occupied \cup {id}
    BY <1>1, <2>1 DEF Occupied, Present, TableInv, TableTypeOK, NewDevice
  <2>4. Cardinality(Occupied') = Cardinality(Occupied) + 1
    BY <2>1, <2>3, OccupiedFinite, FS_AddElement
  <2>. QED
    BY <1>1, <2>2, <2>4, TableAssumption DEF TableInv, TableTypeOK, CountMatchesSlots
<1>2. CASE UNCHANGED tableVars
  BY <1>2, TableSameSlots DEF tableVars, TableInv, TableTypeOK
<1>. QED
  BY <1>1, <1>2 DEF VusbCreateVirtualDevice

\* VusbDestroyVirtualDevice preserves the invariant; in particular the
\* count does not go below zero.
LEMMA DestroyInv ==
    ASSUME TableInv, NEW id \in Nat, VusbDestroyVirtualDevice(id)
    PROVE  TableInv'
<1>1. CASE /\ Present(id)
           /\ Devices' = [Devices EXCEPT ![id] = NoDevice]
           /\ DeviceCount' = DeviceCount - 1
           /\ UNCHANGED plugs
  <2>1. id \in DeviceIds /\ id \in Occupied
    BY <1>1 DEF Present, Occupied
  <2>2. Devices' \in [DeviceIds -> DeviceType]
    BY <1>1 DEF TableInv, TableTypeOK, DeviceType, NoDevice, DeviceStates
  <2>3. Occupied' = Occupied \ {id}
    BY <1>1, <2>1 DEF Occupied, Present, TableInv, TableTypeOK, NoDevice
  <2>4. Cardinality(Occupied') = Cardinality(Occupied) - 1
    BY <2>1, <2>3, OccupiedFinite, FS_RemoveElement
  <2>5. Cardinality(Occupied') \in Nat
    <3>1. IsFiniteSet(Occupied')
      BY <2>3, OccupiedFinite, FS_RemoveElement
    <3>. QED
      BY <3>1, FS_CardinalityType
  <2>. QED
    BY <1>1, <2>2, <2>4, <2>5, TableAssumption DEF TableInv, TableTypeOK, CountMatchesSlots
<1>2. CASE UNCHANGED tableVars
  BY <1>2, TableSameSlots DEF tableVars, TableInv, TableTypeOK
<1>. QED
  BY <1>1, <1>2 DEF VusbDestroyVirtualDevice

\* A successful VusbCreateVirtualDevice fills a slot that was free, and no other.
LEMMA CreatePresent ==
    ASSUME TableInv, NEW id \in DeviceIds, VusbCreateVirtualDevice(id)
    PROVE  /\ ~Present(id)
           /\ \A d \in DeviceIds : Present(d)' <=> Present(d) \/ d = id
<1>1. /\ FirstFit(id) /\ plugs \in Nat
      /\ Devices' = [Devices EXCEPT ![id] = NewDevice(plugs + 1)]
  BY TableAssumption DEF VusbCreateVirtualDevice, DeviceIds, TableInv, TableTypeOK
<1>2. ~Present(id)
  BY <1>1 DEF FirstFit, FreeIds, Occupied
<1>3. plugs + 1 # 0
  BY <1>1
<1>4. \A d \in DeviceIds : Devices'[d].plug = IF d = id THEN plugs + 1 ELSE Devices[d].plug
  BY <1>1 DEF TableInv, TableTypeOK, NewDevice
<1>. QED
  BY <1>2, <1>3, <1>4 DEF Present

\* VusbDestroyVirtualDevice empties one slot at most.
LEMMA DestroyPresent ==
    ASSUME TableInv, NEW id, VusbDestroyVirtualDevice(id)
    PROVE  \A d \in DeviceIds : Present(d)' <=> Present(d) /\ d # id
<1>1. CASE Present(id)
  <2>1. id \in DeviceIds /\ Devices' = [Devices EXCEPT ![id] = NoDevice]
    BY <1>1 DEF VusbDestroyVirtualDevice, Present
  <2>2. \A d \in DeviceIds : Devices'[d].plug = IF d = id THEN 0 ELSE Devices[d].plug
    BY <2>1 DEF TableInv, TableTypeOK, NoDevice
  <2>. QED
    BY <2>2 DEF Present
<1>2. CASE ~Present(id)
  BY <1>2 DEF VusbDestroyVirtualDevice, Present, tableVars
<1>. QED
  BY <1>1, <1>2

----------------------------------------------------------------------------
(* The inductive invariant.                                                *)

\* Sessions get a connection in the order of their ids.
SessionsInOrder == \A s \in Sessions : s > NextSessionId <=> phase[s] = "none"

\* The locals of a connection's thread: the id an attach or a detach is about,
\* and the loop index, which no one has moved before the disconnect loop.
ThreadLocals ==
    \A s \in Sessions :
        /\ phase[s] \in {"plugged", "unplugged"} => current[s] \in DeviceIds
        /\ phase[s] \notin {"closing", "freed"} => next[s] = 1

\* Entry k of the tracking array still stands for a device session s has to unplug.
Holds(s, k) ==
    /\ tracked[s][k] # 0
    /\ phase[s] # "freed"
    /\ phase[s] = "closing" => k >= next[s]

\* id \in Claims(s), as a predicate.
Claimed(s, id) ==
    \/ phase[s] = "plugged" /\ id = current[s]
    \/ /\ \E k \in DeviceIds : Holds(s, k) /\ tracked[s][k] = id
       /\ ~(phase[s] = "unplugged" /\ id = current[s])

\* The two halves of OneOwner.
ClaimedIsOwned ==
    \A s \in Sessions, id \in DeviceIds : Claimed(s, id) => Present(id) /\ owner[id] = s
PresentIsClaimed ==
    \A id \in DeviceIds : Present(id) => owner[id] \in Sessions /\ Claimed(owner[id], id)

\* No device is tracked twice, and one that has just been plugged not at all.
TrackedOnce ==
    \A s \in Sessions :
        /\ \A j, k \in DeviceIds : Holds(s, j) /\ Holds(s, k) /\ tracked[s][j] = tracked[s][k] => j = k
        /\ phase[s] = "plugged" => \A k \in DeviceIds : tracked[s][k] # current[s]

Ownership == ~foreign => ClaimedIsOwned /\ PresentIsClaimed /\ TrackedOnce

ConnInv == TypeOK /\ CountMatchesSlots /\ ArrayHoldsLiveClients /\ SessionsInOrder /\ ThreadLocals
IInv == ConnInv /\ Ownership

----------------------------------------------------------------------------
(* The connections.                                                        *)

Used == {i \in Slots : Clients[i] # 0}

\* The used slots are a finite set.
LEMMA UsedFinite == IsFiniteSet(Used) /\ Cardinality(Used) \in 0..MaxClients
<1>1. 1 \in Int /\ MaxClients \in Int
  BY ServerAssumption
<1>2. IsFiniteSet(Slots) /\ Cardinality(Slots) = MaxClients
  BY <1>1, FS_Interval, ServerAssumption DEF Slots
<1>3. Used \in SUBSET Slots
  BY DEF Used
<1>4. IsFiniteSet(Used) /\ Cardinality(Used) <= MaxClients
  BY <1>2, <1>3, FS_Subset
<1>. QED
  BY <1>4, FS_CardinalityType, ServerAssumption

\* The table's part of the invariant.
LEMMA ConnTable == ConnInv => TableInv
BY DEF ConnInv, TypeOK, TableInv

\* A connection's thread goes from one phase to another without entering or
\* leaving the array of clients.
LEMMA PhaseStep ==
    ASSUME ConnInv, NEW s \in Sessions, NEW p \in Phases \ {"none"}, phase[s] # "none",
           phase' = [phase EXCEPT ![s] = p],
           p \in {"closing", "freed"} <=> phase[s] \in {"closing", "freed"},
           UNCHANGED <<Clients, ClientCount, NextSessionId>>
    PROVE  /\ phase' \in [Sessions -> Phases]
           /\ ArrayHoldsLiveClients'
           /\ SessionsInOrder'
<1>0. /\ phase \in [Sessions -> Phases] /\ Clients \in [Slots -> 0..MaxSessions]
      /\ ArrayHoldsLiveClients /\ SessionsInOrder
  BY DEF ConnInv, TypeOK
<1>1. phase' \in [Sessions -> Phases]
  BY <1>0
<1>2. \A t \in Sessions : InArray(t)' <=> InArray(t)
  BY <1>0 DEF InArray, Connected, Phases
<1>3. \A i \in Slots : Clients[i] # 0 => Clients[i] \in Sessions
  BY <1>0 DEF Sessions
<1>4. ArrayHoldsLiveClients'
  BY <1>0, <1>2, <1>3 DEF ArrayHoldsLiveClients
<1>5. SessionsInOrder'
  BY <1>0 DEF SessionsInOrder
<1>. QED
  BY <1>1, <1>4, <1>5

\* VusbServerAcceptClient fills a slot that was free with a new session.
LEMMA AcceptInv == ConnInv /\ VusbServerAcceptClient => ConnInv'
<1> SUFFICES ASSUME ConnInv, VusbServerAcceptClient PROVE ConnInv'
  OBVIOUS
<1> DEFINE s == NextSessionId + 1
<1>0. /\ TypeOK /\ CountMatchesSlots /\ ArrayHoldsLiveClients /\ SessionsInOrder /\ ThreadLocals
      /\ phase \in [Sessions -> Phases] /\ Clients \in [Slots -> 0..MaxSessions]
      /\ NextSessionId \in 0..MaxSessions
  BY DEF ConnInv, TypeOK
<1>1. /\ s \in Sessions /\ ClientCount' = ClientCount + 1 /\ NextSessionId' = s
      /\ phase' = [phase EXCEPT ![s] = "accepted"]
      /\ UNCHANGED <<Devices, DeviceCount, plugs, tracked, current, next, owner, foreign>>
  BY DEF VusbServerAcceptClient, tableVars
<1>2. PICK i \in Slots : Clients[i] = 0 /\ Clients' = [Clients EXCEPT ![i] = s]
  BY DEF VusbServerAcceptClient
<1>3. s # 0 /\ s > NextSessionId /\ s \in 0..MaxSessions /\ phase[s] = "none"
  BY <1>0, <1>1, ServerAssumption DEF SessionsInOrder, Sessions
<1> HIDE DEF s
<1>4. Used' = Used \cup {i} /\ i \notin Used
  BY <1>0, <1>2, <1>3 DEF Used
<1>5. Cardinality(Used') = Cardinality(Used) + 1
  BY <1>4, UsedFinite, FS_AddElement
<1>6. ClientCount' = Cardinality(Used') /\ ClientCount' \in 0..MaxClients
  <2>1. (IsFiniteSet(Used) /\ Cardinality(Used) \in 0..MaxClients)'
    BY UsedFinite, PTL
  <2>2. ClientCount = Cardinality(Used)
    BY <1>0 DEF ArrayHoldsLiveClients, Used
  <2>. QED
    BY <1>1, <1>5, <2>1, <2>2
<1>7. /\ \A t \in Sessions : InArray(t)' <=> InArray(t) \/ t = s
      /\ ~InArray(s)
  BY <1>0, <1>1, <1>3 DEF InArray, Connected
<1>8. \A j \in Slots : Clients[j] # s
  BY <1>0, <1>3, <1>7 DEF ArrayHoldsLiveClients
<1>9. \A j \in Slots : Clients[j] # 0 => Clients[j] \in Sessions
  BY <1>0 DEF Sessions
<1>10. ArrayHoldsLiveClients'
  <2>1. ASSUME NEW j \in Slots, Clients'[j] # 0 PROVE InArray(Clients[j])'
    <3>1. Clients'[j] \in Sessions /\ (Clients'[j] = s \/ Clients'[j] = Clients[j])
      BY <1>0, <1>1, <1>2, <1>9, <2>1
    <3>2. \A t \in Sessions : t = Clients'[j] => InArray(t)'
      BY <1>0, <1>7, <2>1, <3>1 DEF ArrayHoldsLiveClients
    <3>. QED
      BY <3>1, <3>2 DEF InArray, Connected
  <2>2. \A t \in Sessions : InArray(t)' => \E k \in Slots :
            Clients'[k] = t /\ \A j \in Slots : Clients'[j] = t => j = k
    BY <1>0, <1>1, <1>2, <1>3, <1>7, <1>8 DEF ArrayHoldsLiveClients, Sessions
  <2>. QED
    BY <1>6, <2>1, <2>2 DEF ArrayHoldsLiveClients, Used
<1>11. SessionsInOrder'
  <2>1. \A t \in Sessions : phase'[t] = IF t = s THEN "accepted" ELSE phase[t]
    BY <1>0, <1>1
  <2>2. s = NextSessionId + 1
    BY DEF s
  <2>3. \A t \in Sessions : t > s <=> t > NextSessionId /\ t # s
    BY <1>0, <2>2 DEF Sessions
  <2>. QED
    BY <1>0, <1>1, <2>1, <2>3 DEF SessionsInOrder
<1>12. TypeOK' /\ CountMatchesSlots'
  BY <1>0, <1>1, <1>2, <1>3, <1>6
  DEF TypeOK, TableTypeOK, CountMatchesSlots, Occupied, Present, Phases
<1>13. ThreadLocals'
  BY <1>0, <1>1, <1>3 DEF ThreadLocals
<1>. QED
  BY <1>10, <1>11, <1>12, <1>13 DEF ConnInv

\* RemoveFromArray empties the slot of a session.
LEMMA RemoveInv ==
    ASSUME ConnInv, NEW s \in Sessions, RemoveFromArray(s)
    PROVE  ConnInv'
<1>0. /\ TypeOK /\ CountMatchesSlots /\ ArrayHoldsLiveClients /\ SessionsInOrder /\ ThreadLocals
      /\ phase \in [Sessions -> Phases] /\ Clients \in [Slots -> 0..MaxSessions]
      /\ NextSessionId \in 0..MaxSessions
  BY DEF ConnInv, TypeOK
<1>1. /\ phase[s] \in {"accepted", "leaving"} /\ ClientCount' = ClientCount - 1
      /\ phase' = [phase EXCEPT ![s] = "closing"]
      /\ UNCHANGED <<Devices, DeviceCount, plugs, NextSessionId, tracked, current, next, owner, foreign>>
  BY DEF RemoveFromArray, tableVars
<1>2. PICK i \in Slots : Clients[i] = s /\ Clients' = [Clients EXCEPT ![i] = 0]
  BY DEF RemoveFromArray
<1>3. s # 0
  BY DEF Sessions
<1>4. Used' = Used \ {i} /\ i \in Used
  BY <1>0, <1>2, <1>3 DEF Used
<1>5. Cardinality(Used') = Cardinality(Used) - 1
  BY <1>4, UsedFinite, FS_RemoveElement
<1>6. ClientCount' = Cardinality(Used') /\ ClientCount' \in 0..MaxClients
  <2>1. (IsFiniteSet(Used) /\ Cardinality(Used) \in 0..MaxClients)'
    BY UsedFinite, PTL
  <2>2. ClientCount = Cardinality(Used)
    BY <1>0 DEF ArrayHoldsLiveClients, Used
  <2>. QED
    BY <1>1, <1>5, <2>1, <2>2
<1>7. \A t \in Sessions : /\ InArray(t)' <=> InArray(t) /\ t # s
                          /\ InArray(s)
  BY <1>0, <1>1 DEF InArray, Connected
<1>8. \A j \in Slots : Clients[j] = s => j = i
  BY <1>0, <1>2, <1>7 DEF ArrayHoldsLiveClients
<1>9. \A j \in Slots : Clients[j] # 0 => Clients[j] \in Sessions
  BY <1>0 DEF Sessions
<1>10. ArrayHoldsLiveClients'
  <2>1. ASSUME NEW j \in Slots, Clients'[j] # 0 PROVE InArray(Clients[j])'
    <3>1. Clients'[j] \in Sessions /\ Clients'[j] = Clients[j] /\ Clients[j] # s
      BY <1>0, <1>2, <1>8, <1>9, <2>1
    <3>2. \A t \in Sessions : t = Clients'[j] => InArray(t)'
      BY <1>0, <1>7, <2>1, <3>1 DEF ArrayHoldsLiveClients
    <3>. QED
      BY <3>1, <3>2 DEF InArray, Connected
  <2>2. \A t \in Sessions : InArray(t)' => \E k \in Slots :
            Clients'[k] = t /\ \A j \in Slots : Clients'[j] = t => j = k
    BY <1>0, <1>1, <1>2, <1>3, <1>7, <1>8 DEF ArrayHoldsLiveClients, Sessions
  <2>. QED
    BY <1>6, <2>1, <2>2 DEF ArrayHoldsLiveClients, Used
<1>11. SessionsInOrder'
  BY <1>0, <1>1 DEF SessionsInOrder
<1>12. TypeOK' /\ CountMatchesSlots'
  BY <1>0, <1>1, <1>2, <1>3, <1>6, ServerAssumption
  DEF TypeOK, TableTypeOK, CountMatchesSlots, Occupied, Present, Phases
<1>13. ThreadLocals'
  BY <1>0, <1>1 DEF ThreadLocals
<1>. QED
  BY <1>10, <1>11, <1>12, <1>13 DEF ConnInv

\* The steps of a connection's thread outside the array of clients.
LEMMA ThreadInv ==
    ASSUME ConnInv, NEW s \in Sessions,
           \/ StartThread(s) \/ LeaveLoop(s) \/ VusbServerPluginDevice(s) \/ TrackDevice(s)
           \/ \E id \in DeviceIds : VusbServerUnplugDevice(s, id)
           \/ UntrackDevice(s) \/ UnplugOwned(s) \/ FreeClient(s)
    PROVE  ConnInv'
<1>0. /\ TypeOK /\ CountMatchesSlots /\ ArrayHoldsLiveClients /\ SessionsInOrder /\ ThreadLocals
      /\ phase \in [Sessions -> Phases] /\ current \in [Sessions -> 0..MaxDevices]
      /\ tracked \in [Sessions -> [DeviceIds -> 0..MaxDevices]]
      /\ next \in [Sessions -> 1..(MaxDevices + 1)] /\ owner \in [DeviceIds -> 0..MaxSessions]
      /\ foreign \in BOOLEAN /\ TableInv
  BY ConnTable DEF ConnInv, TypeOK
<1>1. UNCHANGED <<Clients, ClientCount, NextSessionId>>
  BY DEF StartThread, LeaveLoop, VusbServerPluginDevice, TrackDevice, VusbServerUnplugDevice,
         UntrackDevice, UnplugOwned, FreeClient
<1>2. /\ phase' \in [Sessions -> Phases] /\ ArrayHoldsLiveClients' /\ SessionsInOrder'
      /\ \A t \in Sessions : t # s => phase'[t] = phase[t]
  <2>1. CASE StartThread(s)
    BY <1>0, <1>1, <2>1, PhaseStep DEF StartThread, Phases
  <2>2. CASE LeaveLoop(s)
    BY <1>0, <1>1, <2>2, PhaseStep DEF LeaveLoop, Phases
  <2>3. CASE VusbServerPluginDevice(s)
    BY <1>0, <1>1, <2>3, PhaseStep DEF VusbServerPluginDevice, Phases
  <2>4. CASE TrackDevice(s)
    BY <1>0, <1>1, <2>4, PhaseStep DEF TrackDevice, Phases
  <2>5. ASSUME NEW id \in DeviceIds, VusbServerUnplugDevice(s, id)
        PROVE  <1>2!:
    BY <1>0, <1>1, <2>5, PhaseStep DEF VusbServerUnplugDevice, Phases
  <2>6. CASE UntrackDevice(s)
    BY <1>0, <1>1, <2>6, PhaseStep DEF UntrackDevice, Phases
  <2>7. CASE UnplugOwned(s)
    <3>1. phase' = [phase EXCEPT ![s] = "closing"] /\ phase[s] = "closing"
      BY <1>0, <2>7 DEF UnplugOwned
    <3>. QED
      BY <1>0, <1>1, <3>1, PhaseStep DEF Phases
  <2>8. CASE FreeClient(s)
    BY <1>0, <1>1, <2>8, PhaseStep DEF FreeClient, Phases
  <2>. QED
    BY <2>1, <2>2, <2>3, <2>4, <2>5, <2>6, <2>7, <2>8
<1>3. TableInv'
  <2>1. CASE UNCHANGED tableVars
    BY <1>0, <2>1, TableSameSlots DEF tableVars, TableInv, TableTypeOK
  <2>2. ASSUME NEW id \in DeviceIds, VusbCreateVirtualDevice(id) \/ VusbDestroyVirtualDevice(id)
        PROVE  TableInv'
    BY <1>0, <2>2, CreateInv, DestroyInv DEF DeviceIds
  <2>3. ASSUME NEW k \in DeviceIds, VusbDestroyVirtualDevice(tracked[s][k]) PROVE TableInv'
    <3>1. tracked[s][k] \in Nat
      BY <1>0
    <3>. QED
      BY <1>0, <2>3, <3>1, DestroyInv
  <2>. QED
    BY <2>1, <2>2, <2>3
    DEF StartThread, LeaveLoop, VusbServerPluginDevice, TrackDevice, VusbServerUnplugDevice,
        UntrackDevice, UnplugOwned, FreeClient, Remaining
<1>4. current' \in [Sessions -> 0..MaxDevices] /\ owner' \in [DeviceIds -> 0..MaxSessions]
      /\ next' \in [Sessions -> 1..(MaxDevices + 1)]
  <2>1. 0 \in 0..MaxDevices /\ s \in 0..MaxSessions /\ DeviceIds \subseteq 0..MaxDevices
        /\ \A k \in DeviceIds : k + 1 \in 1..(MaxDevices + 1)
    BY TableAssumption, ServerAssumption DEF Sessions, DeviceIds
  <2>. QED
    BY <1>0, <2>1
    DEF StartThread, LeaveLoop, VusbServerPluginDevice, TrackDevice, VusbServerUnplugDevice,
        UntrackDevice, UnplugOwned, FreeClient, Remaining
<1>5. tracked' \in [Sessions -> [DeviceIds -> 0..MaxDevices]]
  <2>1. 0 \in 0..MaxDevices /\ current[s] \in 0..MaxDevices
    BY <1>0, TableAssumption
  <2>2. ASSUME NEW k \in DeviceIds, NEW v \in 0..MaxDevices
        PROVE  [tracked EXCEPT ![s][k] = v] \in [Sessions -> [DeviceIds -> 0..MaxDevices]]
    BY <1>0
  <2>3. CASE TrackDevice(s)
    BY <1>0, <2>1, <2>2, <2>3 DEF TrackDevice
  <2>4. CASE UntrackDevice(s)
    <3>1. CASE tracked' = tracked
      BY <1>0, <3>1
    <3>2. ASSUME NEW k \in DeviceIds, tracked' = [tracked EXCEPT ![s][k] = 0]
          PROVE  tracked' \in [Sessions -> [DeviceIds -> 0..MaxDevices]]
      BY <2>1, <2>2, <3>2
    <3>. QED
      BY <2>4, <3>1, <3>2 DEF UntrackDevice
  <2>. QED
    BY <1>0, <2>3, <2>4
    DEF StartThread, LeaveLoop, VusbServerPluginDevice, VusbServerUnplugDevice,
        UnplugOwned, FreeClient
<1>6. foreign' \in BOOLEAN
  BY <1>0
  DEF StartThread, LeaveLoop, VusbServerPluginDevice, TrackDevice, VusbServerUnplugDevice,
      UntrackDevice, UnplugOwned, FreeClient
<1>7. ThreadLocals'
  <2>1. \A t \in Sessions : t # s => current'[t] = current[t] /\ next'[t] = next[t]
    BY <1>0
    DEF StartThread, LeaveLoop, VusbServerPluginDevice, TrackDevice, VusbServerUnplugDevice,
        UntrackDevice, UnplugOwned, FreeClient
  <2>2. /\ phase'[s] \in {"plugged", "unplugged"} => current'[s] \in DeviceIds
        /\ phase'[s] \notin {"closing", "freed"} => next'[s] = 1
    BY <1>0
    DEF ThreadLocals, StartThread, LeaveLoop, VusbServerPluginDevice, TrackDevice,
        VusbServerUnplugDevice, UntrackDevice, UnplugOwned, FreeClient
  <2>. QED
    BY <1>0, <1>2, <2>1, <2>2 DEF ThreadLocals
<1>. QED
  BY <1>0, <1>1, <1>2, <1>3, <1>4, <1>5, <1>6, <1>7 DEF ConnInv, TypeOK, TableInv

\* The connections' part of the invariant is inductive by itself.
LEMMA ConnNext == ConnInv /\ [Next]_vars => ConnInv'
<1>1. ConnInv /\ UNCHANGED vars => ConnInv'
  BY DEF vars, tableVars, serverVars, connVars, ConnInv, TypeOK, TableTypeOK, CountMatchesSlots,
         Occupied, Present, ArrayHoldsLiveClients, InArray, Connected, SessionsInOrder, ThreadLocals
<1>. QED
  BY <1>1, AcceptInv, RemoveInv, ThreadInv DEF Next

\* ... and holds at start.
LEMMA ConnInit == Init => ConnInv
<1> SUFFICES ASSUME Init PROVE ConnInv
  OBVIOUS
<1>1. TableInv
  BY TableInitInv DEF Init
<1>2. Used = {}
  BY DEF Init, Used
<1>3. ArrayHoldsLiveClients
  BY <1>2, FS_EmptySet DEF Init, ArrayHoldsLiveClients, InArray, Connected, Used
<1>4. SessionsInOrder /\ ThreadLocals
  BY DEF Init, SessionsInOrder, ThreadLocals, Sessions
<1>5. 0 \in 0..MaxDevices /\ 0 \in 0..MaxSessions /\ 0 \in 0..MaxClients /\ 1 \in 1..(MaxDevices + 1)
  BY TableAssumption, ServerAssumption
<1>6. tracked \in [Sessions -> [DeviceIds -> 0..MaxDevices]]
  BY <1>5 DEF Init
<1>. QED
  BY <1>1, <1>3, <1>4, <1>5, <1>6 DEF Init, ConnInv, TypeOK, TableInv, Phases

----------------------------------------------------------------------------
(* The ownership of devices.                                               *)

\* A step of session s leaves the bookkeeping of the other sessions alone.
Others(s) ==
    \A t \in Sessions \ {s} : /\ phase'[t] = phase[t] /\ tracked'[t] = tracked[t]
                              /\ current'[t] = current[t] /\ next'[t] = next[t]

\* ... so they hold and claim what they did.
LEMMA OthersKeep ==
    ASSUME NEW s \in Sessions, Others(s), NEW t \in Sessions, t # s
    PROVE  /\ \A k \in DeviceIds : Holds(t, k)' <=> Holds(t, k)
           /\ \A id \in DeviceIds : Claimed(t, id)' <=> Claimed(t, id)
BY DEF Others, Holds, Claimed

\* TrackedOnce for the one session that takes a step.
TrackedOnceBy(s) ==
    /\ \A j, k \in DeviceIds : Holds(s, j) /\ Holds(s, k) /\ tracked[s][j] = tracked[s][k] => j = k
    /\ phase[s] = "plugged" => \A k \in DeviceIds : tracked[s][k] # current[s]

\* A step of session s preserves Ownership when its claims follow the table:
\* what it gains is new in the table and its own, what it loses leaves the table.
LEMMA OwnershipStep ==
    ASSUME ~foreign, Ownership, NEW s \in Sessions, Others(s), TrackedOnceBy(s)',
           NEW gained \in SUBSET DeviceIds, NEW lost \in SUBSET DeviceIds,
           \A id \in gained : ~Present(id) /\ owner'[id] = s,
           \A id \in lost : Present(id) => owner[id] = s,
           \A id \in DeviceIds \ gained : owner'[id] = owner[id],
           \A id \in DeviceIds : Present(id)' <=> (Present(id) /\ id \notin lost) \/ id \in gained,
           \A id \in DeviceIds : Claimed(s, id)' <=>
                                     (Claimed(s, id) /\ id \notin lost) \/ id \in gained
    PROVE  Ownership'
<1>0. ClaimedIsOwned /\ PresentIsClaimed /\ TrackedOnce
  BY DEF Ownership
<1>1. ClaimedIsOwned'
  <2> SUFFICES ASSUME NEW t \in Sessions, NEW id \in DeviceIds, Claimed(t, id)'
               PROVE  Present(id)' /\ owner'[id] = t
    BY DEF ClaimedIsOwned
  <2>1. CASE t = s
    BY <1>0, <2>1 DEF ClaimedIsOwned
  <2>2. CASE t # s
    <3>1. Present(id) /\ owner[id] = t
      BY <1>0, <2>2, OthersKeep DEF ClaimedIsOwned
    <3>. QED
      BY <2>2, <3>1
  <2>. QED
    BY <2>1, <2>2
<1>2. PresentIsClaimed'
  <2> SUFFICES ASSUME NEW id \in DeviceIds, Present(id)'
               PROVE  \E t \in Sessions : owner'[id] = t /\ Claimed(t, id)'
    BY DEF PresentIsClaimed, Claimed, Holds
  <2>1. CASE id \in gained
    BY <2>1
  <2>2. CASE id \notin gained
    <3>1. Present(id) /\ id \notin lost /\ owner'[id] = owner[id]
      BY <2>2
    <3>2. owner[id] \in Sessions /\ Claimed(owner[id], id)
      BY <1>0, <3>1 DEF PresentIsClaimed
    <3>3. ASSUME NEW t \in Sessions, owner[id] = t, Claimed(t, id) PROVE Claimed(t, id)'
      BY <3>1, <3>3, OthersKeep
    <3>. QED
      BY <3>1, <3>2, <3>3
  <2>. QED
    BY <2>1, <2>2
<1>3. TrackedOnce'
  <2>1. ASSUME NEW t \in Sessions, t # s PROVE TrackedOnceBy(t)'
    <3>1. \A k \in DeviceIds : Holds(t, k)' <=> Holds(t, k)
      BY <2>1, OthersKeep
    <3>2. tracked'[t] = tracked[t] /\ phase'[t] = phase[t] /\ current'[t] = current[t]
      BY <2>1 DEF Others
    <3>. QED
      BY <1>0, <3>1, <3>2 DEF TrackedOnce, TrackedOnceBy
  <2>2. \A t \in Sessions : TrackedOnceBy(t)'
    BY <2>1
  <2>. QED
    BY <2>2 DEF TrackedOnce, TrackedOnceBy
<1>. QED
  BY <1>1, <1>2, <1>3 DEF Ownership

\* The types the steps below need.
LEMMA ConnTypes ==
    ConnInv => /\ phase \in [Sessions -> Phases] /\ current \in [Sessions -> 0..MaxDevices]
               /\ tracked \in [Sessions -> [DeviceIds -> 0..MaxDevices]]
               /\ next \in [Sessions -> 1..(MaxDevices + 1)]
               /\ owner \in [DeviceIds -> 0..MaxSessions]
               /\ ThreadLocals /\ TableInv
BY ConnTable DEF ConnInv, TypeOK

\* A thread changes its phase only, between phases that claim the same entries.
LEMMA QuietOwnership ==
    ASSUME ConnInv, Ownership, ~foreign, NEW s \in Sessions, NEW p \in Phases,
           phase' = [phase EXCEPT ![s] = p],
           \/ /\ phase[s] \in {"none", "accepted", "serving", "leaving"}
              /\ p \in {"accepted", "serving", "leaving", "closing"}
           \/ phase[s] = "closing" /\ Remaining(s) = {} /\ p = "freed",
           UNCHANGED <<tableVars, tracked, current, next, owner>>
    PROVE  Ownership'
<1>0. /\ phase \in [Sessions -> Phases] /\ next \in [Sessions -> 1..(MaxDevices + 1)]
      /\ ThreadLocals /\ TrackedOnce
  BY ConnTypes DEF Ownership
<1>1. Others(s)
  BY <1>0 DEF Others
<1>2. \A k \in DeviceIds : Holds(s, k)' <=> Holds(s, k)
  <2>1. CASE phase[s] # "closing"
    <3>1. next[s] = 1
      BY <1>0, <2>1 DEF ThreadLocals
    <3>2. \A k \in DeviceIds : k >= next[s]
      BY <3>1 DEF DeviceIds
    <3>. QED
      BY <1>0, <2>1, <3>2 DEF Holds
  <2>2. CASE phase[s] = "closing"
    BY <1>0, <2>2 DEF Holds, Remaining
  <2>. QED
    BY <2>1, <2>2
<1>3. \A id \in DeviceIds : Claimed(s, id)' <=> Claimed(s, id)
  BY <1>0, <1>2 DEF Claimed
<1>4. TrackedOnceBy(s)'
  BY <1>0, <1>2 DEF TrackedOnce, TrackedOnceBy
<1>5. \A id \in DeviceIds : Present(id)' <=> Present(id)
  BY DEF Present, tableVars
<1> DEFINE none == {}
<1>6. none \in SUBSET DeviceIds /\ \A id : id \notin none
  OBVIOUS
<1> HIDE DEF none
<1>. QED
  BY <1>1, <1>3, <1>4, <1>5, <1>6, OwnershipStep

\* An attach: the new device is in nobody's tracking.
LEMMA PluginOwnership ==
    ASSUME ConnInv, Ownership, ~foreign, NEW s \in Sessions, VusbServerPluginDevice(s)
    PROVE  Ownership'
<1>0. /\ phase \in [Sessions -> Phases] /\ current \in [Sessions -> 0..MaxDevices]
      /\ tracked \in [Sessions -> [DeviceIds -> 0..MaxDevices]]
      /\ owner \in [DeviceIds -> 0..MaxSessions] /\ TableInv
      /\ ThreadLocals /\ TrackedOnce /\ ClaimedIsOwned
  BY ConnTypes DEF Ownership
<1>1. PICK id \in DeviceIds : /\ VusbCreateVirtualDevice(id)
                              /\ current' = [current EXCEPT ![s] = id]
                              /\ owner' = [owner EXCEPT ![id] = s]
  BY DEF VusbServerPluginDevice
<1>2. /\ phase[s] = "serving" /\ phase' = [phase EXCEPT ![s] = "plugged"]
      /\ tracked' = tracked /\ next' = next
  BY DEF VusbServerPluginDevice
<1>3. ~Present(id) /\ \A d \in DeviceIds : Present(d)' <=> Present(d) \/ d = id
  BY <1>0, <1>1, CreatePresent
<1>4. \A k \in DeviceIds : tracked[s][k] # id
  <2> SUFFICES ASSUME NEW k \in DeviceIds, tracked[s][k] = id PROVE FALSE
    OBVIOUS
  <2>1. id # 0
    BY DEF DeviceIds
  <2>2. Claimed(s, id)
    BY <1>2, <2>1 DEF Claimed, Holds
  <2>. QED
    BY <1>0, <1>3, <2>2 DEF ClaimedIsOwned
<1>5. \A k \in DeviceIds : Holds(s, k)' <=> Holds(s, k)
  BY <1>0, <1>2 DEF Holds
<1>6. current'[s] = id /\ phase'[s] = "plugged"
  BY <1>0, <1>1, <1>2
<1>7. \A d \in DeviceIds : Claimed(s, d)' <=> Claimed(s, d) \/ d = id
  BY <1>2, <1>5, <1>6 DEF Claimed
<1>8. TrackedOnceBy(s)'
  BY <1>0, <1>2, <1>4, <1>5, <1>6 DEF TrackedOnce, TrackedOnceBy
<1>9. Others(s)
  BY <1>0, <1>1, <1>2 DEF Others
<1>10. owner'[id] = s /\ \A d \in DeviceIds \ {id} : owner'[d] = owner[d]
  BY <1>0, <1>1
<1> DEFINE none == {}  one == {id}
<1>11. /\ none \in SUBSET DeviceIds /\ \A d : d \notin none
       /\ one \in SUBSET DeviceIds /\ \A d : d \in one <=> d = id
  OBVIOUS
<1>12. \A d \in DeviceIds \ one : owner'[d] = owner[d]
  BY <1>10
<1> HIDE DEF none, one
<1>. QED
  BY <1>3, <1>7, <1>8, <1>9, <1>10, <1>11, <1>12, OwnershipStep

\* A tracking array has as many entries as there are devices, so an array of
\* different devices with one device missing has a free entry.
LEMMA FreeEntry ==
    ASSUME NEW f \in [DeviceIds -> 0..MaxDevices], NEW id \in DeviceIds,
           \A k \in DeviceIds : f[k] # id,
           \A j, k \in DeviceIds : f[j] # 0 /\ f[j] = f[k] => j = k
    PROVE  \E k \in DeviceIds : f[k] = 0
<1> SUFFICES ASSUME \A k \in DeviceIds : f[k] # 0 PROVE FALSE
  OBVIOUS
<1> DEFINE T == DeviceIds \ {id}
<1>1. f \in [DeviceIds -> T]
  BY DEF DeviceIds
<1>2. IsFiniteSet(T) /\ Cardinality(T) = Cardinality(DeviceIds) - 1
  BY OccupiedFinite, FS_RemoveElement
<1>3. Cardinality(T) < Cardinality(DeviceIds)
  BY <1>2, OccupiedFinite, TableAssumption
<1> HIDE DEF T
<1>4. \E x, y \in DeviceIds : x # y /\ f[x] = f[y]
  BY <1>1, <1>2, <1>3, OccupiedFinite, FS_PigeonHole
<1>. QED
  BY <1>4

\* The device of an attach goes from the thread's local into a free entry.
LEMMA TrackOwnership ==
    ASSUME ConnInv, Ownership, ~foreign, NEW s \in Sessions, TrackDevice(s)
    PROVE  Ownership'
<1>0. /\ phase \in [Sessions -> Phases] /\ current \in [Sessions -> 0..MaxDevices]
      /\ tracked \in [Sessions -> [DeviceIds -> 0..MaxDevices]]
      /\ ThreadLocals /\ TrackedOnce
  BY ConnTypes DEF Ownership
<1>1. /\ phase[s] = "plugged" /\ phase' = [phase EXCEPT ![s] = "serving"]
      /\ current' = [current EXCEPT ![s] = 0]
      /\ UNCHANGED <<tableVars, next, owner>>
  BY DEF TrackDevice
<1>2. /\ current[s] \in DeviceIds /\ current[s] # 0
      /\ \A k \in DeviceIds : tracked[s][k] # current[s]
  BY <1>0, <1>1 DEF ThreadLocals, TrackedOnce, DeviceIds
<1>3. \A j, k \in DeviceIds : tracked[s][j] # 0 /\ tracked[s][j] = tracked[s][k] => j = k
  BY <1>0, <1>1 DEF TrackedOnce, Holds
<1>4. \E k \in DeviceIds : tracked[s][k] = 0
  BY <1>0, <1>2, <1>3, FreeEntry
<1>5. PICK k \in DeviceIds : /\ tracked[s][k] = 0
                             /\ tracked' = [tracked EXCEPT ![s][k] = current[s]]
  BY <1>4 DEF TrackDevice
<1>6. /\ \A j \in DeviceIds : tracked'[s][j] = IF j = k THEN current[s] ELSE tracked[s][j]
      /\ \A t \in Sessions \ {s} : tracked'[t] = tracked[t]
  BY <1>0, <1>5
<1>7. phase'[s] = "serving"
  BY <1>0, <1>1
<1>8. \A id \in DeviceIds : Claimed(s, id)' <=> Claimed(s, id)
  BY <1>1, <1>2, <1>5, <1>6, <1>7 DEF Claimed, Holds
<1>9. TrackedOnceBy(s)'
  BY <1>2, <1>3, <1>6, <1>7 DEF TrackedOnceBy, Holds
<1>10. Others(s)
  BY <1>0, <1>1, <1>6 DEF Others
<1>11. \A id \in DeviceIds : Present(id)' <=> Present(id)
  BY <1>1 DEF Present, tableVars
<1> DEFINE none == {}
<1>12. none \in SUBSET DeviceIds /\ \A id : id \notin none
  OBVIOUS
<1> HIDE DEF none
<1>. QED
  BY <1>1, <1>8, <1>9, <1>10, <1>11, <1>12, OwnershipStep

\* A detach: the device leaves the table and the claims of its owner at once.
LEMMA UnplugOwnership ==
    ASSUME ConnInv, Ownership, ~foreign, NEW s \in Sessions, NEW id \in DeviceIds,
           VusbServerUnplugDevice(s, id), ~foreign'
    PROVE  Ownership'
<1>0. /\ phase \in [Sessions -> Phases] /\ current \in [Sessions -> 0..MaxDevices]
      /\ tracked \in [Sessions -> [DeviceIds -> 0..MaxDevices]] /\ TableInv
      /\ ThreadLocals /\ TrackedOnce /\ ClaimedIsOwned
  BY ConnTypes DEF Ownership
<1>1. /\ phase[s] = "serving" /\ phase' = [phase EXCEPT ![s] = "unplugged"]
      /\ current' = [current EXCEPT ![s] = id]
      /\ UNCHANGED <<tracked, next, owner>>
      /\ VusbDestroyVirtualDevice(id)
  BY DEF VusbServerUnplugDevice
<1>2. \A d \in DeviceIds : Present(d)' <=> Present(d) /\ d # id
  BY <1>0, <1>1, DestroyPresent
<1>3. Present(id) => owner[id] = s
  <2> SUFFICES ASSUME Present(id) PROVE owner[id] = s
    OBVIOUS
  <2>1. \E k \in DeviceIds : tracked[s][k] = id
    BY DEF VusbServerUnplugDevice
  <2>2. Claimed(s, id)
    BY <1>1, <2>1 DEF Claimed, Holds, DeviceIds
  <2>. QED
    BY <1>0, <2>2 DEF ClaimedIsOwned
<1>4. phase'[s] = "unplugged" /\ current'[s] = id
  BY <1>0, <1>1
<1>5. \A k \in DeviceIds : Holds(s, k)' <=> Holds(s, k)
  BY <1>1, <1>4 DEF Holds
<1>6. \A d \in DeviceIds : Claimed(s, d)' <=> Claimed(s, d) /\ d # id
  BY <1>1, <1>4, <1>5 DEF Claimed
<1>7. TrackedOnceBy(s)'
  BY <1>0, <1>1, <1>4, <1>5 DEF TrackedOnce, TrackedOnceBy
<1>8. Others(s)
  BY <1>0, <1>1 DEF Others
<1> DEFINE none == {}  one == {id}
<1>9. /\ none \in SUBSET DeviceIds /\ \A d : d \notin none
      /\ one \in SUBSET DeviceIds /\ \A d : d \in one <=> d = id
  OBVIOUS
<1> HIDE DEF none, one
<1>. QED
  BY <1>1, <1>2, <1>3, <1>6, <1>7, <1>8, <1>9, OwnershipStep

\* The entry of a detached device is cleared; its id has left the claims before.
LEMMA UntrackOwnership ==
    ASSUME ConnInv, Ownership, ~foreign, NEW s \in Sessions, UntrackDevice(s)
    PROVE  Ownership'
<1>0. /\ phase \in [Sessions -> Phases] /\ current \in [Sessions -> 0..MaxDevices]
      /\ tracked \in [Sessions -> [DeviceIds -> 0..MaxDevices]]
      /\ ThreadLocals /\ TrackedOnce
  BY ConnTypes DEF Ownership
<1>1. /\ phase[s] = "unplugged" /\ phase' = [phase EXCEPT ![s] = "serving"]
      /\ current' = [current EXCEPT ![s] = 0]
      /\ UNCHANGED <<tableVars, next, owner>>
  BY DEF UntrackDevice
<1>2. current[s] \in DeviceIds /\ current[s] # 0
  BY <1>0, <1>1 DEF ThreadLocals, DeviceIds
<1>3. \A j, k \in DeviceIds : tracked[s][j] # 0 /\ tracked[s][j] = tracked[s][k] => j = k
  BY <1>0, <1>1 DEF TrackedOnce, Holds
<1>4. /\ \A j \in DeviceIds : tracked'[s][j] = IF tracked[s][j] = current[s] THEN 0 ELSE tracked[s][j]
      /\ \A t \in Sessions \ {s} : tracked'[t] = tracked[t]
  <2>1. ASSUME NEW k \in DeviceIds, tracked[s][k] = current[s],
               tracked' = [tracked EXCEPT ![s][k] = 0]
        PROVE  <1>4!:
    <3>1. \A j \in DeviceIds : tracked[s][j] = current[s] <=> j = k
      BY <1>2, <1>3, <2>1
    <3>. QED
      BY <1>0, <2>1, <3>1
  <2>2. CASE tracked' = tracked /\ \A k \in DeviceIds : tracked[s][k] # current[s]
    BY <2>2
  <2>. QED
    BY <2>1, <2>2 DEF UntrackDevice
<1>5. phase'[s] = "serving"
  BY <1>0, <1>1
<1>6. \A id \in DeviceIds : Claimed(s, id)' <=> Claimed(s, id)
  BY <1>1, <1>2, <1>4, <1>5 DEF Claimed, Holds, DeviceIds
<1>7. TrackedOnceBy(s)'
  BY <1>3, <1>4, <1>5 DEF TrackedOnceBy, Holds
<1>8. Others(s)
  BY <1>0, <1>1, <1>4 DEF Others
<1>9. \A id \in DeviceIds : Present(id)' <=> Present(id)
  BY <1>1 DEF Present, tableVars
<1> DEFINE none == {}
<1>10. none \in SUBSET DeviceIds /\ \A id : id \notin none
  OBVIOUS
<1> HIDE DEF none
<1>. QED
  BY <1>1, <1>6, <1>7, <1>8, <1>9, <1>10, OwnershipStep

\* The disconnect loop unplugs the device of the next Active entry.
LEMMA UnplugOwnedOwnership ==
    ASSUME ConnInv, Ownership, ~foreign, NEW s \in Sessions, UnplugOwned(s)
    PROVE  Ownership'
<1>0. /\ next \in [Sessions -> 1..(MaxDevices + 1)]
      /\ tracked \in [Sessions -> [DeviceIds -> 0..MaxDevices]] /\ TableInv
      /\ TrackedOnce /\ ClaimedIsOwned
  BY ConnTypes DEF Ownership
<1>1. phase[s] = "closing" /\ UNCHANGED <<phase, tracked, current, owner>>
  BY DEF UnplugOwned
<1>2. PICK k \in Remaining(s) : /\ \A j \in Remaining(s) : k <= j
                                /\ VusbDestroyVirtualDevice(tracked[s][k])
                                /\ next' = [next EXCEPT ![s] = k + 1]
  BY DEF UnplugOwned
<1> DEFINE id == tracked[s][k]
<1>3. k \in DeviceIds /\ k >= next[s] /\ id # 0 /\ id \in DeviceIds
  <2>1. k \in DeviceIds /\ k >= next[s] /\ id # 0
    BY DEF Remaining
  <2>2. id \in 0..MaxDevices
    BY <1>0, <2>1
  <2>. QED
    BY <2>1, <2>2 DEF DeviceIds
<1>4. Holds(s, k)
  BY <1>1, <1>3 DEF Holds
<1> HIDE DEF id
<1>5. \A d \in DeviceIds : Present(d)' <=> Present(d) /\ d # id
  BY <1>0, <1>2, DestroyPresent DEF id
<1>6. owner[id] = s
  <2>1. Claimed(s, id)
    BY <1>1, <1>3, <1>4 DEF Claimed, id
  <2>. QED
    BY <1>0, <1>3, <2>1 DEF ClaimedIsOwned
<1>7. \A j \in DeviceIds : Holds(s, j)' <=> Holds(s, j) /\ j # k
  <2>1. next'[s] = k + 1
    BY <1>0, <1>2
  <2>2. \A j \in DeviceIds : tracked[s][j] # 0 /\ j >= next[s] => k <= j
    BY <1>2 DEF Remaining
  <2>3. \A j \in DeviceIds : tracked[s][j] # 0 => (j >= k + 1 <=> j >= next[s] /\ j # k)
    BY <1>0, <1>3, <2>2 DEF DeviceIds
  <2>. QED
    BY <1>1, <2>1, <2>3 DEF Holds
<1>8. \A j \in DeviceIds : Holds(s, j) /\ tracked[s][j] = id => j = k
  BY <1>0, <1>3, <1>4 DEF TrackedOnce, id
<1>9. \A d \in DeviceIds : Claimed(s, d)' <=> Claimed(s, d) /\ d # id
  BY <1>1, <1>7, <1>8, <1>3 DEF Claimed, id
<1>10. TrackedOnceBy(s)'
  BY <1>0, <1>1, <1>7 DEF TrackedOnce, TrackedOnceBy
<1>11. Others(s)
  BY <1>0, <1>1, <1>2 DEF Others
<1> DEFINE none == {}  one == {id}
<1>12. /\ none \in SUBSET DeviceIds /\ \A d : d \notin none
       /\ one \in SUBSET DeviceIds /\ \A d : d \in one <=> d = id
  BY <1>3
<1> HIDE DEF none, one
<1>. QED
  BY <1>1, <1>5, <1>6, <1>9, <1>10, <1>11, <1>12, OwnershipStep

\* Every step preserves the ownership of devices.
LEMMA OwnershipNext == IInv /\ [Next]_vars => Ownership'
<1> SUFFICES ASSUME IInv, [Next]_vars, ~foreign' PROVE Ownership'
  BY DEF Ownership
<1>0. /\ ConnInv /\ Ownership /\ TypeOK /\ phase \in [Sessions -> Phases]
      /\ SessionsInOrder /\ NextSessionId \in 0..MaxSessions
  BY DEF IInv, ConnInv, TypeOK
<1>1. ~foreign
  BY DEF Next, VusbServerAcceptClient, StartThread, LeaveLoop, VusbServerPluginDevice, TrackDevice,
         VusbServerUnplugDevice, UntrackDevice, RemoveFromArray, UnplugOwned, FreeClient,
         vars, serverVars
<1>2. CASE VusbServerAcceptClient
  <2> DEFINE s == NextSessionId + 1
  <2>1. s \in Sessions /\ phase[s] = "none"
    BY <1>0, <1>2 DEF VusbServerAcceptClient, SessionsInOrder, Sessions
  <2>2. /\ phase' = [phase EXCEPT ![s] = "accepted"]
        /\ UNCHANGED <<tableVars, tracked, current, next, owner>>
    BY <1>2 DEF VusbServerAcceptClient
  <2> HIDE DEF s
  <2>. QED
    BY <1>0, <1>1, <2>1, <2>2, QuietOwnership DEF Phases
<1>3. ASSUME NEW s \in Sessions, StartThread(s) PROVE Ownership'
  BY <1>0, <1>1, <1>3, QuietOwnership DEF StartThread, Phases
<1>4. ASSUME NEW s \in Sessions, LeaveLoop(s) PROVE Ownership'
  BY <1>0, <1>1, <1>4, QuietOwnership DEF LeaveLoop, Phases
<1>5. ASSUME NEW s \in Sessions, RemoveFromArray(s) PROVE Ownership'
  BY <1>0, <1>1, <1>5, QuietOwnership DEF RemoveFromArray, Phases
<1>6. ASSUME NEW s \in Sessions, FreeClient(s) PROVE Ownership'
  BY <1>0, <1>1, <1>6, QuietOwnership DEF FreeClient, Phases
<1>7. CASE UNCHANGED vars
  BY <1>0, <1>7
  DEF Ownership, ClaimedIsOwned, PresentIsClaimed, TrackedOnce, Claimed, Holds, Present,
      vars, tableVars, serverVars, connVars
<1>. QED
  BY <1>0, <1>1, <1>2, <1>3, <1>4, <1>5, <1>6, <1>7, PluginOwnership, TrackOwnership,
     UnplugOwnership, UntrackOwnership, UnplugOwnedOwnership
  DEF Next

\* At start nobody claims anything and the table is empty.
LEMMA OwnershipInit == Init => Ownership
<1> SUFFICES ASSUME Init PROVE Ownership
  OBVIOUS
<1>1. \A id \in DeviceIds : ~Present(id)
  BY DEF Init, TableInit, Present, NoDevice
<1>2. \A s \in Sessions : phase[s] = "none" /\ \A k \in DeviceIds : tracked[s][k] = 0
  BY DEF Init
<1>. QED
  BY <1>1, <1>2 DEF Ownership, ClaimedIsOwned, PresentIsClaimed, TrackedOnce, Claimed, Holds

----------------------------------------------------------------------------
(* The theorems.                                                           *)

(***************************************************************************)
(* The inductive invariant holds in every reachable state.                 *)
(***************************************************************************)
THEOREM ServerInductive == Spec => []IInv
<1>1. Init => IInv
  BY ConnInit, OwnershipInit DEF IInv
<1>2. IInv /\ [Next]_vars => IInv'
  BY ConnNext, OwnershipNext DEF IInv
<1>. QED
  BY <1>1, <1>2, PTL DEF Spec

(***************************************************************************)
(* Type correctness; it includes that ClientCount stays within the array   *)
(* and never wraps below zero.                                             *)
(***************************************************************************)
THEOREM ServerTypeCorrect == Spec => []TypeOK
<1>1. IInv => TypeOK
  BY DEF IInv, ConnInv
<1>. QED
  BY <1>1, ServerInductive, PTL

(***************************************************************************)
(* ctx->Clients points to live connections only, to each once, and         *)
(* ClientCount counts them, whatever the order in which threads start,     *)
(* leave and are freed while the accept loop goes on.                      *)
(***************************************************************************)
THEOREM ServerArrayHoldsLiveClients == Spec => []ArrayHoldsLiveClients
<1>1. IInv => ArrayHoldsLiveClients
  BY DEF IInv, ConnInv
<1>. QED
  BY <1>1, ServerInductive, PTL

\* Claimed is membership in Claims.
LEMMA ClaimedIff ==
    ASSUME NEW s \in Sessions, NEW id PROVE id \in Claims(s) <=> Claimed(s, id)
<1> DEFINE entries == CASE phase[s] = "freed" -> {}
                        [] phase[s] = "closing" -> Remaining(s)
                        [] OTHER -> {k \in DeviceIds : tracked[s][k] # 0}
<1>1. \A k : k \in entries <=> k \in DeviceIds /\ Holds(s, k)
  BY DEF Holds, Remaining
<1>2. id \in Claims(s) <=>
        \/ phase[s] = "plugged" /\ (id = current[s] \/ \E k \in entries : tracked[s][k] = id)
        \/ phase[s] = "unplugged" /\ id # current[s] /\ \E k \in entries : tracked[s][k] = id
        \/ phase[s] \notin {"plugged", "unplugged"} /\ \E k \in entries : tracked[s][k] = id
  BY DEF Claims
<1> HIDE DEF entries
<1>. QED
  BY <1>1, <1>2 DEF Claimed

(***************************************************************************)
(* Until a client detaches another's device, a device is in the driver's   *)
(* table exactly while one session, the one that attached it, is           *)
(* responsible for it: no disconnect leaks a device or unplugs another     *)
(* session's, although ids are reused between an IOCTL and its tracking,   *)
(* and the tracking array always has room (a pigeonhole argument).         *)
(***************************************************************************)
THEOREM ServerOneOwner == Spec => []OneOwner
<1>1. IInv => OneOwner
  <2> SUFFICES ASSUME IInv, ~foreign
               PROVE  /\ \A s \in Sessions : \A id \in Claims(s) : Present(id) /\ owner[id] = s
                      /\ \A id \in Occupied : id \in Claims(owner[id])
    BY DEF OneOwner
  <2>1. ClaimedIsOwned /\ PresentIsClaimed /\ ThreadLocals
        /\ tracked \in [Sessions -> [DeviceIds -> 0..MaxDevices]]
    BY DEF IInv, ConnInv, TypeOK, Ownership
  <2>2. ASSUME NEW s \in Sessions, NEW id \in Claims(s) PROVE Present(id) /\ owner[id] = s
    <3>1. Claimed(s, id)
      BY <2>2, ClaimedIff
    <3>2. id \in DeviceIds
      <4>1. CASE phase[s] = "plugged" /\ id = current[s]
        BY <2>1, <4>1 DEF ThreadLocals
      <4>2. ASSUME NEW k \in DeviceIds, Holds(s, k), tracked[s][k] = id PROVE id \in DeviceIds
        <5>1. tracked[s][k] \in 0..MaxDevices /\ tracked[s][k] # 0
          BY <2>1, <4>2 DEF Holds
        <5>. QED
          BY <4>2, <5>1 DEF DeviceIds
      <4>. QED
        BY <3>1, <4>1, <4>2 DEF Claimed
    <3>. QED
      BY <2>1, <3>1, <3>2 DEF ClaimedIsOwned
  <2>3. ASSUME NEW id \in Occupied PROVE id \in Claims(owner[id])
    <3>1. id \in DeviceIds /\ owner[id] \in Sessions /\ Claimed(owner[id], id)
      BY <2>1 DEF Occupied, PresentIsClaimed
    <3>. QED
      BY <3>1, ClaimedIff
  <2>. QED
    BY <2>2, <2>3
<1>. QED
  BY <1>1, ServerInductive, PTL

=============================================================================

------------------------ MODULE VusbUserspaceProofs ------------------------
(***************************************************************************)
(* Proofs about VusbUserspace, for every table size and every number of    *)
(* clients, devices and URBs: the array of clients, the ownership of       *)
(* devices, and the lists of pending URBs.                                 *)
(***************************************************************************)
EXTENDS VusbUserspace, FiniteSetTheorems, FunctionTheorems, SequenceTheorems, TLAPS

Phases == {"none", "serving", "created", "leaving", "closing", "freed"}

Live == {s \in Sessions : phase[s] \notin {"none", "freed"}}

\* Sessions get a connection in the order of their ids.
SessionsInOrder == \A s \in Sessions : s > NextSessionId <=> phase[s] = "none"

ClientInv ==
    /\ Clients \in [1..MaxClients -> 0..MaxSessions]
    /\ ClientCount \in Nat
    /\ NextSessionId \in 0..MaxSessions
    /\ phase \in [Sessions -> Phases]
    /\ ArrayHoldsLiveClients
    /\ SessionsInOrder

\* The shutdown loop waits only for a slot of the array.
RunInv ==
    /\ told \subseteq Sessions
    /\ Running \in BOOLEAN
    /\ runpc \in {"accept", "check", "wait", "cleaned", "crashed"}
    /\ waitSlot \in 1..(MaxClients + 1)
    /\ runpc = "wait" => waitSlot <= MaxClients

OwnTypes ==
    /\ NextDeviceId \in 0..MaxCreates
    /\ creator \in [Ids -> 0..MaxSessions]
    /\ DeviceIds \in [Sessions -> Seq(Ids)]
    /\ attaching \in [Sessions -> 0..MaxCreates]

UrbTypes ==
    /\ dev \in [Slots -> DeviceType]
    /\ urb \in [Urbs -> UrbType]
    /\ nextUrb \in 0..MaxUrbs
    /\ found \in [urb: 0..MaxUrbs, slot: 0..MaxDevices]

\* The counters of a slot are bounded by the URBs submitted; a lookup has drawn
\* its number already.
CountInv ==
    /\ found # NoLookup => found.urb \in 1..nextUrb /\ found.slot \in Slots
    /\ \A i \in Slots : /\ Len(dev[i].PendingUrbs) <= dev[i].PendingUrbCount
                        /\ dev[i].PendingUrbCount <= dev[i].NextUrbId
                        /\ IF found = NoLookup THEN dev[i].NextUrbId <= nextUrb ELSE dev[i].NextUrbId < nextUrb

Types == ClientInv /\ RunInv /\ OwnTypes /\ UrbTypes /\ CountInv

Working(s) == phase[s] \in {"serving", "created", "leaving"}
Id(i) == dev[i].DeviceId
Tracks(s, id) == \E k \in DOMAIN DeviceIds[s] : DeviceIds[s][k] = id

\* Session s is responsible for device id.
Claimed(s, id) == Working(s) /\ (Tracks(s, id) \/ (phase[s] = "created" /\ attaching[s] = id))

\* Ids are drawn once, so no two slots hold the same device.
IdsUnique ==
    /\ \A i \in Slots : Id(i) <= NextDeviceId
    /\ \A i, j \in Slots : Active(i) /\ Id(i) = Id(j) => i = j
    /\ \A s \in Sessions : /\ attaching[s] <= NextDeviceId
                           /\ \A k \in DOMAIN DeviceIds[s] : DeviceIds[s][k] <= NextDeviceId

\* Locals of a session's thread.
SessionLocals ==
    \A s \in Sessions : /\ attaching[s] # 0 <=> phase[s] = "created"
                        /\ phase[s] = "none" => DeviceIds[s] = <<>>
                        /\ Working(s) => IsInjective(DeviceIds[s])
                        /\ phase[s] = "created" => ~Tracks(s, attaching[s])

ClaimedIsOwned ==
    \A s \in Sessions, id \in Ids : Claimed(s, id) =>
        /\ creator[id] = s
        /\ \E i \in Slots : Id(i) = id /\ (Tracks(s, id) => dev[i].OwnerClient = s)

ActiveIsClaimed ==
    \A i \in Slots : Active(i) => creator[Id(i)] \in Sessions /\ Claimed(creator[Id(i)], Id(i))

OwnInv == Alive => IdsUnique /\ SessionLocals /\ ClaimedIsOwned /\ ActiveIsClaimed

\* URB u is on list q, or on the list of slot i.
On(u, q) == \E k \in DOMAIN q : q[k] = u
Listed(u, i) == On(u, dev[i].PendingUrbs)

\* The UrbIds of a list differ, and have been drawn in its slot.
IdsDrawn(q, f, next) ==
    /\ \A k, l \in DOMAIN q : f[q[k]].UrbId = f[q[l]].UrbId => k = l
    /\ \A k \in DOMAIN q : f[q[k]].UrbId <= next

\* A URB that was not late is with the device it was submitted to.
Placed(u) ==
    urb[u].late \/ /\ urb[u].status # "lost"
                   /\ \A i \in Slots : Listed(u, i) => Active(i) /\ Id(i) = urb[u].device

\* A URB is pending exactly while it is on a list, and on one only.
OnOneList(u) ==
    /\ urb[u].status = "pending" <=> \E i \in Slots : Listed(u, i)
    /\ \A i, j \in Slots : Listed(u, i) /\ Listed(u, j) => i = j

\* URBs not yet submitted, and the one between lookup and insert, are on no list.
UrbInv ==
    /\ \A i \in Slots : IdsDrawn(dev[i].PendingUrbs, urb, dev[i].NextUrbId)
    /\ \A u \in Urbs : OnOneList(u) /\ Placed(u)
    /\ \A u \in Urbs : u > nextUrb => urb[u].status = "none"
    /\ found # NoLookup => urb[found.urb].status = "none"
    /\ NoneDropped => \A i \in Slots : dev[i].PendingUrbCount = Len(dev[i].PendingUrbs)

IInv == Types /\ OwnInv /\ UrbInv

----------------------------------------------------------------------------
(* The array of clients.                                                   *)

\* Sessions and their number.
LEMMA SessionFacts ==
    /\ 0 \notin Sessions /\ \A s \in Sessions : s \in 0..MaxSessions /\ s # 0
    /\ \A x \in 0..MaxSessions : x # 0 => x \in Sessions
    /\ IsFiniteSet(Live)
<1>1. 1 \in Int /\ MaxSessions \in Int /\ MaxSessions \in Nat
  BY UserspaceAssumption
<1>2. IsFiniteSet(Sessions)
  BY <1>1, FS_Interval DEF Sessions
<1>3. Live \in SUBSET Sessions
  BY DEF Live
<1>4. IsFiniteSet(Live)
  BY <1>2, <1>3, FS_Subset
<1>. QED
  BY <1>1, <1>4 DEF Sessions

\* Each live session has a slot of its own, so there are at most MaxClients.
LEMMA CountBound == ClientInv => ClientCount <= MaxClients
<1> SUFFICES ASSUME ClientInv PROVE ClientCount <= MaxClients
  OBVIOUS
<1> DEFINE slots == 1..MaxClients
           f == [s \in Live |-> CHOOSE i \in slots : Clients[i] = s]
<1>1. \A s \in Live : \E i \in slots : Clients[i] = s
  BY DEF ClientInv, ArrayHoldsLiveClients, Live
<1>2. \A s \in Live : f[s] \in slots /\ Clients[f[s]] = s
  BY <1>1
<1>3. f \in Injection(Live, slots)
  <2>1. f \in [Live -> slots]
    BY <1>2
  <2>2. \A s, t \in Live : f[s] = f[t] => s = t
    BY <1>2
  <2>. QED
    BY <2>1, <2>2 DEF Injection, IsInjective
<1>4. IsFiniteSet(slots) /\ Cardinality(slots) = MaxClients
  <2>1. 1 \in Int /\ MaxClients \in Int /\ 1 <= MaxClients
    BY UserspaceAssumption
  <2>. QED
    BY <2>1, FS_Interval
<1> HIDE DEF f, slots
<1>5. Cardinality(Live) <= MaxClients
  BY <1>3, <1>4, FS_Injection
<1>. QED
  BY <1>5 DEF ClientInv, ArrayHoldsLiveClients, Live

\* The thread of a live session goes on.
LEMMA PhaseMove ==
    ASSUME ClientInv, NEW s \in Sessions, NEW p \in Phases \ {"none", "freed"}, s \in Live,
           phase' = [phase EXCEPT ![s] = p], UNCHANGED <<Clients, ClientCount, NextSessionId>>
    PROVE  ClientInv'
<1>1. phase' \in [Sessions -> Phases] /\ Live' = Live
  BY DEF ClientInv, Live
<1>2. SessionsInOrder'
  BY DEF ClientInv, SessionsInOrder, Live
<1>3. ArrayHoldsLiveClients'
  BY <1>1 DEF ClientInv, ArrayHoldsLiveClients, Live
<1>. QED
  BY <1>1, <1>2, <1>3 DEF ClientInv

\* AcceptClient: the new session takes a NULL slot, or is turned away.
LEMMA AcceptStep == ASSUME ClientInv, AcceptClient PROVE ClientInv'
<1> DEFINE s == NextSessionId + 1
           slots == 1..MaxClients
<1>0. /\ phase \in [Sessions -> Phases] /\ Clients \in [slots -> 0..MaxSessions] /\ ClientCount \in Nat
      /\ SessionsInOrder /\ ArrayHoldsLiveClients /\ NextSessionId \in 0..MaxSessions
  BY DEF ClientInv
<1>1. /\ s \in Sessions /\ NextSessionId' = s /\ phase[s] = "none" /\ s # 0 /\ s \in 0..MaxSessions
      /\ \A t \in Sessions : t > s <=> t > NextSessionId /\ t # s
  BY <1>0, SessionFacts DEF AcceptClient, SessionsInOrder, Sessions
<1> HIDE DEF s, slots
<1>2. \A i \in slots : Clients[i] # s
  BY <1>0, <1>1 DEF ArrayHoldsLiveClients, slots
<1>3. CASE /\ phase' = [phase EXCEPT ![s] = "freed"] /\ UNCHANGED <<Clients, ClientCount>>
  <2>1. Live' = Live /\ phase' \in [Sessions -> Phases]
    BY <1>0, <1>1, <1>3 DEF Live, Phases
  <2>2. SessionsInOrder'
    BY <1>0, <1>1, <1>3 DEF SessionsInOrder
  <2>3. ArrayHoldsLiveClients'
    BY <1>0, <1>3, <2>1 DEF ArrayHoldsLiveClients, Live
  <2>. QED
    BY <1>0, <1>1, <1>3, <2>1, <2>2, <2>3 DEF ClientInv, slots
<1>4. ASSUME NEW i \in slots, Clients[i] = 0, Clients' = [Clients EXCEPT ![i] = s],
             ClientCount' = ClientCount + 1, phase' = [phase EXCEPT ![s] = "serving"]
      PROVE  ClientInv'
  <2>1. Live' = Live \cup {s} /\ s \notin Live /\ phase' \in [Sessions -> Phases]
    BY <1>0, <1>1, <1>4 DEF Live, Phases
  <2>2. SessionsInOrder'
    BY <1>0, <1>1, <1>4 DEF SessionsInOrder
  <2>3. Clients' \in [slots -> 0..MaxSessions]
    BY <1>0, <1>1, <1>4
  <2>4. ClientCount' = Cardinality(Live')
    <3>1. ClientCount = Cardinality(Live)
      BY <1>0 DEF ArrayHoldsLiveClients, Live
    <3>2. Cardinality(Live \cup {s}) = Cardinality(Live) + 1
      BY <2>1, SessionFacts, FS_AddElement
    <3>. QED
      BY <1>4, <2>1, <3>1, <3>2
  <2>5. \A t \in Sessions : t \in Live' <=> \E j \in slots : Clients'[j] = t
    <3>1. \A t \in Sessions : t \in Live <=> \E j \in slots : Clients[j] = t
      BY <1>0 DEF ArrayHoldsLiveClients, Live, slots
    <3>2. \A j \in slots : Clients'[j] = IF j = i THEN s ELSE Clients[j]
      BY <1>0, <1>4
    <3>. QED
      BY <1>1, <1>4, <2>1, <3>1, <3>2, SessionFacts
  <2>6. \A j, k \in slots : Clients'[j] = Clients'[k] /\ Clients'[j] # 0 => j = k
    BY <1>0, <1>1, <1>2, <1>4 DEF ArrayHoldsLiveClients, slots
  <2>7. ArrayHoldsLiveClients'
    BY <2>4, <2>5, <2>6 DEF ArrayHoldsLiveClients, Live, slots
  <2>. QED
    BY <1>0, <1>1, <1>4, <2>1, <2>2, <2>3, <2>7 DEF ClientInv, slots
<1>. QED
  BY <1>3, <1>4 DEF AcceptClient, s, slots

\* RemoveClient: the slot is emptied when the session ends.
LEMMA RemoveStep == ASSUME ClientInv, NEW s \in Sessions, RemoveClient(s) PROVE ClientInv'
<1> DEFINE slots == 1..MaxClients
<1>0. /\ phase \in [Sessions -> Phases] /\ Clients \in [slots -> 0..MaxSessions] /\ ClientCount \in Nat
      /\ SessionsInOrder /\ ArrayHoldsLiveClients /\ NextSessionId \in 0..MaxSessions
  BY DEF ClientInv
<1>1. /\ phase[s] = "closing" /\ phase' = [phase EXCEPT ![s] = "freed"] /\ ClientCount' = ClientCount - 1
      /\ Clients' = [i \in slots |-> IF Clients[i] = s THEN 0 ELSE Clients[i]]
      /\ NextSessionId' = NextSessionId
  BY DEF RemoveClient
<1> HIDE DEF slots
<1>2. Live' = Live \ {s} /\ s \in Live /\ phase' \in [Sessions -> Phases]
  BY <1>0, <1>1 DEF Live, Phases
<1>3. SessionsInOrder'
  BY <1>0, <1>1 DEF SessionsInOrder
<1>4. Clients' \in [slots -> 0..MaxSessions]
  BY <1>0, <1>1, UserspaceAssumption
<1>5. ClientCount' = Cardinality(Live') /\ ClientCount' \in Nat
  <2>1. ClientCount = Cardinality(Live)
    BY <1>0 DEF ArrayHoldsLiveClients, Live
  <2>2. IsFiniteSet(Live \ {s}) /\ Cardinality(Live \ {s}) = Cardinality(Live) - 1
    BY <1>2, SessionFacts, FS_RemoveElement
  <2>3. Cardinality(Live \ {s}) \in Nat
    BY <2>2, FS_CardinalityType
  <2>. QED
    BY <1>1, <1>2, <2>1, <2>2, <2>3
<1>6. \A t \in Sessions : t \in Live' <=> \E j \in slots : Clients'[j] = t
  <2>1. \A t \in Sessions : t \in Live <=> \E j \in slots : Clients[j] = t
    BY <1>0 DEF ArrayHoldsLiveClients, Live, slots
  <2>. QED
    BY <1>1, <1>2, <2>1, SessionFacts
<1>7. \A j, k \in slots : Clients'[j] = Clients'[k] /\ Clients'[j] # 0 => j = k
  BY <1>0, <1>1 DEF ArrayHoldsLiveClients, slots
<1>8. ArrayHoldsLiveClients'
  BY <1>5, <1>6, <1>7 DEF ArrayHoldsLiveClients, Live, slots
<1>. QED
  BY <1>0, <1>1, <1>2, <1>3, <1>4, <1>5, <1>8 DEF ClientInv, slots

\* Every step keeps the array and the list of live sessions in agreement.
LEMMA ClientStep == ASSUME ClientInv, Next PROVE ClientInv'
<1>1. CASE UNCHANGED <<Clients, ClientCount, NextSessionId, phase>>
  BY <1>1 DEF ClientInv, ArrayHoldsLiveClients, SessionsInOrder
<1>2. ASSUME NEW s \in Sessions,
             \/ VusbUsCreateDevice(s) \/ TrackDevice(s) \/ LeaveLoop(s) \/ CleanupClientDevices(s)
             \/ \E slot \in Slots : HandleDeviceDetach(s, slot)
             \/ \E own \in Slots, urbId \in Urbs : HandleUrbComplete(s, own, urbId)
      PROVE  ClientInv'
  <2>1. /\ UNCHANGED <<Clients, ClientCount, NextSessionId>>
        /\ s \in Live
        /\ \E p \in Phases \ {"none", "freed"} : phase' = [phase EXCEPT ![s] = p]
    BY <1>2 DEF VusbUsCreateDevice, TrackDevice, LeaveLoop, CleanupClientDevices, HandleDeviceDetach,
                HandleUrbComplete, AfterMessage, Live, Phases
  <2>. QED
    BY <2>1, PhaseMove
<1>3. CASE \E slot \in Slots : SubmitLookup(slot) \/ \E k \in Urbs : VusbUsCancelUrb(slot, k)
  BY <1>1, <1>3 DEF SubmitLookup, VusbUsCancelUrb, clientVars
<1>4. CASE \/ SubmitInsert \/ UseDeletedLock \/ VusbUsStop \/ LeaveAcceptLoop \/ CheckClient \/ WaitForThread
           \/ VusbUsCleanup
  BY <1>1, <1>4 DEF SubmitInsert, UseDeletedLock, VusbUsStop, LeaveAcceptLoop, CheckClient, WaitForThread, VusbUsCleanup,
                    clientVars
<1>. QED
  BY <1>2, <1>3, <1>4, AcceptStep, RemoveStep DEF Next

\* The shutdown loop stays within the array.
LEMMA RunStep == ASSUME ClientInv, RunInv, Next PROVE RunInv'
<1>1. CASE UNCHANGED <<runVars, told>>
  BY <1>1 DEF RunInv, runVars
<1>2. CASE UseDeletedLock \/ VusbUsStop \/ LeaveAcceptLoop \/ VusbUsCleanup
  BY <1>2 DEF RunInv, UseDeletedLock, VusbUsStop, LeaveAcceptLoop, VusbUsCleanup, clientVars
<1>3. CASE CheckClient
  <2>1. told' \subseteq Sessions
    BY <1>3, SessionFacts DEF RunInv, CheckClient, ClientInv
  <2>2. Running' \in BOOLEAN
    BY <1>3 DEF RunInv, CheckClient
  <2>3. /\ runpc' \in {"accept", "check", "wait", "cleaned", "crashed"} /\ waitSlot' \in 1..(MaxClients + 1)
        /\ runpc' = "wait" => waitSlot' <= MaxClients
    BY <1>3, UserspaceAssumption DEF RunInv, CheckClient
  <2>. QED
    BY <2>1, <2>2, <2>3 DEF RunInv
<1>4. CASE WaitForThread
  <2>1. told' \subseteq Sessions
    BY <1>4 DEF RunInv, WaitForThread, clientVars
  <2>2. Running' \in BOOLEAN
    BY <1>4 DEF RunInv, WaitForThread
  <2>3. /\ runpc' \in {"accept", "check", "wait", "cleaned", "crashed"} /\ waitSlot' \in 1..(MaxClients + 1)
        /\ runpc' # "wait"
    BY <1>4, UserspaceAssumption DEF RunInv, WaitForThread
  <2>. QED
    BY <2>1, <2>2, <2>3 DEF RunInv
<1>. QED
  BY <1>1, <1>2, <1>3, <1>4
     DEF Next, AcceptClient, VusbUsCreateDevice, TrackDevice, LeaveLoop, CleanupClientDevices,
         HandleDeviceDetach, HandleUrbComplete, RemoveClient, SubmitLookup, VusbUsCancelUrb, SubmitInsert,
         clientVars

----------------------------------------------------------------------------
(* Sequences.                                                              *)

\* What unlinking entry i, "*pUrb = urb->Next", leaves of a list.
LEMMA RemoveAtFacts ==
    ASSUME NEW S, NEW q \in Seq(S), NEW i \in 1..Len(q)
    PROVE  /\ RemoveAt(q, i) \in Seq(S)
           /\ Len(RemoveAt(q, i)) = Len(q) - 1
           /\ \A j \in 1..(Len(q) - 1) : RemoveAt(q, i)[j] = IF j < i THEN q[j] ELSE q[j + 1]
<1> DEFINE a == SubSeq(q, 1, i - 1)
           b == SubSeq(q, i + 1, Len(q))
<1>1. a \in Seq(S) /\ Len(a) = i - 1 /\ \A j \in 1..(i - 1) : a[j] = q[j]
  OBVIOUS
<1>2. b \in Seq(S) /\ Len(b) = Len(q) - i /\ \A j \in 1..(Len(q) - i) : b[j] = q[i + j]
  OBVIOUS
<1> HIDE DEF a, b
<1>3. RemoveAt(q, i) = a \o b
  BY DEF RemoveAt, a, b
<1>4. a \o b \in Seq(S) /\ Len(a \o b) = Len(a) + Len(b)
  BY <1>1, <1>2, ConcatProperties
<1>5. Len(a \o b) = Len(q) - 1
  BY <1>1, <1>2, <1>4
<1>6. ASSUME NEW j \in 1..(Len(q) - 1)
      PROVE  (a \o b)[j] = IF j < i THEN q[j] ELSE q[j + 1]
  <2>1. CASE j < i
    BY <1>1, <1>2, <2>1
  <2>2. CASE ~(j < i)
    <3>1. (a \o b)[j] = b[j - (i - 1)]
      BY <1>1, <1>2, <2>2
    <3>2. j - (i - 1) \in 1..(Len(q) - i) /\ i + (j - (i - 1)) = j + 1
      BY <2>2
    <3>. QED
      BY <1>2, <2>2, <3>1, <3>2
  <2>. QED
    BY <2>1, <2>2
<1>. QED
  BY <1>3, <1>4, <1>5, <1>6

\* Each entry that is left comes from one that was not i, and all of those are left.
LEMMA RemoveAtEntries ==
    ASSUME NEW S, NEW q \in Seq(S), NEW i \in 1..Len(q)
    PROVE  /\ \A j \in DOMAIN RemoveAt(q, i) : \E k \in 1..Len(q) : k # i /\ RemoveAt(q, i)[j] = q[k]
           /\ \A k \in 1..Len(q) : k # i => \E j \in DOMAIN RemoveAt(q, i) : RemoveAt(q, i)[j] = q[k]
           /\ \A j, l \in DOMAIN RemoveAt(q, i) : j # l =>
                 \E k, m \in 1..Len(q) : k # m /\ RemoveAt(q, i)[j] = q[k] /\ RemoveAt(q, i)[l] = q[m]
<1> DEFINE r == RemoveAt(q, i)
           n == Len(q)
<1>1. /\ r \in Seq(S) /\ Len(r) = n - 1 /\ n \in Nat
      /\ \A j \in 1..(n - 1) : r[j] = IF j < i THEN q[j] ELSE q[j + 1]
  BY RemoveAtFacts
<1>2. DOMAIN r = 1..(n - 1) /\ i \in 1..n
  BY <1>1
<1> HIDE DEF r, n
<1>3. ASSUME NEW j \in DOMAIN r PROVE \E k \in 1..n : k # i /\ r[j] = q[k] /\ k = IF j < i THEN j ELSE j + 1
  BY <1>1, <1>2, <1>3
<1>4. ASSUME NEW k \in 1..n, k # i PROVE \E j \in DOMAIN r : r[j] = q[k]
  <2>1. CASE k < i
    <3>1. k \in DOMAIN r
      BY <1>1, <1>2, <2>1
    <3>. QED
      BY <1>1, <1>2, <2>1, <3>1
  <2>2. CASE ~(k < i)
    <3>1. k - 1 \in DOMAIN r /\ ~(k - 1 < i) /\ (k - 1) + 1 = k
      BY <1>1, <1>2, <1>4, <2>2
    <3>. QED
      BY <1>1, <1>2, <3>1
  <2>. QED
    BY <2>1, <2>2
<1>5. ASSUME NEW j \in DOMAIN r, NEW l \in DOMAIN r, j # l
      PROVE  \E k, m \in 1..n : k # m /\ r[j] = q[k] /\ r[l] = q[m]
  <2>1. PICK k \in 1..n : r[j] = q[k] /\ k = IF j < i THEN j ELSE j + 1
    BY <1>3
  <2>2. PICK m \in 1..n : r[l] = q[m] /\ m = IF l < i THEN l ELSE l + 1
    BY <1>3
  <2>3. k # m
    BY <1>1, <1>2, <1>5, <2>1, <2>2
  <2>. QED
    BY <2>1, <2>2, <2>3
<1>. QED
  BY <1>3, <1>4, <1>5 DEF r, n

\* What "DeviceIds[i] = DeviceIds[--DeviceCount]" leaves.
LEMMA SwapRemoveFacts ==
    ASSUME NEW S, NEW q \in Seq(S), NEW i \in 1..Len(q)
    PROVE  /\ SwapRemove(q, i) \in Seq(S)
           /\ DOMAIN SwapRemove(q, i) = 1..(Len(q) - 1)
           /\ \A j \in 1..(Len(q) - 1) : SwapRemove(q, i)[j] = IF j = i THEN q[Len(q)] ELSE q[j]
<1> DEFINE n == Len(q)
           e == [q EXCEPT ![i] = q[n]]
<1>1. n \in Nat /\ n \in 1..n /\ q[n] \in S /\ DOMAIN q = 1..n
  OBVIOUS
<1>2. e \in [1..n -> S] /\ \A j \in 1..n : e[j] = IF j = i THEN q[n] ELSE q[j]
  BY <1>1
<1>3. e \in Seq(S) /\ Len(e) = n
  BY <1>1, <1>2, IsASeq, LenProperties
<1> HIDE DEF e
<1>4. /\ SubSeq(e, 1, n - 1) \in Seq(S) /\ Len(SubSeq(e, 1, n - 1)) = n - 1
      /\ \A j \in 1..(n - 1) : SubSeq(e, 1, n - 1)[j] = e[j]
  BY <1>1, <1>3
<1>5. SwapRemove(q, i) = SubSeq(e, 1, n - 1)
  BY DEF SwapRemove, e
<1>6. \A j \in 1..(n - 1) : j \in 1..n
  BY <1>1
<1>. QED
  BY <1>1, <1>2, <1>4, <1>5, <1>6

\* Entry i is gone and every other one is left, once.
LEMMA SwapRemoveEntries ==
    ASSUME NEW S, NEW q \in Seq(S), NEW i \in 1..Len(q), IsInjective(q)
    PROVE  /\ IsInjective(SwapRemove(q, i))
           /\ \A j \in DOMAIN SwapRemove(q, i) : \E k \in DOMAIN q : k # i /\ SwapRemove(q, i)[j] = q[k]
           /\ \A k \in DOMAIN q : k # i => \E j \in DOMAIN SwapRemove(q, i) : SwapRemove(q, i)[j] = q[k]
<1> DEFINE r == SwapRemove(q, i)
           n == Len(q)
<1>1. /\ DOMAIN r = 1..(n - 1) /\ n \in Nat /\ DOMAIN q = 1..n /\ i \in 1..n
      /\ \A j \in 1..(n - 1) : r[j] = IF j = i THEN q[n] ELSE q[j]
  BY SwapRemoveFacts
<1>2. \A j, k \in 1..n : q[j] = q[k] => j = k
  BY <1>1 DEF IsInjective
<1> HIDE DEF r, n
<1>3. \A j \in DOMAIN r : \E k \in 1..n : k # i /\ r[j] = q[k] /\ k = IF j = i THEN n ELSE j
  BY <1>1
<1>4. ASSUME NEW k \in 1..n, k # i PROVE \E j \in DOMAIN r : r[j] = q[k]
  <2>1. CASE k = n
    <3>1. i \in DOMAIN r
      BY <1>1, <1>4, <2>1
    <3>. QED
      BY <1>1, <2>1, <3>1
  <2>2. CASE k # n
    BY <1>1, <1>4, <2>2
  <2>. QED
    BY <2>1, <2>2
<1>5. IsInjective(r)
  BY <1>1, <1>2 DEF IsInjective
<1>. QED
  BY <1>1, <1>3, <1>4, <1>5 DEF r, n

----------------------------------------------------------------------------
(* Types and counters.                                                     *)

\* The steps of Next by what they touch: most leave devices and URBs alone.
LEMMA StepCases ==
    ASSUME Next
    PROVE  \/ UNCHANGED <<deviceVars, DeviceIds, attaching, urbVars>>
           \/ \E s \in Sessions : \/ VusbUsCreateDevice(s) \/ TrackDevice(s) \/ CleanupClientDevices(s)
                                  \/ \E slot \in Slots : HandleDeviceDetach(s, slot)
           \/ VusbUsCleanup \/ SubmitInsert \/ \E slot \in Slots : SubmitLookup(slot)
           \/ \E i \in Slots : \E k \in DOMAIN dev[i].PendingUrbs, by \in 0..MaxSessions :
                 VusbUsCompleteUrb(i, k, by) /\ UNCHANGED <<NextDeviceId, creator, DeviceIds, attaching, found>>
<1>1. CASE \/ AcceptClient \/ UseDeletedLock \/ VusbUsStop \/ LeaveAcceptLoop \/ CheckClient \/ WaitForThread
           \/ \E s \in Sessions : LeaveLoop(s) \/ RemoveClient(s)
  BY <1>1 DEF AcceptClient, UseDeletedLock, VusbUsStop, LeaveAcceptLoop, CheckClient, WaitForThread, LeaveLoop, RemoveClient,
              clientVars
<1>2. ASSUME NEW s \in Sessions, NEW own \in Slots, NEW urbId \in Urbs, HandleUrbComplete(s, own, urbId)
      PROVE  \E i \in Slots : \E k \in DOMAIN dev[i].PendingUrbs, by \in 0..MaxSessions :
                 VusbUsCompleteUrb(i, k, by) /\ UNCHANGED <<NextDeviceId, creator, DeviceIds, attaching, found>>
  <2>1. PICK i \in Slots : \E k \in DOMAIN dev[i].PendingUrbs : VusbUsCompleteUrb(i, k, s)
    BY <1>2 DEF HandleUrbComplete
  <2>2. UNCHANGED <<NextDeviceId, creator, DeviceIds, attaching, found>> /\ s \in 0..MaxSessions
    BY <1>2, SessionFacts DEF HandleUrbComplete
  <2>. QED
    BY <2>1, <2>2
<1>3. ASSUME NEW slot \in Slots, NEW k \in Urbs, VusbUsCancelUrb(slot, k)
      PROVE  \E i \in Slots : \E l \in DOMAIN dev[i].PendingUrbs, by \in 0..MaxSessions :
                 VusbUsCompleteUrb(i, l, by) /\ UNCHANGED <<NextDeviceId, creator, DeviceIds, attaching, found>>
  BY <1>3, UserspaceAssumption DEF VusbUsCancelUrb, clientVars
<1>. QED
  BY <1>1, <1>2, <1>3 DEF Next

\* Ids, the sessions' lists and attaching stay within their types.
LEMMA OwnTypesStep == ASSUME OwnTypes, OwnInv, Next PROVE OwnTypes'
<1>1. CASE UNCHANGED <<NextDeviceId, creator, DeviceIds, attaching>>
  BY <1>1 DEF OwnTypes
<1>2. ASSUME NEW s \in Sessions, VusbUsCreateDevice(s) PROVE OwnTypes'
  <2>1. /\ NextDeviceId' = NextDeviceId + 1 /\ NextDeviceId + 1 \in Ids /\ DeviceIds' = DeviceIds
        /\ creator' = [creator EXCEPT ![NextDeviceId + 1] = s]
        /\ attaching' = [attaching EXCEPT ![s] = NextDeviceId + 1]
    BY <1>2 DEF VusbUsCreateDevice
  <2>2. NextDeviceId + 1 \in 0..MaxCreates /\ s \in 0..MaxSessions
    BY <2>1, SessionFacts DEF Ids
  <2>. QED
    BY <2>1, <2>2 DEF OwnTypes
<1>3. ASSUME NEW s \in Sessions, TrackDevice(s) PROVE OwnTypes'
  <2>1. attaching[s] # 0
    BY <1>3 DEF TrackDevice, OwnInv, SessionLocals
  <2>2. attaching[s] \in Ids
    BY <2>1, UserspaceAssumption DEF OwnTypes, Ids
  <2>3. Append(DeviceIds[s], attaching[s]) \in Seq(Ids)
    BY <2>2 DEF OwnTypes
  <2>4. DeviceIds' = DeviceIds \/ DeviceIds' = [DeviceIds EXCEPT ![s] = Append(DeviceIds[s], attaching[s])]
    BY <1>3 DEF TrackDevice
  <2>5. DeviceIds' \in [Sessions -> Seq(Ids)]
    BY <2>3, <2>4 DEF OwnTypes
  <2>6. attaching' = [attaching EXCEPT ![s] = 0] /\ UNCHANGED <<NextDeviceId, creator>>
    BY <1>3 DEF TrackDevice
  <2>7. 0 \in 0..MaxCreates
    BY UserspaceAssumption
  <2>. QED
    BY <2>5, <2>6, <2>7 DEF OwnTypes
<1>4. ASSUME NEW s \in Sessions, NEW slot \in Slots, HandleDeviceDetach(s, slot) PROVE OwnTypes'
  <2>1. PICK i \in DOMAIN DeviceIds[s] : DeviceIds' = [DeviceIds EXCEPT ![s] = SwapRemove(DeviceIds[s], i)]
    BY <1>4 DEF HandleDeviceDetach
  <2>2. DeviceIds[s] \in Seq(Ids)
    BY DEF OwnTypes
  <2>3. i \in 1..Len(DeviceIds[s])
    BY <2>1, <2>2
  <2>4. SwapRemove(DeviceIds[s], i) \in Seq(Ids)
    BY <2>2, <2>3, SwapRemoveFacts
  <2>. QED
    BY <1>4, <2>1, <2>4 DEF OwnTypes, HandleDeviceDetach
<1>5. CASE VusbUsCleanup \/ SubmitInsert \/ \E slot \in Slots : SubmitLookup(slot)
  BY <1>1, <1>5 DEF VusbUsCleanup, SubmitInsert, SubmitLookup, clientVars, deviceVars
<1>6. ASSUME NEW s \in Sessions, CleanupClientDevices(s) PROVE OwnTypes'
  BY <1>1, <1>6 DEF CleanupClientDevices
<1>. QED
  BY <1>1, <1>2, <1>3, <1>4, <1>5, <1>6, StepCases DEF deviceVars

\* An empty slot is well typed.
LEMMA NoDeviceType ==
    /\ NoDevice \in DeviceType
    /\ Len(NoDevice.PendingUrbs) = 0 /\ NoDevice.PendingUrbCount = 0 /\ NoDevice.NextUrbId = 0
    /\ NoDevice.PendingUrbs = <<>> /\ NoDevice.DeviceId = 0 /\ NoDevice.OwnerClient = 0
    /\ \A id \in 0..MaxCreates :
               /\ [NoDevice EXCEPT !.DeviceId = id] \in DeviceType
               /\ [NoDevice EXCEPT !.DeviceId = id].DeviceId = id
               /\ [NoDevice EXCEPT !.DeviceId = id].OwnerClient = 0
               /\ [NoDevice EXCEPT !.DeviceId = id].PendingUrbs = <<>>
               /\ [NoDevice EXCEPT !.DeviceId = id].PendingUrbCount = 0
               /\ [NoDevice EXCEPT !.DeviceId = id].NextUrbId = 0
    /\ \A n \in 0..MaxUrbs :
               /\ [NoDevice EXCEPT !.NextUrbId = n] \in DeviceType
               /\ [NoDevice EXCEPT !.NextUrbId = n].DeviceId = 0
               /\ [NoDevice EXCEPT !.NextUrbId = n].OwnerClient = 0
               /\ [NoDevice EXCEPT !.NextUrbId = n].PendingUrbs = <<>>
               /\ [NoDevice EXCEPT !.NextUrbId = n].PendingUrbCount = 0
               /\ [NoDevice EXCEPT !.NextUrbId = n].NextUrbId = n
<1>1. <<>> \in Seq(Urbs) /\ Len(<<>>) = 0
  OBVIOUS
<1>2. 0 \in 0..MaxCreates /\ 0 \in 0..MaxSessions /\ 0 \in Nat /\ 0 \in 0..MaxUrbs
  BY UserspaceAssumption
<1>3. NoDevice \in DeviceType
  BY <1>1, <1>2 DEF NoDevice, DeviceType
<1>4. ASSUME NEW id \in 0..MaxCreates PROVE [NoDevice EXCEPT !.DeviceId = id] \in DeviceType
  BY <1>3 DEF DeviceType
<1>5. ASSUME NEW n \in 0..MaxUrbs PROVE [NoDevice EXCEPT !.NextUrbId = n] \in DeviceType
  BY <1>3 DEF DeviceType
<1>. QED
  BY <1>1, <1>3, <1>4, <1>5 DEF NoDevice

\* What is left of a URB that has ended.
LEMMA EndedFacts ==
    \A st \in {"completed", "freed", "lost"}, late, stray \in BOOLEAN :
        /\ Ended(st, late, stray) \in UrbType
        /\ Ended(st, late, stray).status = st /\ Ended(st, late, stray).late = late
<1>1. 0 \in 0..MaxCreates /\ 0 \in 0..MaxUrbs
  BY UserspaceAssumption
<1>. QED
  BY <1>1 DEF Ended, NoUrb, UrbType

\* The numbers of a slot are naturals.
LEMMA SlotNumbers ==
    UrbTypes => /\ nextUrb \in Nat /\ MaxUrbs \in Nat /\ nextUrb <= MaxUrbs
                /\ \A i \in Slots : /\ dev[i] \in DeviceType /\ dev[i].PendingUrbs \in Seq(Urbs)
                                    /\ Len(dev[i].PendingUrbs) \in Nat
                                    /\ dev[i].PendingUrbCount \in Nat /\ dev[i].NextUrbId \in Nat
BY UserspaceAssumption DEF UrbTypes, DeviceType

\* Zeroing slots keeps the types and the counters.
LEMMA CleanupTypes ==
    ASSUME UrbTypes, CountInv, NEW slots, CleanupDevices(slots), UNCHANGED <<nextUrb, found>>
    PROVE  UrbTypes' /\ CountInv'
<1>0. \A i \in Slots : dev[i].NextUrbId \in 0..MaxUrbs
  BY DEF UrbTypes, DeviceType
<1>1. /\ dev' \in [Slots -> DeviceType]
      /\ \A i \in Slots : \/ dev'[i] = dev[i]
                          \/ dev'[i].PendingUrbs = <<>> /\ dev'[i].PendingUrbCount = 0 /\ dev'[i].NextUrbId = dev[i].NextUrbId
  BY <1>0, NoDeviceType DEF UrbTypes, CleanupDevices
<1>2. urb' \in [Urbs -> UrbType]
  <2>1. \A u \in Urbs : urb[u].late \in BOOLEAN
    BY DEF UrbTypes, UrbType
  <2>. QED
    BY <2>1, EndedFacts DEF UrbTypes, CleanupDevices, EndListed
<1>3. CountInv'
  <2>1. Len(<<>>) = 0
    OBVIOUS
  <2>2. \A i \in Slots : Len(dev'[i].PendingUrbs) <= dev'[i].PendingUrbCount /\ dev'[i].PendingUrbCount <= dev'[i].NextUrbId
                         /\ dev'[i].NextUrbId = dev[i].NextUrbId
    BY <1>1, <2>1, SlotNumbers DEF CountInv
  <2>. QED
    BY <2>2 DEF CountInv
<1>. QED
  BY <1>1, <1>2, <1>3 DEF UrbTypes

\* VusbUsCreateDevice zeroes the slot it takes.
LEMMA CreateTypes ==
    ASSUME OwnTypes, UrbTypes, CountInv, NEW s \in Sessions, VusbUsCreateDevice(s)
    PROVE  UrbTypes' /\ CountInv'
<1>1. PICK i \in Slots : dev' = [dev EXCEPT ![i] = [NoDevice EXCEPT !.DeviceId = NextDeviceId + 1]]
  BY DEF VusbUsCreateDevice
<1>2. NextDeviceId + 1 \in 0..MaxCreates /\ nextUrb' = nextUrb /\ found' = found
  BY DEF VusbUsCreateDevice, Ids
<1>2a. urb' \in [Urbs -> UrbType]
  <2>1. PICK j \in Slots : urb' = EndListed({j}, "lost")
    BY DEF VusbUsCreateDevice
  <2>2. \A u \in Urbs : urb[u].late \in BOOLEAN
    BY DEF UrbTypes, UrbType
  <2>. QED
    BY <2>1, <2>2, EndedFacts DEF UrbTypes, EndListed
<1>3. dev' \in [Slots -> DeviceType]
  BY <1>1, <1>2, NoDeviceType DEF UrbTypes
<1>4. \A j \in Slots : \/ dev'[j] = dev[j]
                       \/ dev'[j].PendingUrbs = <<>> /\ dev'[j].PendingUrbCount = 0 /\ dev'[j].NextUrbId = 0
  BY <1>1, <1>2, NoDeviceType DEF UrbTypes
<1>5. CountInv'
  <2>1. Len(<<>>) = 0
    OBVIOUS
  <2>. QED
    BY <1>2, <1>4, <2>1, SlotNumbers DEF CountInv
<1>. QED
  BY <1>2, <1>2a, <1>3, <1>5 DEF UrbTypes

\* TrackDevice sets owner and remote id only.
LEMMA TrackKeeps ==
    ASSUME OwnTypes, UrbTypes, NEW s \in Sessions, TrackDevice(s)
    PROVE  /\ dev' \in [Slots -> DeviceType]
           /\ \A i \in Slots :
                /\ dev'[i].DeviceId = dev[i].DeviceId
                /\ dev'[i].PendingUrbs = dev[i].PendingUrbs
                /\ dev'[i].PendingUrbCount = dev[i].PendingUrbCount
                /\ dev'[i].NextUrbId = dev[i].NextUrbId
                /\ dev'[i].OwnerClient = IF dev[i].DeviceId = attaching[s] THEN s ELSE dev[i].OwnerClient
<1>1. PICK r \in RemoteIds(s) :
             dev' = [i \in Slots |->
                        IF dev[i].DeviceId = attaching[s]
                        THEN [dev[i] EXCEPT !.OwnerClient = s, !.RemoteDeviceId = r]
                        ELSE dev[i]]
  BY DEF TrackDevice
<1>2. r \in Nat
  <2>1. attaching[s] \in Nat
    BY UserspaceAssumption DEF OwnTypes
  <2>2. \A x \in Slots : x \in Nat
    BY UserspaceAssumption DEF Slots
  <2>. QED
    BY <2>1, <2>2 DEF RemoteIds
<1>3. s \in 0..MaxSessions
  BY SessionFacts
<1>4. ASSUME NEW i \in Slots
      PROVE  /\ dev'[i] \in DeviceType
             /\ dev'[i].DeviceId = dev[i].DeviceId
             /\ dev'[i].PendingUrbs = dev[i].PendingUrbs
             /\ dev'[i].PendingUrbCount = dev[i].PendingUrbCount
             /\ dev'[i].NextUrbId = dev[i].NextUrbId
             /\ dev'[i].OwnerClient = IF dev[i].DeviceId = attaching[s] THEN s ELSE dev[i].OwnerClient
  <2>1. dev[i] \in DeviceType
    BY DEF UrbTypes
  <2>2. dev'[i] = IF dev[i].DeviceId = attaching[s]
                  THEN [dev[i] EXCEPT !.OwnerClient = s, !.RemoteDeviceId = r] ELSE dev[i]
    BY <1>1
  <2>. QED
    BY <1>2, <1>3, <2>1, <2>2 DEF DeviceType
<1>. QED
  BY <1>1, <1>4

\* The record VusbUsSubmitUrb leaves in a slot.
LEMMA PushFacts ==
    ASSUME NEW d \in DeviceType, NEW u \in Urbs, d.PendingUrbCount + 1 <= MaxUrbs, d.NextUrbId + 1 <= MaxUrbs
    PROVE  /\ Push(d, u) \in DeviceType
           /\ Push(d, u).DeviceId = d.DeviceId /\ Push(d, u).OwnerClient = d.OwnerClient
           /\ Push(d, u).PendingUrbs = <<u>> \o d.PendingUrbs
           /\ Len(Push(d, u).PendingUrbs) = Len(d.PendingUrbs) + 1
           /\ Push(d, u).PendingUrbCount = d.PendingUrbCount + 1
           /\ Push(d, u).NextUrbId = d.NextUrbId + 1
<1>1. <<u>> \in Seq(Urbs) /\ Len(<<u>>) = 1 /\ d.PendingUrbs \in Seq(Urbs)
  BY DEF DeviceType
<1>2. <<u>> \o d.PendingUrbs \in Seq(Urbs) /\ Len(<<u>> \o d.PendingUrbs) = Len(d.PendingUrbs) + 1
  BY <1>1
<1>3. d.PendingUrbCount + 1 \in 0..MaxUrbs /\ d.NextUrbId + 1 \in 0..MaxUrbs
  BY UserspaceAssumption DEF DeviceType
<1>4. /\ Push(d, u).DeviceId = d.DeviceId /\ Push(d, u).OwnerClient = d.OwnerClient
      /\ Push(d, u).PendingUrbs = <<u>> \o d.PendingUrbs
      /\ Push(d, u).PendingUrbCount = d.PendingUrbCount + 1
      /\ Push(d, u).NextUrbId = d.NextUrbId + 1
  BY DEF Push, DeviceType
<1>5. Push(d, u) \in DeviceType
  BY <1>2, <1>3 DEF Push, DeviceType
<1>. QED
  BY <1>2, <1>4, <1>5

\* VusbUsSubmitUrb, both halves.
LEMMA SubmitTypes ==
    ASSUME OwnTypes, UrbTypes, CountInv, SubmitInsert \/ \E slot \in Slots : SubmitLookup(slot)
    PROVE  UrbTypes' /\ CountInv'
<1>0. urb \in [Urbs -> UrbType] /\ nextUrb \in 0..MaxUrbs /\ dev \in [Slots -> DeviceType]
  BY DEF UrbTypes
<1>1. ASSUME NEW slot \in Slots, SubmitLookup(slot) PROVE UrbTypes' /\ CountInv'
  <2>1. /\ nextUrb' = nextUrb + 1 /\ nextUrb + 1 \in 0..MaxUrbs /\ nextUrb + 1 \in Urbs /\ dev' = dev
        /\ found' = [urb |-> nextUrb + 1, slot |-> slot] /\ found = NoLookup
    BY <1>0, <1>1, UserspaceAssumption DEF SubmitLookup, deviceVars, Urbs
  <2>2. urb' = [urb EXCEPT ![nextUrb + 1].device = dev[slot].DeviceId] /\ dev[slot].DeviceId \in 0..MaxCreates
    BY <1>0, <1>1 DEF SubmitLookup, DeviceType
  <2>3. urb' \in [Urbs -> UrbType]
    BY <1>0, <2>1, <2>2 DEF UrbType
  <2>4. found' \in [urb: 0..MaxUrbs, slot: 0..MaxDevices] /\ found' # NoLookup
        /\ found'.urb = nextUrb + 1 /\ found'.slot = slot
    BY <2>1, UserspaceAssumption DEF Slots, NoLookup
  <2>5. CountInv'
    <3>1. \A i \in Slots : /\ Len(dev[i].PendingUrbs) <= dev[i].PendingUrbCount
                           /\ dev[i].PendingUrbCount <= dev[i].NextUrbId /\ dev[i].NextUrbId < nextUrb + 1
      BY <2>1, SlotNumbers DEF CountInv
    <3>2. nextUrb + 1 \in 1..(nextUrb + 1)
      BY SlotNumbers
    <3>. QED
      BY <2>1, <2>4, <3>1, <3>2 DEF CountInv
  <2>. QED
    BY <1>0, <2>1, <2>3, <2>4, <2>5 DEF UrbTypes
<1>2. CASE SubmitInsert
  <2> DEFINE i == found.slot
             u == found.urb
  <2>0. i \in Slots /\ u \in 1..nextUrb /\ found' = NoLookup /\ nextUrb' = nextUrb
    BY <1>2 DEF SubmitInsert, CountInv
  <2>1. i \in Slots /\ u \in 1..nextUrb /\ u \in Urbs /\ found' = NoLookup /\ nextUrb' = nextUrb
    BY <2>0, SlotNumbers DEF Urbs
  <2>2. \A j \in Slots : /\ Len(dev[j].PendingUrbs) <= dev[j].PendingUrbCount
                         /\ dev[j].PendingUrbCount <= dev[j].NextUrbId /\ dev[j].NextUrbId < nextUrb
    BY <1>2 DEF SubmitInsert, CountInv
  <2>3. /\ dev[i] \in DeviceType /\ dev[i].PendingUrbCount + 1 <= MaxUrbs /\ dev[i].NextUrbId + 1 <= MaxUrbs
        /\ dev[i].NextUrbId + 1 \in 0..MaxUrbs
    BY <2>1, <2>2, SlotNumbers
  <2>4. found' \in [urb: 0..MaxUrbs, slot: 0..MaxDevices]
    BY <2>1, UserspaceAssumption DEF NoLookup
  <2>5. urb' \in [Urbs -> UrbType]
    <3>1. PICK late \in BOOLEAN : late = ~(Active(i) /\ dev[i].DeviceId = urb[u].device)
      OBVIOUS
    <3>2. urb' = [urb EXCEPT ![u].status = "pending", ![u].UrbId = dev[i].NextUrbId + 1, ![u].late = late]
      BY <1>2, <3>1 DEF SubmitInsert
    <3>. QED
      BY <1>0, <2>1, <2>3, <3>2 DEF UrbType
  <2>7. dev' = [dev EXCEPT ![i] = Push(dev[i], u)]
    BY <1>2 DEF SubmitInsert
  <2>. QED
    <3> HIDE DEF i, u
    <3>1. dev' \in [Slots -> DeviceType]
      BY <1>0, <2>1, <2>3, <2>7, PushFacts
    <3>2. /\ Len(dev'[i].PendingUrbs) = Len(dev[i].PendingUrbs) + 1
          /\ dev'[i].PendingUrbCount = dev[i].PendingUrbCount + 1
          /\ dev'[i].NextUrbId = dev[i].NextUrbId + 1
      BY <1>0, <2>1, <2>3, <2>7, PushFacts
    <3>3. \A j \in Slots : j # i => dev'[j] = dev[j]
      BY <1>0, <2>7
    <3>5. ASSUME NEW j \in Slots
          PROVE  /\ Len(dev'[j].PendingUrbs) <= dev'[j].PendingUrbCount
                 /\ dev'[j].PendingUrbCount <= dev'[j].NextUrbId /\ dev'[j].NextUrbId <= nextUrb
      <4>1. CASE j = i
        <5>1. /\ Len(dev[i].PendingUrbs) \in Nat /\ dev[i].PendingUrbCount \in Nat /\ dev[i].NextUrbId \in Nat
              /\ nextUrb \in Nat
          BY <2>1, SlotNumbers
        <5>2. /\ Len(dev[i].PendingUrbs) <= dev[i].PendingUrbCount
              /\ dev[i].PendingUrbCount <= dev[i].NextUrbId /\ dev[i].NextUrbId < nextUrb
          BY <2>1, <2>2
        <5>. QED
          BY <3>2, <4>1, <5>1, <5>2
      <4>2. CASE j # i
        BY <2>2, <3>3, <4>2, SlotNumbers
      <4>. QED
        BY <4>1, <4>2
    <3>. QED
      BY <1>0, <2>1, <2>4, <2>5, <3>1, <3>5 DEF UrbTypes, CountInv
<1>. QED
  BY <1>1, <1>2

\* What is left of a completed URB.
LEMMA CompletedFacts ==
    ASSUME UrbTypes, NEW u \in Urbs, NEW s
    PROVE  Completed(u, s) \in UrbType /\ Completed(u, s).status = "completed" /\ Completed(u, s).late = urb[u].late
<1>1. urb[u].late \in BOOLEAN
  BY DEF UrbTypes, UrbType
<1>2. PICK stray \in BOOLEAN : stray = (s # 0 /\ s # creator[urb[u].device])
  OBVIOUS
<1>. QED
  BY <1>1, <1>2, EndedFacts DEF Completed

\* VusbUsCompleteUrb without a callback that submits: the URB leaves the list.
LEMMA CompleteFacts ==
    ASSUME UrbTypes, CountInv, NEW i \in Slots, NEW k \in DOMAIN dev[i].PendingUrbs, NEW by \in 0..MaxSessions,
           CompleteUrb(i, k, by)
    PROVE  /\ dev' \in [Slots -> DeviceType]
           /\ dev'[i].DeviceId = dev[i].DeviceId /\ dev'[i].OwnerClient = dev[i].OwnerClient
           /\ dev'[i].PendingUrbs = RemoveAt(dev[i].PendingUrbs, k)
           /\ dev'[i].PendingUrbCount = dev[i].PendingUrbCount - 1 /\ dev'[i].NextUrbId = dev[i].NextUrbId
           /\ Len(dev'[i].PendingUrbs) = Len(dev[i].PendingUrbs) - 1
           /\ k \in 1..Len(dev[i].PendingUrbs)
           /\ \A j \in Slots : j # i => dev'[j] = dev[j]
           /\ urb' = [urb EXCEPT ![dev[i].PendingUrbs[k]] = Completed(dev[i].PendingUrbs[k], by)]
           /\ dev[i].PendingUrbs[k] \in Urbs
           /\ urb' \in [Urbs -> UrbType]
           /\ nextUrb' = nextUrb
<1> DEFINE q == dev[i].PendingUrbs
           d == dev[i]
<1>1. /\ d \in DeviceType /\ q \in Seq(Urbs) /\ k \in 1..Len(q) /\ q[k] \in Urbs /\ Len(q) \in Nat
      /\ d.PendingUrbCount \in 0..MaxUrbs /\ Len(q) <= d.PendingUrbCount
  <2>1. d \in DeviceType /\ q \in Seq(Urbs) /\ Len(q) \in Nat /\ d.PendingUrbCount \in 0..MaxUrbs
    BY SlotNumbers DEF DeviceType
  <2>2. k \in 1..Len(q) /\ q[k] \in Urbs
    BY <2>1
  <2>. QED
    BY <2>1, <2>2 DEF CountInv
<1>2. RemoveAt(q, k) \in Seq(Urbs) /\ Len(RemoveAt(q, k)) = Len(q) - 1
  BY <1>1, RemoveAtFacts
<1>3. d.PendingUrbCount - 1 \in 0..MaxUrbs
  <2>1. MaxUrbs \in Nat /\ 1 <= Len(q)
    BY <1>1, SlotNumbers
  <2>2. PICK m : m = d.PendingUrbCount
    OBVIOUS
  <2>3. PICK n : n = Len(q)
    OBVIOUS
  <2>. QED
    BY <1>1, <2>1, <2>2, <2>3
<1>4. /\ dev' = [dev EXCEPT ![i].PendingUrbs = RemoveAt(q, k), ![i].PendingUrbCount = d.PendingUrbCount - 1]
      /\ urb' = [urb EXCEPT ![q[k]] = Completed(q[k], by)]
      /\ nextUrb' = nextUrb
  BY DEF CompleteUrb, UrbTypes
<1>5. dev' = [dev EXCEPT ![i] = [d EXCEPT !.PendingUrbs = RemoveAt(q, k), !.PendingUrbCount = d.PendingUrbCount - 1]]
  BY <1>4 DEF UrbTypes
<1> DEFINE e == [d EXCEPT !.PendingUrbs = RemoveAt(q, k), !.PendingUrbCount = d.PendingUrbCount - 1]
<1>6. /\ e \in DeviceType /\ e.DeviceId = d.DeviceId /\ e.OwnerClient = d.OwnerClient
      /\ e.PendingUrbs = RemoveAt(q, k) /\ e.PendingUrbCount = d.PendingUrbCount - 1 /\ e.NextUrbId = d.NextUrbId
  BY <1>1, <1>2, <1>3 DEF DeviceType
<1>7. dev'[i] = e /\ (\A j \in Slots : j # i => dev'[j] = dev[j]) /\ dev \in [Slots -> DeviceType]
  BY <1>5 DEF UrbTypes
<1>8. dev' \in [Slots -> DeviceType]
  BY <1>5, <1>6, <1>7
<1>9. urb' \in [Urbs -> UrbType]
  BY <1>1, <1>4, CompletedFacts DEF UrbTypes
<1>. QED
  BY <1>1, <1>2, <1>4, <1>6, <1>7, <1>8, <1>9

\* The URB that the callback submits.
Resubmitted(i, k) ==
    [NoUrb EXCEPT !.device = dev[i].DeviceId, !.UrbId = dev[i].NextUrbId + 1,
                  !.status = IF k = 1 THEN "dropped" ELSE "pending"]

\* ... and with one that does: its URB has the next number of the slot.
LEMMA ResubmitFacts ==
    ASSUME UrbTypes, CountInv, NEW i \in Slots, NEW k \in DOMAIN dev[i].PendingUrbs, NEW by \in 0..MaxSessions,
           CompleteAndResubmit(i, k, by)
    PROVE  /\ dev' \in [Slots -> DeviceType]
           /\ dev'[i].DeviceId = dev[i].DeviceId /\ dev'[i].OwnerClient = dev[i].OwnerClient
           /\ dev'[i].PendingUrbCount = dev[i].PendingUrbCount /\ dev'[i].NextUrbId = dev[i].NextUrbId + 1
           /\ Len(dev'[i].PendingUrbs) <= Len(dev[i].PendingUrbs)
           /\ dev'[i].PendingUrbs = IF k = 1 THEN RemoveAt(dev[i].PendingUrbs, k)
                                    ELSE <<nextUrb + 1>> \o RemoveAt(dev[i].PendingUrbs, k)
           /\ k # 1 => Len(dev'[i].PendingUrbs) = Len(dev[i].PendingUrbs)
           /\ k \in 1..Len(dev[i].PendingUrbs) /\ dev[i].PendingUrbs[k] \in Urbs /\ nextUrb + 1 \in Urbs
           /\ RemoveAt(dev[i].PendingUrbs, k) \in Seq(Urbs)
           /\ \A j \in Slots : j # i => dev'[j] = dev[j]
           /\ urb' = [urb EXCEPT ![dev[i].PendingUrbs[k]] = Completed(dev[i].PendingUrbs[k], by),
                                 ![nextUrb + 1] = Resubmitted(i, k)]
           /\ Resubmitted(i, k) \in UrbType
           /\ urb' \in [Urbs -> UrbType]
           /\ nextUrb' = nextUrb + 1
<1> DEFINE q == dev[i].PendingUrbs
           d == dev[i]
           new == nextUrb + 1
           rest == IF k = 1 THEN RemoveAt(q, k) ELSE <<new>> \o RemoveAt(q, k)
           U == Resubmitted(i, k)
<1>1. /\ d \in DeviceType /\ q \in Seq(Urbs) /\ k \in 1..Len(q) /\ q[k] \in Urbs /\ Len(q) \in Nat
      /\ d.NextUrbId \in Nat /\ d.DeviceId \in 0..MaxCreates
  <2>1. d \in DeviceType /\ q \in Seq(Urbs) /\ Len(q) \in Nat /\ d.NextUrbId \in Nat /\ d.DeviceId \in 0..MaxCreates
    BY SlotNumbers DEF DeviceType
  <2>2. k \in 1..Len(q) /\ q[k] \in Urbs
    BY <2>1
  <2>. QED
    BY <2>1, <2>2
<1>2. RemoveAt(q, k) \in Seq(Urbs) /\ Len(RemoveAt(q, k)) = Len(q) - 1
  BY <1>1, RemoveAtFacts
<1>3. new \in Urbs /\ nextUrb < MaxUrbs
  BY SlotNumbers DEF Urbs, CompleteAndResubmit
<1>3a. d.NextUrbId <= nextUrb
  BY <1>1, SlotNumbers DEF CountInv
<1>3b. d.NextUrbId + 1 \in 0..MaxUrbs
  <2>1. PICK m : m = d.NextUrbId
    OBVIOUS
  <2>. QED
    BY <1>1, <1>3, <1>3a, <2>1, SlotNumbers
<1>4. rest \in Seq(Urbs) /\ Len(rest) <= Len(q) /\ (k # 1 => Len(rest) = Len(q))
  <2>1. <<new>> \in Seq(Urbs) /\ Len(<<new>>) = 1
    BY <1>3
  <2>2. <<new>> \o RemoveAt(q, k) \in Seq(Urbs) /\ Len(<<new>> \o RemoveAt(q, k)) = Len(q)
    BY <1>1, <1>2, <2>1, ConcatProperties
  <2>. QED
    BY <1>1, <1>2, <2>2
<1>5. /\ dev' = [dev EXCEPT ![i].PendingUrbs = rest, ![i].NextUrbId = d.NextUrbId + 1]
      /\ urb' = [urb EXCEPT ![q[k]] = Completed(q[k], by), ![new] = U]
      /\ nextUrb' = new
  BY DEF CompleteAndResubmit, Resubmitted, UrbTypes
<1>5a. rest = IF k = 1 THEN RemoveAt(q, k) ELSE <<new>> \o RemoveAt(q, k)
  OBVIOUS
<1> HIDE DEF rest
<1>6. dev' = [dev EXCEPT ![i] = [d EXCEPT !.PendingUrbs = rest, !.NextUrbId = d.NextUrbId + 1]]
  BY <1>5 DEF UrbTypes
<1> DEFINE e == [d EXCEPT !.PendingUrbs = rest, !.NextUrbId = d.NextUrbId + 1]
<1>7. /\ e \in DeviceType /\ e.DeviceId = d.DeviceId /\ e.OwnerClient = d.OwnerClient
      /\ e.PendingUrbs = rest /\ e.PendingUrbCount = d.PendingUrbCount /\ e.NextUrbId = d.NextUrbId + 1
  BY <1>1, <1>3b, <1>4 DEF DeviceType
<1>8. dev'[i] = e /\ (\A j \in Slots : j # i => dev'[j] = dev[j]) /\ dev \in [Slots -> DeviceType]
  BY <1>6 DEF UrbTypes
<1>9. dev' \in [Slots -> DeviceType]
  BY <1>6, <1>7, <1>8
<1>11. U \in UrbType
  BY <1>1, <1>3b, UserspaceAssumption DEF Resubmitted, NoUrb, UrbType
<1>10. urb' \in [Urbs -> UrbType]
  <2>1. U \in UrbType
    BY <1>11
  <2>2. urb \in [Urbs -> UrbType]
    BY DEF UrbTypes
  <2> HIDE DEF U
  <2>. QED
    BY <1>1, <1>3, <1>5, <2>1, <2>2, CompletedFacts
<1>. QED
  BY <1>1, <1>2, <1>3, <1>4, <1>5, <1>5a, <1>7, <1>8, <1>9, <1>10, <1>11

\* Completion keeps types and counters.
LEMMA CompleteTypes ==
    ASSUME UrbTypes, CountInv, NEW i \in Slots, NEW k \in DOMAIN dev[i].PendingUrbs, NEW by \in 0..MaxSessions,
           VusbUsCompleteUrb(i, k, by), UNCHANGED found
    PROVE  UrbTypes' /\ CountInv'
<1> DEFINE OK(j, n) == /\ Len(dev[j].PendingUrbs) <= dev[j].PendingUrbCount
                       /\ dev[j].PendingUrbCount <= dev[j].NextUrbId
                       /\ IF found = NoLookup THEN dev[j].NextUrbId <= n ELSE dev[j].NextUrbId < n
<1>0. \A j \in Slots : OK(j, nextUrb)
  BY DEF CountInv
<1>1. /\ found # NoLookup => found.urb \in 1..nextUrb /\ found.slot \in Slots
      /\ \A x \in 1..nextUrb : x \in 1..(nextUrb + 1)
  BY SlotNumbers DEF CountInv
<1>n. /\ nextUrb \in Nat
      /\ \A j \in Slots : /\ Len(dev[j].PendingUrbs) \in Nat
                          /\ dev[j].PendingUrbCount \in Nat /\ dev[j].NextUrbId \in Nat
  BY SlotNumbers
<1>2. CASE CompleteUrb(i, k, by)
  <2>1. /\ dev' \in [Slots -> DeviceType]
        /\ dev'[i].PendingUrbCount = dev[i].PendingUrbCount - 1 /\ dev'[i].NextUrbId = dev[i].NextUrbId
        /\ Len(dev'[i].PendingUrbs) = Len(dev[i].PendingUrbs) - 1
        /\ \A j \in Slots : j # i => dev'[j] = dev[j]
        /\ urb' \in [Urbs -> UrbType]
        /\ nextUrb' = nextUrb
    BY <1>2, CompleteFacts
  <2>3. ASSUME NEW j \in Slots
        PROVE  /\ Len(dev'[j].PendingUrbs) <= dev'[j].PendingUrbCount
               /\ dev'[j].PendingUrbCount <= dev'[j].NextUrbId
               /\ dev'[j].NextUrbId = dev[j].NextUrbId
    <3>0. OK(j, nextUrb) /\ Len(dev[j].PendingUrbs) \in Nat /\ dev[j].PendingUrbCount \in Nat
          /\ dev[j].NextUrbId \in Nat /\ nextUrb \in Nat
      BY <1>0, <1>n
    <3>1. CASE j = i
      BY <2>1, <3>0, <3>1
    <3>2. CASE j # i
      <4>1. dev'[j] = dev[j]
        BY <2>1, <3>2
      <4>. QED
        BY <3>0, <4>1
    <3>. QED
      BY <3>1, <3>2
  <2>. QED
    BY <1>0, <1>1, <2>1, <2>3 DEF UrbTypes, CountInv
<1>3. CASE CompleteAndResubmit(i, k, by)
  <2>1. /\ dev' \in [Slots -> DeviceType]
        /\ dev'[i].PendingUrbCount = dev[i].PendingUrbCount /\ dev'[i].NextUrbId = dev[i].NextUrbId + 1
        /\ Len(dev'[i].PendingUrbs) <= Len(dev[i].PendingUrbs)
        /\ \A j \in Slots : j # i => dev'[j] = dev[j]
        /\ urb' \in [Urbs -> UrbType]
        /\ nextUrb' = nextUrb + 1
    BY <1>3, ResubmitFacts
  <2>2. (\A j \in Slots : Len(dev[j].PendingUrbs) \in Nat)'
    BY <2>1 DEF DeviceType
  <2>3. ASSUME NEW j \in Slots
        PROVE  /\ Len(dev'[j].PendingUrbs) <= dev'[j].PendingUrbCount
               /\ dev'[j].PendingUrbCount <= dev'[j].NextUrbId
               /\ IF found = NoLookup THEN dev'[j].NextUrbId <= nextUrb + 1 ELSE dev'[j].NextUrbId < nextUrb + 1
    <3>0. OK(j, nextUrb) /\ Len(dev[j].PendingUrbs) \in Nat /\ dev[j].PendingUrbCount \in Nat
          /\ dev[j].NextUrbId \in Nat /\ nextUrb \in Nat /\ Len(dev'[j].PendingUrbs) \in Nat
      BY <1>0, <1>n, <2>2
    <3>1. CASE j = i
      BY <2>1, <3>0, <3>1
    <3>2. CASE j # i
      <4>1. dev'[j] = dev[j]
        BY <2>1, <3>2
      <4>. QED
        BY <3>0, <4>1
    <3>. QED
      BY <3>1, <3>2
  <2>4. nextUrb + 1 \in 0..MaxUrbs
    BY <1>3, SlotNumbers DEF CompleteAndResubmit
  <2>. QED
    BY <1>1, <2>1, <2>3, <2>4 DEF UrbTypes, CountInv
<1>. QED
  BY <1>2, <1>3 DEF VusbUsCompleteUrb

\* Every step keeps the types of devices and URBs, and the counters in bounds.
LEMMA UrbTypesStep == ASSUME OwnTypes, UrbTypes, CountInv, Next PROVE UrbTypes' /\ CountInv'
<1>1. CASE UNCHANGED <<deviceVars, DeviceIds, attaching, urbVars>>
  BY <1>1 DEF UrbTypes, CountInv, deviceVars, urbVars
<1>2. ASSUME NEW s \in Sessions, VusbUsCreateDevice(s) PROVE UrbTypes' /\ CountInv'
  BY <1>2, CreateTypes
<1>3. ASSUME NEW s \in Sessions, TrackDevice(s) PROVE UrbTypes' /\ CountInv'
  <2>1. UNCHANGED <<urb, nextUrb, found>>
    BY <1>3 DEF TrackDevice, urbVars
  <2>2. UrbTypes'
    BY <1>3, <2>1, TrackKeeps DEF UrbTypes
  <2>3. \A i \in Slots : /\ dev'[i].PendingUrbs = dev[i].PendingUrbs
                         /\ dev'[i].PendingUrbCount = dev[i].PendingUrbCount
                         /\ dev'[i].NextUrbId = dev[i].NextUrbId
    BY <1>3, TrackKeeps
  <2>. QED
    BY <2>1, <2>2, <2>3 DEF CountInv
<1>4. ASSUME NEW s \in Sessions, CleanupClientDevices(s) \/ \E slot \in Slots : HandleDeviceDetach(s, slot)
      PROVE  UrbTypes' /\ CountInv'
  BY <1>4, CleanupTypes DEF CleanupClientDevices, HandleDeviceDetach
<1>5. CASE VusbUsCleanup
  BY <1>5, CleanupTypes DEF VusbUsCleanup
<1>6. CASE SubmitInsert \/ \E slot \in Slots : SubmitLookup(slot)
  BY <1>6, SubmitTypes
<1>7. ASSUME NEW i \in Slots, NEW k \in DOMAIN dev[i].PendingUrbs, NEW by \in 0..MaxSessions,
             VusbUsCompleteUrb(i, k, by), UNCHANGED found
      PROVE  UrbTypes' /\ CountInv'
  BY <1>7, CompleteTypes
<1>. QED
  BY <1>1, <1>2, <1>3, <1>4, <1>5, <1>6, <1>7, StepCases

----------------------------------------------------------------------------
(* The ownership of devices.                                               *)

\* The id of an active device, and the ids a session tracks.
LEMMA OwnIds ==
    OwnTypes /\ UrbTypes =>
        /\ \A i \in Slots : Active(i) <=> Id(i) \in Ids
        /\ \A t \in Sessions : /\ DeviceIds[t] \in Seq(Ids)
                               /\ DOMAIN DeviceIds[t] = 1..Len(DeviceIds[t])
                               /\ \A k \in DOMAIN DeviceIds[t] : DeviceIds[t][k] \in Ids
<1> SUFFICES ASSUME OwnTypes, UrbTypes
             PROVE  /\ \A i \in Slots : Active(i) <=> Id(i) \in Ids
                    /\ \A t \in Sessions : /\ DeviceIds[t] \in Seq(Ids)
                                           /\ DOMAIN DeviceIds[t] = 1..Len(DeviceIds[t])
                                           /\ \A k \in DOMAIN DeviceIds[t] : DeviceIds[t][k] \in Ids
  OBVIOUS
<1>1. \A i \in Slots : Id(i) \in 0..MaxCreates
  BY DEF UrbTypes, DeviceType, Id
<1>2. \A i \in Slots : Active(i) <=> Id(i) \in Ids
  BY <1>1, UserspaceAssumption DEF Active, Id, Ids
<1>3. \A t \in Sessions : DeviceIds[t] \in Seq(Ids)
  BY DEF OwnTypes
<1>. QED
  BY <1>2, <1>3

\* A step that moves no device and ends no thread keeps the ownership.
LEMMA OwnQuiet ==
    ASSUME OwnInv, Alive, UNCHANGED <<NextDeviceId, creator, DeviceIds, attaching>>,
           \A i \in Slots : dev'[i].DeviceId = dev[i].DeviceId /\ dev'[i].OwnerClient = dev[i].OwnerClient,
           \A s \in Sessions : /\ phase'[s] = "created" <=> phase[s] = "created"
                               /\ phase'[s] = "none" => phase[s] = "none"
                               /\ Working(s) => Working(s)'
                               /\ Working(s)' => Working(s) \/ phase[s] = "none"
    PROVE  OwnInv'
<1>1. IdsUnique /\ SessionLocals /\ ClaimedIsOwned /\ ActiveIsClaimed
  BY DEF OwnInv
<1>2. IdsUnique'
  BY <1>1 DEF IdsUnique, Id, Active
<1>3. \A s \in Sessions : phase[s] = "none" => DeviceIds[s] = <<>> /\ IsInjective(DeviceIds[s])
  BY <1>1 DEF SessionLocals, IsInjective
<1>4. \A s \in Sessions, id \in Ids : Tracks(s, id)' <=> Tracks(s, id)
  BY DEF Tracks
<1>5. \A s \in Sessions, id \in Ids : Claimed(s, id)' <=> Claimed(s, id)
  BY <1>3 DEF Claimed, Tracks, Working
<1>6. SessionLocals'
  BY <1>1, <1>3 DEF SessionLocals, Tracks
<1>7. ClaimedIsOwned'
  BY <1>1, <1>4, <1>5 DEF ClaimedIsOwned, Id
<1>8. ActiveIsClaimed'
  <2>1. ASSUME NEW i \in Slots, Active(i)' PROVE (creator[Id(i)] \in Sessions /\ Claimed(creator[Id(i)], Id(i)))'
    <3>1. Active(i) /\ Id(i)' = Id(i)
      BY <2>1 DEF Active, Id
    <3>2. creator[Id(i)] \in Sessions /\ Claimed(creator[Id(i)], Id(i))
      BY <1>1, <3>1 DEF ActiveIsClaimed
    <3>. QED
      BY <1>3, <3>1, <3>2 DEF Claimed, Tracks, Working
  <2>. QED
    BY <2>1 DEF ActiveIsClaimed
<1>. QED
  BY <1>2, <1>6, <1>7, <1>8 DEF OwnInv

\* VusbUsCreateDevice: a fresh id in an inactive slot.
LEMMA OwnCreate ==
    ASSUME Types, OwnInv, NEW s \in Sessions, VusbUsCreateDevice(s)
    PROVE  OwnInv'
<1>0. PICK id \in Ids : id = NextDeviceId + 1
  BY DEF VusbUsCreateDevice
<1>1. IdsUnique /\ SessionLocals /\ ClaimedIsOwned /\ ActiveIsClaimed /\ phase[s] = "serving"
  BY DEF OwnInv, VusbUsCreateDevice
<1>2. PICK i \in Slots : ~Active(i) /\ dev' = [dev EXCEPT ![i] = [NoDevice EXCEPT !.DeviceId = id]]
  BY <1>0 DEF VusbUsCreateDevice
<1>3. id \in Ids /\ id \in 0..MaxCreates /\ NextDeviceId \in Nat /\ id # 0 /\ \A x \in Nat : x <= NextDeviceId => x # id /\ x <= id
  BY <1>0, UserspaceAssumption DEF Ids, Types, OwnTypes
<1>4. /\ NextDeviceId' = id /\ DeviceIds' = DeviceIds
      /\ creator' = [creator EXCEPT ![id] = s] /\ attaching' = [attaching EXCEPT ![s] = id]
      /\ phase' = [phase EXCEPT ![s] = "created"]
  BY <1>0 DEF VusbUsCreateDevice
<1>5. /\ creator \in [Ids -> 0..MaxSessions] /\ attaching \in [Sessions -> 0..MaxCreates]
      /\ phase \in [Sessions -> Phases] /\ DeviceIds \in [Sessions -> Seq(Ids)] /\ dev \in [Slots -> DeviceType]
  BY DEF Types, OwnTypes, ClientInv, UrbTypes
<1>6. Id(i)' = id /\ \A j \in Slots : j # i => Id(j)' = Id(j) /\ dev'[j] = dev[j]
  BY <1>2, <1>3, <1>5, NoDeviceType DEF Id
<1>7. /\ \A j \in Slots : Id(j) # id /\ Id(j) \in Nat /\ Id(j) <= NextDeviceId
      /\ \A t \in Sessions : attaching[t] # id /\ attaching[t] \in Nat /\ ~Tracks(t, id)
      /\ \A t \in Sessions : \A k \in DOMAIN DeviceIds[t] : DeviceIds[t][k] \in Ids /\ DeviceIds[t][k] \in Nat
  <2>1. \A j \in Slots : Id(j) \in Nat
    BY <1>5, UserspaceAssumption DEF Id, DeviceType
  <2>2. \A x \in Ids : x \in Nat
    BY UserspaceAssumption DEF Ids
  <2>3. \A t \in Sessions : attaching[t] \in Nat
    BY <1>5, UserspaceAssumption
  <2>4. \A t \in Sessions : \A k \in DOMAIN DeviceIds[t] : DeviceIds[t][k] \in Ids
    BY <1>5
  <2>. QED
    BY <1>1, <1>3, <2>1, <2>2, <2>3, <2>4 DEF IdsUnique, Tracks
<1>8. IdsUnique'
  <2>1. \A j \in Slots : Id(j)' <= id
    BY <1>3, <1>6, <1>7
  <2>2. \A j, k \in Slots : Active(j)' /\ Id(j)' = Id(k)' => j = k
    BY <1>1, <1>6, <1>7 DEF IdsUnique, Active, Id
  <2>3. \A t \in Sessions : attaching'[t] <= id
    <3>1. \A t \in Sessions : attaching[t] <= id
      BY <1>1, <1>3, <1>7 DEF IdsUnique
    <3>2. id <= id
      BY <1>3
    <3>. QED
      BY <1>4, <1>5, <3>1, <3>2
  <2>4. \A t \in Sessions : \A k \in DOMAIN DeviceIds[t] : DeviceIds[t][k] <= id
    BY <1>1, <1>3, <1>7 DEF IdsUnique
  <2>. QED
    BY <1>4, <2>1, <2>2, <2>3, <2>4 DEF IdsUnique
<1>9. \A t \in Sessions : /\ \A x : Tracks(t, x)' <=> Tracks(t, x)
                          /\ Working(t)' <=> Working(t)
                          /\ t # s => attaching'[t] = attaching[t] /\ phase'[t] = phase[t]
  BY <1>1, <1>4, <1>5 DEF Tracks, Working
<1>10. attaching'[s] = id /\ phase'[s] = "created" /\ Working(s)
  BY <1>1, <1>4, <1>5 DEF Working
<1>11. SessionLocals'
  BY <1>1, <1>3, <1>4, <1>7, <1>9, <1>10 DEF SessionLocals, Tracks
<1>12. \A t \in Sessions, x \in Ids : Claimed(t, x)' <=> Claimed(t, x) \/ (t = s /\ x = id)
  BY <1>1, <1>9, <1>10 DEF Claimed
<1>13. ClaimedIsOwned'
  <2>1. ASSUME NEW t \in Sessions, NEW x \in Ids, Claimed(t, x)
        PROVE  creator'[x] = t /\ \E j \in Slots : Id(j)' = x /\ (Tracks(t, x)' => dev'[j].OwnerClient = t)
    <3>1. x # id
      BY <1>7, <2>1 DEF Claimed
    <3>2. creator[x] = t
      BY <1>1, <2>1 DEF ClaimedIsOwned
    <3>3. PICK j \in Slots : Id(j) = x /\ (Tracks(t, x) => dev[j].OwnerClient = t)
      BY <1>1, <2>1 DEF ClaimedIsOwned
    <3>4. x # 0
      BY DEF Ids
    <3>5. j # i
      BY <1>2, <3>3, <3>4 DEF Active, Id
    <3>. QED
      BY <1>4, <1>5, <1>6, <1>9, <3>1, <3>2, <3>3, <3>5
  <2>2. creator'[id] = s /\ Id(i)' = id /\ ~Tracks(s, id)'
    BY <1>3, <1>4, <1>5, <1>6, <1>7, <1>9
  <2>. QED
    BY <1>12, <2>1, <2>2 DEF ClaimedIsOwned
<1>14. ActiveIsClaimed'
  <2>1. ASSUME NEW j \in Slots, Active(j)' PROVE (creator[Id(j)] \in Sessions /\ Claimed(creator[Id(j)], Id(j)))'
    <3>1. CASE j = i
      <4>1. creator'[id] = s
        BY <1>3, <1>4, <1>5
      <4>2. Claimed(s, id)'
        BY <1>3, <1>12
      <4>. QED
        BY <1>6, <3>1, <4>1, <4>2 DEF Claimed, Tracks, Working
    <3>2. CASE j # i
      <4>1. Active(j) /\ Id(j)' = Id(j) /\ Id(j) # id /\ Id(j) \in Ids
        <5>1. Active(j) /\ Id(j)' = Id(j) /\ Id(j) # id
          BY <1>6, <1>7, <2>1, <3>2 DEF Active, Id
        <5>. QED
          BY <5>1, OwnIds DEF Types
      <4>2. creator[Id(j)] \in Sessions /\ Claimed(creator[Id(j)], Id(j))
        BY <1>1, <4>1 DEF ActiveIsClaimed
      <4>3. creator'[Id(j)] = creator[Id(j)]
        BY <1>4, <1>5, <4>1
      <4>4. PICK c \in Sessions, x \in Ids : x = Id(j) /\ c = creator[Id(j)]
        BY <4>1, <4>2
      <4>5. Claimed(c, x)'
        BY <1>12, <4>2, <4>4
      <4>. QED
        BY <4>1, <4>3, <4>4, <4>5 DEF Claimed, Tracks, Working
    <3>. QED
      BY <3>1, <3>2
  <2>. QED
    BY <2>1 DEF ActiveIsClaimed
<1>. QED
  BY <1>8, <1>11, <1>13, <1>14 DEF OwnInv

\* The array of ids of a session is never full: each id has a slot of its own,
\* and so has the device being attached.
LEMMA TrackRoom ==
    ASSUME Types, OwnInv, Alive, NEW s \in Sessions, phase[s] = "created"
    PROVE  Len(DeviceIds[s]) < MaxDevices /\ attaching[s] \in Ids
<1> DEFINE q == DeviceIds[s]
           n == Len(q)
           id(k) == IF k \in DOMAIN q THEN q[k] ELSE attaching[s]
           f == [k \in 1..(n + 1) |-> CHOOSE i \in Slots : Id(i) = id(k)]
<1>1. IdsUnique /\ SessionLocals /\ ClaimedIsOwned
  BY DEF OwnInv
<1>2. q \in Seq(Ids) /\ n \in Nat /\ DOMAIN q = 1..n /\ \A k \in DOMAIN q : q[k] \in Ids
  BY OwnIds DEF Types
<1>3. attaching[s] \in Ids
  <2>1. attaching[s] # 0
    BY <1>1 DEF SessionLocals
  <2>. QED
    BY <2>1, UserspaceAssumption DEF Types, OwnTypes, Ids
<1>4. \A k \in 1..(n + 1) : id(k) \in Ids /\ Claimed(s, id(k))
  BY <1>2, <1>3 DEF Claimed, Tracks, Working
<1>5. \A k \in 1..(n + 1) : \E i \in Slots : Id(i) = id(k)
  BY <1>1, <1>4 DEF ClaimedIsOwned
<1>6. \A k, l \in 1..(n + 1) : id(k) = id(l) => k = l
  <2>1. \A k, l \in DOMAIN q : q[k] = q[l] => k = l
    BY <1>1 DEF SessionLocals, Working, IsInjective
  <2>2. \A k \in DOMAIN q : q[k] # attaching[s]
    BY <1>1 DEF SessionLocals, Tracks
  <2>3. \A k \in 1..(n + 1) : k \in DOMAIN q \/ k = n + 1
    BY <1>2
  <2>4. n + 1 \notin DOMAIN q
    BY <1>2
  <2>. QED
    BY <2>1, <2>2, <2>3, <2>4
<1> HIDE DEF id, n, q
<1>7. \A k \in 1..(n + 1) : f[k] \in Slots /\ Id(f[k]) = id(k)
  BY <1>5
<1>8. f \in Injection(1..(n + 1), Slots)
  <2>1. f \in [1..(n + 1) -> Slots]
    BY <1>7
  <2>2. \A k, l \in 1..(n + 1) : f[k] = f[l] => k = l
    BY <1>6, <1>7
  <2>. QED
    BY <2>1, <2>2 DEF Injection, IsInjective
<1> HIDE DEF f
<1>9. IsFiniteSet(Slots) /\ Cardinality(Slots) = MaxDevices
  <2>1. 1 \in Int /\ MaxDevices \in Int /\ 1 <= MaxDevices
    BY UserspaceAssumption
  <2>. QED
    BY <2>1, FS_Interval DEF Slots
<1>10. IsFiniteSet(1..(n + 1)) /\ Cardinality(1..(n + 1)) = n + 1
  <2>1. 1 \in Int /\ n + 1 \in Int /\ 1 <= n + 1 /\ (n + 1) - 1 + 1 = n + 1
    BY <1>2
  <2>. QED
    BY <2>1, FS_Interval
<1>11. n + 1 <= MaxDevices
  BY <1>8, <1>9, <1>10, FS_Injection
<1>. QED
  BY <1>2, <1>3, <1>11, UserspaceAssumption DEF n, q

\* TrackDevice: the device being attached is tracked from now on.
LEMMA OwnTrack ==
    ASSUME Types, OwnInv, NEW s \in Sessions, TrackDevice(s)
    PROVE  OwnInv'
<1>0. Alive /\ phase[s] = "created"
  BY DEF TrackDevice
<1>1. IdsUnique /\ SessionLocals /\ ClaimedIsOwned /\ ActiveIsClaimed
  BY <1>0 DEF OwnInv
<1>2. PICK id \in Ids : id = attaching[s]
  BY <1>0, TrackRoom
<1>3. /\ DeviceIds' = [DeviceIds EXCEPT ![s] = Append(DeviceIds[s], id)]
      /\ attaching' = [attaching EXCEPT ![s] = 0]
      /\ phase' = [phase EXCEPT ![s] = AfterMessage(s)] /\ AfterMessage(s) \in {"serving", "leaving"}
      /\ NextDeviceId' = NextDeviceId /\ creator' = creator
  BY <1>0, <1>2, TrackRoom DEF TrackDevice, AfterMessage
<1>4. /\ attaching \in [Sessions -> 0..MaxCreates] /\ DeviceIds \in [Sessions -> Seq(Ids)]
      /\ phase \in [Sessions -> Phases] /\ DeviceIds[s] \in Seq(Ids)
  BY DEF Types, OwnTypes, ClientInv
<1>5. \A i \in Slots : /\ Id(i)' = Id(i)
                       /\ dev'[i].OwnerClient = IF Id(i) = id THEN s ELSE dev[i].OwnerClient
  BY <1>2, TrackKeeps DEF Types, Id
<1>6. \A t \in Sessions : t # s => DeviceIds'[t] = DeviceIds[t] /\ attaching'[t] = attaching[t] /\ phase'[t] = phase[t]
  BY <1>3, <1>4
<1>7. DeviceIds'[s] = Append(DeviceIds[s], id) /\ attaching'[s] = 0 /\ phase'[s] \in {"serving", "leaving"}
  BY <1>3, <1>4
<1> DEFINE n == Len(DeviceIds[s])
<1>8. /\ DOMAIN DeviceIds[s] = 1..n /\ DOMAIN DeviceIds'[s] = 1..(n + 1) /\ n \in Nat
      /\ \A k \in 1..n : DeviceIds'[s][k] = DeviceIds[s][k]
      /\ DeviceIds'[s][n + 1] = id
  BY <1>4, <1>7
<1>9. \A k \in 1..(n + 1) : k \in 1..n \/ k = n + 1
  BY <1>8
<1>10. \A k \in 1..n : k \in 1..(n + 1)
  BY <1>8
<1>11. n + 1 \in 1..(n + 1)
  BY <1>8
<1> HIDE DEF n
<1>12. \A x : Tracks(s, x)' <=> Tracks(s, x) \/ x = id
  BY <1>8, <1>9, <1>10, <1>11 DEF Tracks
<1>13. ~Tracks(s, id)
  BY <1>0, <1>1, <1>2 DEF SessionLocals
<1>14. \A t \in Sessions : t # s => \A x : Tracks(t, x)' <=> Tracks(t, x)
  BY <1>6 DEF Tracks
<1>15. \A t \in Sessions, x \in Ids : Claimed(t, x)' <=> Claimed(t, x)
  BY <1>0, <1>2, <1>6, <1>7, <1>12, <1>14 DEF Claimed, Working
<1>16. IdsUnique'
  <2>1. \A k \in DOMAIN DeviceIds'[s] : DeviceIds'[s][k] <= NextDeviceId
    BY <1>1, <1>2, <1>8, <1>9 DEF IdsUnique
  <2>2. 0 <= NextDeviceId
    BY DEF Types, OwnTypes
  <2>. QED
    BY <1>1, <1>3, <1>5, <1>6, <1>7, <2>1, <2>2 DEF IdsUnique, Active, Id
<1>17. IsInjective(DeviceIds'[s])
  <2>1. \A k, l \in 1..n : DeviceIds[s][k] = DeviceIds[s][l] => k = l
    BY <1>0, <1>1, <1>8 DEF SessionLocals, Working, IsInjective
  <2>2. \A k \in 1..n : DeviceIds[s][k] # id
    BY <1>8, <1>13 DEF Tracks
  <2>. QED
    BY <1>8, <1>9, <2>1, <2>2 DEF IsInjective
<1>18. SessionLocals'
  BY <1>1, <1>6, <1>7, <1>14, <1>17 DEF SessionLocals, Working
<1>19. ClaimedIsOwned'
  <2>1. ASSUME NEW t \in Sessions, NEW x \in Ids, Claimed(t, x)
        PROVE  creator'[x] = t /\ \E j \in Slots : Id(j)' = x /\ (Tracks(t, x)' => dev'[j].OwnerClient = t)
    <3>1. creator[x] = t /\ creator[id] = s
      BY <1>0, <1>1, <1>2, <2>1 DEF ClaimedIsOwned, Claimed, Working
    <3>2. PICK j \in Slots : Id(j) = x /\ (Tracks(t, x) => dev[j].OwnerClient = t)
      BY <1>1, <2>1 DEF ClaimedIsOwned
    <3>. QED
      BY <1>3, <1>5, <1>12, <1>14, <3>1, <3>2
  <2>. QED
    BY <1>15, <2>1 DEF ClaimedIsOwned
<1>20. ActiveIsClaimed'
  <2>1. ASSUME NEW j \in Slots, Active(j)' PROVE (creator[Id(j)] \in Sessions /\ Claimed(creator[Id(j)], Id(j)))'
    <3>1. Active(j)
      BY <1>5, <2>1 DEF Active, Id
    <3>2. PICK x \in Ids, c \in Sessions : x = Id(j) /\ c = creator[x] /\ Claimed(c, x)
      BY <1>1, <3>1, OwnIds DEF ActiveIsClaimed, Types
    <3>3. Claimed(c, x)'
      BY <1>15, <3>2
    <3>. QED
      BY <1>3, <1>5, <3>2, <3>3 DEF Claimed, Tracks, Working
  <2>. QED
    BY <2>1 DEF ActiveIsClaimed
<1>. QED
  BY <1>16, <1>18, <1>19, <1>20 DEF OwnInv

\* Slots that are zeroed hold the devices one session gives up.
LEMMA OwnGiveUp ==
    ASSUME Types, OwnInv, Alive, NEW s \in Sessions, NEW gone \in SUBSET Slots, NEW kept \in SUBSET Ids,
           CleanupDevices(gone), UNCHANGED <<NextDeviceId, creator, attaching>>,
           \A t \in Sessions : t # s => DeviceIds'[t] = DeviceIds[t] /\ phase'[t] = phase[t],
           phase[s] \in {"serving", "leaving"}, phase'[s] \in {"serving", "leaving", "closing"},
           \A k \in DOMAIN DeviceIds'[s] : DeviceIds'[s][k] \in Ids /\ Tracks(s, DeviceIds'[s][k]),
           Working(s)' => IsInjective(DeviceIds'[s]),
           \A x \in Ids : Claimed(s, x)' <=> Claimed(s, x) /\ x \in kept,
           \A i \in Slots : i \in gone <=> Active(i) /\ Claimed(s, Id(i)) /\ Id(i) \notin kept
    PROVE  OwnInv'
<1>1. IdsUnique /\ SessionLocals /\ ClaimedIsOwned /\ ActiveIsClaimed
  BY DEF OwnInv
<1>2. \A i \in Slots : /\ i \in gone => Id(i)' = 0 /\ dev'[i].DeviceId = 0
                       /\ i \notin gone => Id(i)' = Id(i) /\ dev'[i] = dev[i]
  <2>1. \A i \in Slots : dev[i].NextUrbId \in 0..MaxUrbs
    BY DEF Types, UrbTypes, DeviceType
  <2>. QED
    BY <2>1, NoDeviceType DEF CleanupDevices, Id
<1>3. 0 <= NextDeviceId /\ 0 \notin Ids
  BY DEF Types, OwnTypes, Ids
<1>4. IdsUnique'
  <2>1. \A i \in Slots : Id(i)' <= NextDeviceId'
    BY <1>1, <1>2, <1>3 DEF IdsUnique
  <2>2. \A i, j \in Slots : Active(i)' /\ Id(i)' = Id(j)' => i = j
    BY <1>1, <1>2 DEF IdsUnique, Active, Id
  <2>3. \A t \in Sessions : attaching'[t] <= NextDeviceId'
    BY <1>1 DEF IdsUnique
  <2>4. \A t \in Sessions : \A k \in DOMAIN DeviceIds'[t] : DeviceIds'[t][k] <= NextDeviceId'
    BY <1>1 DEF IdsUnique, Tracks
  <2>. QED
    BY <2>1, <2>2, <2>3, <2>4 DEF IdsUnique
<1>5. SessionLocals'
  BY <1>1 DEF SessionLocals, Working, Tracks
<1>6. \A t \in Sessions, x \in Ids : Claimed(t, x)' <=> Claimed(t, x) /\ (t = s => x \in kept)
  BY DEF Claimed, Tracks, Working
<1>7. ClaimedIsOwned'
  <2>1. ASSUME NEW t \in Sessions, NEW x \in Ids, Claimed(t, x)'
        PROVE  creator'[x] = t /\ \E j \in Slots : Id(j)' = x /\ (Tracks(t, x)' => dev'[j].OwnerClient = t)
    <3>1. creator[x] = t /\ Claimed(t, x) /\ (t = s => x \in kept)
      BY <1>1, <1>6, <2>1 DEF ClaimedIsOwned
    <3>2. PICK j \in Slots : Id(j) = x /\ (Tracks(t, x) => dev[j].OwnerClient = t)
      BY <1>1, <3>1 DEF ClaimedIsOwned
    <3>3. j \notin gone
      BY <1>1, <3>1, <3>2 DEF ClaimedIsOwned
    <3>4. Tracks(t, x)' => Tracks(t, x)
      BY DEF Tracks
    <3>. QED
      BY <1>2, <3>1, <3>2, <3>3, <3>4
  <2>. QED
    BY <2>1 DEF ClaimedIsOwned
<1>8. ActiveIsClaimed'
  <2>1. ASSUME NEW j \in Slots, Active(j)' PROVE (creator[Id(j)] \in Sessions /\ Claimed(creator[Id(j)], Id(j)))'
    <3>1. Active(j) /\ j \notin gone
      BY <1>2, <2>1 DEF Active, Id
    <3>2. PICK x \in Ids, c \in Sessions : x = Id(j) /\ c = creator[x] /\ Claimed(c, x)
      BY <1>1, <3>1, OwnIds DEF ActiveIsClaimed, Types
    <3>3. c = s => x \in kept
      BY <3>1, <3>2
    <3>4. Claimed(c, x)'
      BY <1>6, <3>2, <3>3
    <3>. QED
      BY <1>2, <3>1, <3>2, <3>4 DEF Claimed, Tracks, Working
  <2>. QED
    BY <2>1 DEF ActiveIsClaimed
<1>. QED
  BY <1>4, <1>5, <1>7, <1>8 DEF OwnInv

\* HandleDeviceDetach: the owner gives up one device.
LEMMA OwnDetach ==
    ASSUME Types, OwnInv, NEW s \in Sessions, NEW slot \in Slots, HandleDeviceDetach(s, slot)
    PROVE  OwnInv'
<1>0. Alive /\ phase[s] = "serving" /\ Active(slot)
  BY DEF HandleDeviceDetach
<1>1. IdsUnique /\ SessionLocals
  BY <1>0 DEF OwnInv
<1>2. PICK gone \in SUBSET Slots, kept \in SUBSET Ids : gone = {slot} /\ kept = Ids \ {Id(slot)}
  OBVIOUS
<1>3. PICK i \in DOMAIN DeviceIds[s] :
        DeviceIds[s][i] = Id(slot) /\ DeviceIds' = [DeviceIds EXCEPT ![s] = SwapRemove(DeviceIds[s], i)]
  BY DEF HandleDeviceDetach, Id
<1>4. /\ CleanupDevices(gone) /\ UNCHANGED <<NextDeviceId, creator, attaching>>
      /\ phase' = [phase EXCEPT ![s] = AfterMessage(s)] /\ AfterMessage(s) \in {"serving", "leaving"}
  BY <1>2 DEF HandleDeviceDetach, AfterMessage
<1>5. DeviceIds \in [Sessions -> Seq(Ids)] /\ phase \in [Sessions -> Phases]
  BY DEF Types, OwnTypes, ClientInv
<1>6. /\ \A t \in Sessions : t # s => DeviceIds'[t] = DeviceIds[t] /\ phase'[t] = phase[t]
      /\ DeviceIds'[s] = SwapRemove(DeviceIds[s], i) /\ phase'[s] \in {"serving", "leaving"}
  BY <1>3, <1>4, <1>5
<1>7. DeviceIds[s] \in Seq(Ids) /\ i \in 1..Len(DeviceIds[s]) /\ DOMAIN DeviceIds[s] = 1..Len(DeviceIds[s])
  BY <1>3, OwnIds DEF Types
<1>8. IsInjective(DeviceIds[s])
  BY <1>0, <1>1 DEF SessionLocals, Working
<1>9. /\ IsInjective(DeviceIds'[s])
      /\ \A j \in DOMAIN DeviceIds'[s] : \E k \in DOMAIN DeviceIds[s] : k # i /\ DeviceIds'[s][j] = DeviceIds[s][k]
      /\ \A k \in DOMAIN DeviceIds[s] : k # i => \E j \in DOMAIN DeviceIds'[s] : DeviceIds'[s][j] = DeviceIds[s][k]
  BY <1>6, <1>7, <1>8, SwapRemoveEntries
<1>10. \A k \in DOMAIN DeviceIds[s] : k # i <=> DeviceIds[s][k] # Id(slot)
  BY <1>3, <1>8 DEF IsInjective
<1>11. \A x \in Ids : Tracks(s, x)' <=> Tracks(s, x) /\ x # Id(slot)
  BY <1>9, <1>10 DEF Tracks
<1>12. \A k \in DOMAIN DeviceIds'[s] : DeviceIds'[s][k] \in Ids /\ Tracks(s, DeviceIds'[s][k])
  BY <1>9, OwnIds DEF Tracks, Types
<1>13. \A x \in Ids : Claimed(s, x)' <=> Claimed(s, x) /\ x \in kept
  BY <1>0, <1>2, <1>6, <1>11 DEF Claimed, Working
<1>14. Claimed(s, Id(slot))
  BY <1>0, <1>3 DEF Claimed, Working, Tracks
<1>15. \A j \in Slots : j \in gone <=> Active(j) /\ Claimed(s, Id(j)) /\ Id(j) \notin kept
  <2>1. \A j \in Slots : Active(j) => (Id(j) \notin kept <=> Id(j) = Id(slot))
    BY <1>2, OwnIds DEF Types
  <2>2. \A j \in Slots : Active(j) /\ Id(j) = Id(slot) => j = slot
    BY <1>1 DEF IdsUnique
  <2>. QED
    BY <1>0, <1>2, <1>14, <2>1, <2>2
<1>. QED
  BY <1>0, <1>4, <1>6, <1>9, <1>12, <1>13, <1>15, OwnGiveUp

\* "Cleanup client devices": a leaving client gives up all it tracks.
LEMMA OwnCleanup ==
    ASSUME Types, OwnInv, NEW s \in Sessions, CleanupClientDevices(s)
    PROVE  OwnInv'
<1>0. Alive /\ phase[s] = "leaving" /\ UNCHANGED <<NextDeviceId, creator, attaching, DeviceIds>>
  BY DEF CleanupClientDevices
<1>2. PICK gone \in SUBSET Slots, kept \in SUBSET Ids :
         gone = {i \in Slots : Active(i) /\ dev[i].DeviceId \in ToSet(DeviceIds[s])} /\ kept = {}
  OBVIOUS
<1>3. CleanupDevices(gone) /\ phase' = [phase EXCEPT ![s] = "closing"]
  BY <1>2 DEF CleanupClientDevices
<1>4. phase'[s] = "closing" /\ \A t \in Sessions : t # s => phase'[t] = phase[t]
  BY <1>3 DEF Types, ClientInv
<1>5. \A k \in DOMAIN DeviceIds'[s] : DeviceIds'[s][k] \in Ids /\ Tracks(s, DeviceIds'[s][k])
  BY <1>0, OwnIds DEF Tracks, Types
<1>6. \A i \in Slots : i \in gone <=> Active(i) /\ Claimed(s, Id(i)) /\ Id(i) \notin kept
  BY <1>0, <1>2 DEF Claimed, Tracks, Working, Id, ToSet
<1>7. ~Working(s)' /\ \A x \in Ids : Claimed(s, x)' <=> Claimed(s, x) /\ x \in kept
  BY <1>2, <1>4 DEF Claimed, Working
<1>. QED
  BY <1>0, <1>3, <1>4, <1>5, <1>6, <1>7, OwnGiveUp

\* Completions and submissions leave ids and owners alone.
LEMMA UrbStepsKeepIds ==
    ASSUME OwnTypes, UrbTypes, CountInv,
           \/ SubmitInsert \/ \E slot \in Slots : SubmitLookup(slot)
           \/ \E i \in Slots : \E k \in DOMAIN dev[i].PendingUrbs, by \in 0..MaxSessions : VusbUsCompleteUrb(i, k, by)
    PROVE  \A i \in Slots : dev'[i].DeviceId = dev[i].DeviceId /\ dev'[i].OwnerClient = dev[i].OwnerClient
<1>1. ASSUME NEW i \in Slots, NEW k \in DOMAIN dev[i].PendingUrbs, NEW by \in 0..MaxSessions, VusbUsCompleteUrb(i, k, by)
      PROVE  /\ dev'[i].DeviceId = dev[i].DeviceId /\ dev'[i].OwnerClient = dev[i].OwnerClient
             /\ \A j \in Slots : j # i => dev'[j] = dev[j]
  <2>1. CASE CompleteAndResubmit(i, k, by)
    BY <1>1, <2>1, ResubmitFacts
  <2>2. CASE CompleteUrb(i, k, by)
    BY <1>1, <2>2, CompleteFacts
  <2>. QED
    BY <1>1, <2>1, <2>2 DEF VusbUsCompleteUrb
<1>2. CASE \E slot \in Slots : SubmitLookup(slot)
  BY <1>2 DEF SubmitLookup, deviceVars
<1>3. CASE SubmitInsert
  <2>1. dev' = [dev EXCEPT ![found.slot] = Push(dev[found.slot], found.urb)]
    BY <1>3 DEF SubmitInsert
  <2>2. \A d \in DeviceType : \A u : Push(d, u).DeviceId = d.DeviceId /\ Push(d, u).OwnerClient = d.OwnerClient
    BY DEF Push, DeviceType
  <2>. QED
    BY <2>1, <2>2 DEF UrbTypes
<1>. QED
  BY <1>1, <1>2, <1>3

\* Nothing revives the process.
LEMMA AliveStep == ASSUME Next, Alive' PROVE Alive /\ ~VusbUsCleanup
<1>1. ~VusbUsCleanup
  BY DEF Alive, VusbUsCleanup
<1>2. CASE runpc' = runpc
  BY <1>1, <1>2 DEF Alive
<1>3. CASE UseDeletedLock \/ LeaveAcceptLoop \/ CheckClient \/ WaitForThread
  BY <1>1, <1>3 DEF Alive, UseDeletedLock, LeaveAcceptLoop, CheckClient, WaitForThread
<1>4. CASE \/ AcceptClient \/ SubmitInsert \/ VusbUsStop
           \/ \E slot \in Slots : SubmitLookup(slot) \/ \E k \in Urbs : VusbUsCancelUrb(slot, k)
  BY <1>1, <1>4 DEF Alive, AcceptClient, SubmitInsert, SubmitLookup, VusbUsCancelUrb, VusbUsStop
<1>5. ASSUME NEW s \in Sessions,
             \/ VusbUsCreateDevice(s) \/ TrackDevice(s) \/ LeaveLoop(s) \/ CleanupClientDevices(s) \/ RemoveClient(s)
             \/ \E slot \in Slots : HandleDeviceDetach(s, slot)
             \/ \E own \in Slots, urbId \in Urbs : HandleUrbComplete(s, own, urbId)
      PROVE  Alive
  BY <1>5 DEF VusbUsCreateDevice, TrackDevice, LeaveLoop, CleanupClientDevices, RemoveClient, HandleDeviceDetach,
              HandleUrbComplete
<1>. QED
  BY <1>1, <1>3, <1>4, <1>5 DEF Next

\* How a step moves the threads, when it moves no device.
LEMMA QuietPhases ==
    ASSUME ClientInv, Next, NEW s \in Sessions
    PROVE  \/ \E t \in Sessions : VusbUsCreateDevice(t) \/ TrackDevice(t) \/ CleanupClientDevices(t)
           \/ /\ phase'[s] = "created" <=> phase[s] = "created"
              /\ phase'[s] = "none" => phase[s] = "none"
              /\ Working(s) => Working(s)'
              /\ Working(s)' => Working(s) \/ phase[s] = "none"
<1>0. phase \in [Sessions -> Phases]
  BY DEF ClientInv
<1>1. CASE phase' = phase
  BY <1>1 DEF Working
<1>2. ASSUME NEW t \in Sessions, NEW p, phase' = [phase EXCEPT ![t] = p],
             \/ phase[t] = "none" /\ p \in {"serving", "freed"}
             \/ phase[t] = "serving" /\ p \in {"serving", "leaving"}
             \/ phase[t] = "closing" /\ p = "freed"
      PROVE  /\ phase'[s] = "created" <=> phase[s] = "created"
             /\ phase'[s] = "none" => phase[s] = "none"
             /\ Working(s) => Working(s)'
             /\ Working(s)' => Working(s) \/ phase[s] = "none"
  BY <1>0, <1>2 DEF Working
<1>3. CASE AcceptClient
  <2>1. NextSessionId + 1 \in Sessions /\ phase[NextSessionId + 1] = "none"
    BY <1>3 DEF AcceptClient, ClientInv, SessionsInOrder, Sessions
  <2>2. \E p \in {"serving", "freed"} : phase' = [phase EXCEPT ![NextSessionId + 1] = p]
    BY <1>3 DEF AcceptClient
  <2>. QED
    BY <1>2, <2>1, <2>2
<1>4. ASSUME NEW t \in Sessions,
             \/ LeaveLoop(t) \/ RemoveClient(t) \/ \E slot \in Slots : HandleDeviceDetach(t, slot)
             \/ \E own \in Slots, urbId \in Urbs : HandleUrbComplete(t, own, urbId)
      PROVE  \E p : /\ phase' = [phase EXCEPT ![t] = p]
                    /\ \/ phase[t] = "serving" /\ p \in {"serving", "leaving"}
                       \/ phase[t] = "closing" /\ p = "freed"
  BY <1>4 DEF LeaveLoop, RemoveClient, HandleDeviceDetach, HandleUrbComplete, AfterMessage
<1>5. CASE \/ SubmitInsert \/ UseDeletedLock \/ VusbUsStop \/ LeaveAcceptLoop \/ CheckClient \/ WaitForThread
           \/ VusbUsCleanup
           \/ \E slot \in Slots : SubmitLookup(slot) \/ \E k \in Urbs : VusbUsCancelUrb(slot, k)
  BY <1>1, <1>5 DEF SubmitInsert, UseDeletedLock, VusbUsStop, LeaveAcceptLoop, CheckClient, WaitForThread, VusbUsCleanup,
                    SubmitLookup, VusbUsCancelUrb, clientVars
<1>. QED
  BY <1>2, <1>3, <1>4, <1>5 DEF Next

\* Every step keeps the ownership of devices.
LEMMA OwnStep == ASSUME Types, OwnInv, Next PROVE OwnInv'
<1>1. CASE ~Alive'
  BY <1>1 DEF OwnInv
<1>2. CASE Alive'
  <2>1. Alive /\ ~VusbUsCleanup
    BY <1>2, AliveStep
  <2>2. CASE \E s \in Sessions : \/ VusbUsCreateDevice(s) \/ TrackDevice(s) \/ CleanupClientDevices(s)
                                 \/ \E slot \in Slots : HandleDeviceDetach(s, slot)
    BY <2>2, OwnCreate, OwnTrack, OwnCleanup, OwnDetach
  <2>3. CASE ~ \E s \in Sessions : \/ VusbUsCreateDevice(s) \/ TrackDevice(s) \/ CleanupClientDevices(s)
                                   \/ \E slot \in Slots : HandleDeviceDetach(s, slot)
    <3>1. \A s \in Sessions : /\ phase'[s] = "created" <=> phase[s] = "created"
                              /\ phase'[s] = "none" => phase[s] = "none"
                              /\ Working(s) => Working(s)'
                              /\ Working(s)' => Working(s) \/ phase[s] = "none"
      BY <2>3, QuietPhases DEF Types
    <3>2. CASE UNCHANGED <<deviceVars, DeviceIds, attaching, urbVars>>
      <4>1. UNCHANGED <<dev, NextDeviceId, creator, DeviceIds, attaching>>
        BY <3>2 DEF deviceVars
      <4>. QED
        BY <2>1, <3>1, <4>1, OwnQuiet
    <3>3. CASE \/ SubmitInsert \/ \E slot \in Slots : SubmitLookup(slot)
               \/ \E i \in Slots : \E k \in DOMAIN dev[i].PendingUrbs, by \in 0..MaxSessions :
                     VusbUsCompleteUrb(i, k, by) /\ UNCHANGED <<NextDeviceId, creator, DeviceIds, attaching, found>>
      <4>1. \A i \in Slots : dev'[i].DeviceId = dev[i].DeviceId /\ dev'[i].OwnerClient = dev[i].OwnerClient
        BY <3>3, UrbStepsKeepIds DEF Types
      <4>2. UNCHANGED <<NextDeviceId, creator, DeviceIds, attaching>>
        BY <3>3 DEF SubmitInsert, SubmitLookup, clientVars, deviceVars
      <4>. QED
        BY <2>1, <3>1, <4>1, <4>2, OwnQuiet
    <3>. QED
      BY <2>1, <2>3, <3>2, <3>3, StepCases
  <2>. QED
    BY <2>2, <2>3
<1>. QED
  BY <1>1, <1>2

----------------------------------------------------------------------------
(* The lists of pending URBs.                                              *)

\* What is on a list after a URB with a new UrbId is pushed on it.
LEMMA PushedList ==
    ASSUME NEW q \in Seq(Urbs), NEW x \in Urbs, NEW f, NEW next \in Nat, IdsDrawn(q, f, next),
           f[x].UrbId = next + 1, \A u \in Urbs : f[u].UrbId \in Nat
    PROVE  /\ IdsDrawn(<<x>> \o q, f, next + 1)
           /\ \A u : On(u, <<x>> \o q) <=> u = x \/ On(u, q)
<1> DEFINE n == Len(q)
           r == <<x>> \o q
<1>1. n \in Nat /\ DOMAIN q = 1..n /\ \A k \in 1..n : q[k] \in Urbs
  OBVIOUS
<1>2. DOMAIN r = 1..(n + 1) /\ r[1] = x /\ \A k \in 1..n : r[k + 1] = q[k]
  BY <1>1
<1> HIDE DEF n, r
<1>3. \A k \in 1..(n + 1) : k = 1 \/ \E l \in 1..n : k = l + 1
  <2>1. \A k \in 1..(n + 1) : k # 1 => k - 1 \in 1..n /\ k = (k - 1) + 1
    BY <1>1
  <2>. QED
    BY <2>1
<1>4. 1 \in 1..(n + 1) /\ \A k \in 1..n : k + 1 \in 1..(n + 1)
  BY <1>1
<1>5. \A k \in 1..n : f[q[k]].UrbId <= next /\ f[q[k]].UrbId \in Nat
  BY <1>1 DEF IdsDrawn
<1>6. \A k \in 1..n : f[q[k]].UrbId # f[x].UrbId /\ f[q[k]].UrbId <= next + 1
  BY <1>5
<1>7. \A u : On(u, r) <=> u = x \/ On(u, q)
  <2>1. ASSUME NEW u, On(u, r) PROVE u = x \/ On(u, q)
    <3>1. PICK k \in 1..(n + 1) : r[k] = u
      BY <1>2, <2>1 DEF On
    <3>2. CASE k = 1
      BY <1>2, <3>1, <3>2
    <3>3. ASSUME NEW l \in 1..n, k = l + 1 PROVE On(u, q)
      BY <1>1, <1>2, <3>1, <3>3 DEF On
    <3>. QED
      BY <1>3, <3>2, <3>3
  <2>2. On(x, r)
    BY <1>2, <1>4 DEF On
  <2>3. ASSUME NEW u, On(u, q) PROVE On(u, r)
    <3>1. PICK k \in 1..n : q[k] = u
      BY <1>1, <2>3 DEF On
    <3>2. k + 1 \in DOMAIN r /\ r[k + 1] = u
      BY <1>2, <1>4, <3>1
    <3>. QED
      BY <3>2 DEF On
  <2>. QED
    BY <2>1, <2>2, <2>3
<1>8. \A k \in 1..(n + 1) : f[r[k]].UrbId <= next + 1
  <2>1. f[r[1]].UrbId <= next + 1
    BY <1>2
  <2>2. \A k \in 1..n : f[r[k + 1]].UrbId <= next + 1
    BY <1>2, <1>6
  <2>. QED
    BY <1>3, <2>1, <2>2
<1>9. ASSUME NEW k \in 1..(n + 1), NEW l \in 1..(n + 1), f[r[k]].UrbId = f[r[l]].UrbId PROVE k = l
  <2>1. CASE k = 1 /\ l = 1
    BY <2>1
  <2>2. ASSUME NEW a \in 1..n, k = a + 1, l = 1 PROVE FALSE
    BY <1>2, <1>6, <1>9, <2>2
  <2>3. ASSUME NEW b \in 1..n, l = b + 1, k = 1 PROVE FALSE
    BY <1>2, <1>6, <1>9, <2>3
  <2>4. ASSUME NEW a \in 1..n, NEW b \in 1..n, k = a + 1, l = b + 1 PROVE k = l
    <3>1. f[q[a]].UrbId = f[q[b]].UrbId
      BY <1>2, <1>9, <2>4
    <3>. QED
      BY <1>1, <2>4, <3>1 DEF IdsDrawn
  <2>. QED
    BY <1>3, <2>1, <2>2, <2>3, <2>4
<1>10. IdsDrawn(r, f, next + 1)
  BY <1>2, <1>8, <1>9 DEF IdsDrawn
<1>. QED
  BY <1>7, <1>10 DEF r

\* What is on a list after its k-th URB is unlinked.
LEMMA UnlinkedList ==
    ASSUME NEW q \in Seq(Urbs), NEW k \in 1..Len(q), NEW f, NEW next, IdsDrawn(q, f, next)
    PROVE  /\ IdsDrawn(RemoveAt(q, k), f, next)
           /\ \A u : On(u, RemoveAt(q, k)) <=> On(u, q) /\ u # q[k]
<1> DEFINE n == Len(q)
           r == RemoveAt(q, k)
<1>1. DOMAIN q = 1..n /\ k \in 1..n
  OBVIOUS
<1>2. /\ \A j \in DOMAIN r : \E l \in 1..n : l # k /\ r[j] = q[l]
      /\ \A l \in 1..n : l # k => \E j \in DOMAIN r : r[j] = q[l]
      /\ \A j, l \in DOMAIN r : j # l => \E a, b \in 1..n : a # b /\ r[j] = q[a] /\ r[l] = q[b]
  BY RemoveAtEntries
<1> HIDE DEF n, r
<1>3. \A a, b \in 1..n : a # b => f[q[a]].UrbId # f[q[b]].UrbId
  BY <1>1 DEF IdsDrawn
<1>4. \A l \in 1..n : l # k <=> q[l] # q[k]
  BY <1>1, <1>3
<1>5. ASSUME NEW j \in DOMAIN r, NEW l \in DOMAIN r, j # l PROVE f[r[j]].UrbId # f[r[l]].UrbId
  <2>1. PICK a, b \in 1..n : a # b /\ r[j] = q[a] /\ r[l] = q[b]
    BY <1>2, <1>5
  <2>. QED
    BY <1>3, <2>1
<1>6. \A j \in DOMAIN r : f[r[j]].UrbId <= next
  BY <1>1, <1>2 DEF IdsDrawn
<1>7. \A u : On(u, r) <=> On(u, q) /\ u # q[k]
  <2>1. ASSUME NEW u, On(u, r) PROVE On(u, q) /\ u # q[k]
    <3>1. PICK j \in DOMAIN r : r[j] = u
      BY <2>1 DEF On
    <3>2. PICK l \in 1..n : l # k /\ r[j] = q[l]
      BY <1>2
    <3>. QED
      BY <1>1, <1>4, <3>1, <3>2 DEF On
  <2>2. ASSUME NEW u, On(u, q), u # q[k] PROVE On(u, r)
    <3>1. PICK l \in 1..n : q[l] = u
      BY <1>1, <2>2 DEF On
    <3>2. PICK j \in DOMAIN r : r[j] = q[l]
      BY <1>2, <2>2, <3>1
    <3>. QED
      BY <3>1, <3>2 DEF On
  <2>. QED
    BY <2>1, <2>2
<1>8. IdsDrawn(r, f, next)
  BY <1>5, <1>6 DEF IdsDrawn
<1>. QED
  BY <1>7, <1>8 DEF r

\* UrbIds of URBs that are not on the list do not matter to it.
LEMMA SameIds ==
    ASSUME NEW q, NEW f, NEW g, NEW next, IdsDrawn(q, f, next), \A u : On(u, q) => g[u].UrbId = f[u].UrbId
    PROVE  IdsDrawn(q, g, next)
<1>1. \A k \in DOMAIN q : g[q[k]].UrbId = f[q[k]].UrbId
  BY DEF On
<1>. QED
  BY <1>1 DEF IdsDrawn

\* An empty list.
LEMMA EmptyList == (\A f, next : IdsDrawn(<<>>, f, next)) /\ (\A u : ~On(u, <<>>)) /\ Len(<<>>) = 0
<1>1. DOMAIN <<>> = {} /\ Len(<<>>) = 0
  OBVIOUS
<1>. QED
  BY <1>1 DEF IdsDrawn, On

\* The lists hold URBs.
LEMMA ListedUrbs ==
    ASSUME UrbTypes
    PROVE  /\ \A i \in Slots : \A u : Listed(u, i) => u \in Urbs
           /\ \A u, i : u \in ToSet(dev[i].PendingUrbs) <=> Listed(u, i)
<1>1. \A i \in Slots : dev[i].PendingUrbs \in Seq(Urbs)
  BY SlotNumbers
<1>2. \A i \in Slots : \A k \in DOMAIN dev[i].PendingUrbs : dev[i].PendingUrbs[k] \in Urbs
  BY <1>1
<1>. QED
  BY <1>2 DEF Listed, On, ToSet

\* URBs leave the lists, or end up on the list of slot h: the rest stay as and
\* where they are.
LEMMA ListChange ==
    ASSUME UrbInv, NEW gone, NEW new, NEW h \in Slots,
           \A u \in Urbs : u \in new => urb[u].status = "none",
           \A u \in Urbs, i \in Slots : Listed(u, i)' <=> (Listed(u, i) /\ u \notin gone) \/ (u \in new /\ i = h),
           \A u \in Urbs : IF u \in new THEN urb'[u].status = "pending"
                           ELSE IF u \in gone THEN urb'[u].status # "pending"
                           ELSE urb'[u].status = "pending" <=> urb[u].status = "pending"
    PROVE  \A u \in Urbs : OnOneList(u)'
<1>1. SUFFICES ASSUME NEW u \in Urbs PROVE OnOneList(u)'
  OBVIOUS
<1>2. OnOneList(u)
  BY DEF UrbInv
<1>3. CASE u \in new
  <2>1. \A i \in Slots : ~Listed(u, i)
    BY <1>2, <1>3 DEF OnOneList
  <2>2. \A i \in Slots : Listed(u, i)' <=> i = h
    BY <1>3, <2>1
  <2>3. urb'[u].status = "pending"
    BY <1>3
  <2>. QED
    BY <2>2, <2>3 DEF OnOneList
<1>4. CASE u \notin new
  <2>1. \A i \in Slots : Listed(u, i)' <=> Listed(u, i) /\ u \notin gone
    BY <1>4
  <2>2. urb'[u].status = "pending" <=> urb[u].status = "pending" /\ u \notin gone
    BY <1>4
  <2>. QED
    BY <1>2, <2>1, <2>2 DEF OnOneList
<1>. QED
  BY <1>3, <1>4

\* A step that leaves lists and URBs alone.
LEMMA UrbQuiet ==
    ASSUME UrbInv, UNCHANGED urbVars,
           \A i \in Slots : /\ dev'[i].DeviceId = dev[i].DeviceId
                            /\ dev'[i].PendingUrbs = dev[i].PendingUrbs
                            /\ dev'[i].PendingUrbCount = dev[i].PendingUrbCount
                            /\ dev'[i].NextUrbId = dev[i].NextUrbId
    PROVE  UrbInv'
<1>1. urb' = urb /\ nextUrb' = nextUrb /\ found' = found
  BY DEF urbVars
<1>2. \A u : \A i \in Slots : (Listed(u, i)' <=> Listed(u, i)) /\ (Active(i)' <=> Active(i)) /\ Id(i)' = Id(i)
  BY DEF Listed, Active, Id
<1>3. \A u \in Urbs : OnOneList(u)' /\ Placed(u)'
  BY <1>1, <1>2 DEF UrbInv, OnOneList, Placed
<1>4. \A i \in Slots : IdsDrawn(dev'[i].PendingUrbs, urb', dev'[i].NextUrbId)
  BY <1>1 DEF UrbInv
<1>5. NoneDropped' => NoneDropped
  BY <1>1 DEF NoneDropped
<1>6. NoneDropped' => \A i \in Slots : dev'[i].PendingUrbCount = Len(dev'[i].PendingUrbs)
  BY <1>5 DEF UrbInv
<1>7. (\A u \in Urbs : u > nextUrb' => urb'[u].status = "none") /\ (found' # NoLookup => urb'[found'.urb].status = "none")
  BY <1>1 DEF UrbInv
<1>. QED
  BY <1>3, <1>4, <1>6, <1>7 DEF UrbInv

\* The URB between lookup and insert has been submitted.
LEMMA FoundUrb == UrbTypes /\ CountInv /\ found # NoLookup => found.urb \in Urbs /\ found.slot \in Slots
BY SlotNumbers DEF CountInv, Urbs

\* Zeroing slots ends the URBs on their lists: CleanupDevices frees them, and
\* InitializeDevice, on an inactive slot, loses them.
LEMMA UrbZero ==
    ASSUME UrbTypes, CountInv, UrbInv, NEW slots \in SUBSET Slots, NEW st \in {"freed", "lost"},
           UNCHANGED <<nextUrb, found>>, urb' = EndListed(slots, st),
           \A i \in Slots : IF i \in slots
                            THEN dev'[i].PendingUrbs = <<>> /\ dev'[i].PendingUrbCount = 0
                            ELSE dev'[i] = dev[i],
           st = "lost" => \A i \in slots : ~Active(i)
    PROVE  UrbInv'
<1> DEFINE gone == {u \in Urbs : \E i \in slots : Listed(u, i)}
<1>1. \A u \in Urbs : /\ u \in gone => urb'[u].status = st /\ urb'[u].late = urb[u].late
                      /\ u \notin gone => urb'[u] = urb[u]
  <2>1. \A u \in Urbs : urb[u].late \in BOOLEAN
    BY DEF UrbTypes, UrbType
  <2>2. \A u \in Urbs : urb'[u] = IF u \in gone THEN Ended(st, urb[u].late, FALSE) ELSE urb[u]
    BY ListedUrbs DEF EndListed
  <2>3. st \in {"completed", "freed", "lost"} /\ FALSE \in BOOLEAN
    OBVIOUS
  <2>4. \A u \in Urbs : Ended(st, urb[u].late, FALSE).status = st /\ Ended(st, urb[u].late, FALSE).late = urb[u].late
    BY <2>1, <2>3, EndedFacts
  <2>. QED
    BY <2>2, <2>4
<1>1a. \A u \in gone : u \in Urbs /\ \E i \in slots : Listed(u, i)
  OBVIOUS
<1>1b. \A u \in Urbs : \A i \in slots : Listed(u, i) => u \in gone
  OBVIOUS
<1> HIDE DEF gone
<1>2. \A u \in Urbs : OnOneList(u)
  BY DEF UrbInv
<1>3. \A u \in gone : urb[u].status = "pending" /\ \A i \in Slots : Listed(u, i) => i \in slots
  BY <1>1a, <1>2 DEF OnOneList
<1>4. \A u \in Urbs, i \in Slots : Listed(u, i)' <=> Listed(u, i) /\ u \notin gone
  <2>1. ASSUME NEW u \in Urbs, NEW i \in slots PROVE ~Listed(u, i)' /\ (Listed(u, i) => u \in gone)
    BY <1>1b, EmptyList DEF Listed
  <2>2. ASSUME NEW u \in Urbs, NEW i \in Slots, i \notin slots PROVE (Listed(u, i)' <=> Listed(u, i)) /\ (Listed(u, i) => u \notin gone)
    BY <1>3, <2>2 DEF Listed
  <2>. QED
    BY <2>1, <2>2
<1>6. ASSUME NEW u \in Urbs PROVE OnOneList(u)'
  <2>1. OnOneList(u) /\ \A i \in Slots : Listed(u, i)' <=> Listed(u, i) /\ u \notin gone
    BY <1>2, <1>4
  <2>2. urb'[u].status = "pending" <=> urb[u].status = "pending" /\ u \notin gone
    BY <1>1
  <2>. QED
    BY <2>1, <2>2 DEF OnOneList
<1>7. \A u \in Urbs : Placed(u)'
  <2>1. SUFFICES ASSUME NEW u \in Urbs PROVE Placed(u)'
    OBVIOUS
  <2>2. Placed(u)
    BY DEF UrbInv
  <2>3. CASE u \in gone
    <3>1. urb'[u].status = st /\ urb'[u].late = urb[u].late /\ \A i \in Slots : ~Listed(u, i)'
      BY <1>1, <1>4, <2>3
    <3>2. PICK i \in slots : Listed(u, i)
      BY <1>1a, <2>3
    <3>3. st = "lost" => urb[u].late
      BY <2>2, <3>2 DEF Placed
    <3>. QED
      BY <3>1, <3>3 DEF Placed
  <2>4. CASE u \notin gone
    <3>1. urb'[u] = urb[u]
      BY <1>1, <2>4
    <3>2. \A i \in Slots : Listed(u, i)' => Listed(u, i) /\ i \notin slots
      BY <1>1b, <1>4, <2>4
    <3>3. \A i \in Slots : i \notin slots => (Active(i)' <=> Active(i)) /\ Id(i)' = Id(i)
      BY DEF Active, Id
    <3>. QED
      BY <2>2, <3>1, <3>2, <3>3 DEF Placed
  <2>. QED
    BY <2>3, <2>4
<1>8. \A i \in Slots : IdsDrawn(dev'[i].PendingUrbs, urb', dev'[i].NextUrbId)
  <2>1. ASSUME NEW i \in Slots, i \notin slots PROVE IdsDrawn(dev'[i].PendingUrbs, urb', dev'[i].NextUrbId)
    <3>1. dev'[i] = dev[i] /\ IdsDrawn(dev[i].PendingUrbs, urb, dev[i].NextUrbId)
      BY <2>1 DEF UrbInv
    <3>2. \A u : On(u, dev[i].PendingUrbs) => u \in Urbs /\ u \notin gone
      BY <1>3, <2>1, ListedUrbs DEF Listed
    <3>3. \A u : On(u, dev[i].PendingUrbs) => urb'[u].UrbId = urb[u].UrbId
      BY <1>1, <3>2
    <3>. QED
      BY <3>1, <3>3, SameIds
  <2>2. ASSUME NEW i \in slots PROVE IdsDrawn(dev'[i].PendingUrbs, urb', dev'[i].NextUrbId)
    BY EmptyList
  <2>. QED
    BY <2>1, <2>2
<1>9. NoneDropped' => \A i \in Slots : dev'[i].PendingUrbCount = Len(dev'[i].PendingUrbs)
  <2>1. NoneDropped' => NoneDropped
    BY <1>1, <1>3 DEF NoneDropped
  <2>. QED
    BY <2>1, EmptyList DEF UrbInv
<1>10. \A u \in Urbs : urb[u].status = "none" => urb'[u].status = "none"
  BY <1>1, <1>3
<1>11. found # NoLookup => found.urb \in Urbs
  BY FoundUrb
<1>. QED
  BY <1>6, <1>7, <1>8, <1>9, <1>10, <1>11 DEF UrbInv

\* CleanupDevices is such a step ...
LEMMA UrbCleanup ==
    ASSUME UrbTypes, CountInv, UrbInv, NEW slots \in SUBSET Slots, CleanupDevices(slots), UNCHANGED <<nextUrb, found>>
    PROVE  UrbInv'
<1>1. \A i \in Slots : dev[i].NextUrbId \in 0..MaxUrbs
  BY DEF UrbTypes, DeviceType
<1>2. \A i \in Slots : IF i \in slots
                       THEN dev'[i].PendingUrbs = <<>> /\ dev'[i].PendingUrbCount = 0
                       ELSE dev'[i] = dev[i]
  BY <1>1, NoDeviceType DEF CleanupDevices
<1>3. urb' = EndListed(slots, "freed") /\ "freed" # "lost"
  BY DEF CleanupDevices
<1>. QED
  BY <1>2, <1>3, UrbZero

\* ... and so is VusbUsCreateDevice.
LEMMA UrbCreate ==
    ASSUME OwnTypes, UrbTypes, CountInv, UrbInv, NEW s \in Sessions, VusbUsCreateDevice(s)
    PROVE  UrbInv'
<1>1. PICK i \in Slots : /\ ~Active(i) /\ urb' = EndListed({i}, "lost")
                         /\ dev' = [dev EXCEPT ![i] = [NoDevice EXCEPT !.DeviceId = NextDeviceId + 1]]
  BY DEF VusbUsCreateDevice
<1>2. NextDeviceId + 1 \in 0..MaxCreates /\ nextUrb' = nextUrb /\ found' = found
  BY DEF VusbUsCreateDevice, Ids
<1>3. \A j \in Slots : IF j \in {i}
                       THEN dev'[j].PendingUrbs = <<>> /\ dev'[j].PendingUrbCount = 0
                       ELSE dev'[j] = dev[j]
  BY <1>1, <1>2, NoDeviceType DEF UrbTypes
<1>4. {i} \in SUBSET Slots /\ \A j \in {i} : ~Active(j)
  BY <1>1
<1>. QED
  BY <1>1, <1>2, <1>3, <1>4, UrbZero

\* VusbUsSubmitUrb's lookup draws the next URB ...
LEMMA UrbLookup ==
    ASSUME UrbTypes, CountInv, UrbInv, NEW slot \in Slots, SubmitLookup(slot)
    PROVE  UrbInv'
<1>1. /\ nextUrb' = nextUrb + 1 /\ nextUrb + 1 \in Urbs /\ dev' = dev
      /\ found' = [urb |-> nextUrb + 1, slot |-> slot]
      /\ urb' = [urb EXCEPT ![nextUrb + 1].device = dev[slot].DeviceId]
  BY SlotNumbers, UserspaceAssumption DEF SubmitLookup, deviceVars, Urbs
<1>2. \A u \in Urbs : /\ urb'[u].status = urb[u].status /\ urb'[u].UrbId = urb[u].UrbId /\ urb'[u].late = urb[u].late
                      /\ u # nextUrb + 1 => urb'[u].device = urb[u].device
  BY <1>1 DEF UrbTypes, UrbType
<1>3. \A u \in Urbs : u > nextUrb + 1 => u > nextUrb
  BY SlotNumbers DEF Urbs
<1>4. nextUrb + 1 > nextUrb
  BY SlotNumbers
<1>5. urb[nextUrb + 1].status = "none" /\ \A i \in Slots : ~Listed(nextUrb + 1, i)
  BY <1>1, <1>4 DEF UrbInv, OnOneList
<1>6. \A u, i : (Listed(u, i)' <=> Listed(u, i)) /\ (Active(i)' <=> Active(i)) /\ Id(i)' = Id(i)
  BY <1>1 DEF Listed, Active, Id
<1>7. \A u \in Urbs : OnOneList(u)'
  BY <1>2, <1>6 DEF UrbInv, OnOneList
<1>8. ASSUME NEW u \in Urbs PROVE Placed(u)'
  <2>1. Placed(u)
    BY DEF UrbInv
  <2>2. \A i \in Slots : Listed(u, i) => u # nextUrb + 1
    BY <1>5
  <2>. QED
    BY <1>2, <1>6, <2>1, <2>2 DEF Placed
<1>9. \A i \in Slots : IdsDrawn(dev'[i].PendingUrbs, urb', dev'[i].NextUrbId)
  <2>1. ASSUME NEW i \in Slots PROVE IdsDrawn(dev[i].PendingUrbs, urb', dev[i].NextUrbId)
    <3>1. \A u : On(u, dev[i].PendingUrbs) => urb'[u].UrbId = urb[u].UrbId
      BY <1>2, ListedUrbs DEF Listed
    <3>2. IdsDrawn(dev[i].PendingUrbs, urb, dev[i].NextUrbId)
      BY DEF UrbInv
    <3>. QED
      BY <3>1, <3>2, SameIds
  <2>. QED
    BY <1>1, <2>1
<1>10. NoneDropped' => \A i \in Slots : dev'[i].PendingUrbCount = Len(dev'[i].PendingUrbs)
  <2>1. NoneDropped' => NoneDropped
    BY <1>2 DEF NoneDropped
  <2>. QED
    BY <1>1, <2>1 DEF UrbInv
<1>11. urb'[nextUrb + 1].status = "none" /\ found'.urb = nextUrb + 1
  BY <1>1, <1>2, <1>5
<1>12. \A u \in Urbs : u > nextUrb' => urb'[u].status = "none"
  BY <1>1, <1>2, <1>3 DEF UrbInv
<1>. QED
  BY <1>7, <1>8, <1>9, <1>10, <1>11, <1>12 DEF UrbInv

\* ... and its insert puts it at the head of the list, with a new UrbId.
LEMMA UrbInsert ==
    ASSUME UrbTypes, UrbTypes', CountInv, UrbInv, SubmitInsert
    PROVE  UrbInv'
<1>0. PICK i \in Slots, x \in Urbs : i = found.slot /\ x = found.urb /\ found # NoLookup
  BY FoundUrb DEF SubmitInsert
<1> DEFINE q == dev[i].PendingUrbs
           next == dev[i].NextUrbId
<1>1. urb[x].status = "none" /\ found' = NoLookup /\ nextUrb' = nextUrb
  BY <1>0 DEF UrbInv, SubmitInsert
<1>2. /\ \A u \in Urbs : u # x => urb'[u] = urb[u]
      /\ urb'[x].status = "pending" /\ urb'[x].UrbId = next + 1
      /\ ~urb'[x].late => Active(i) /\ Id(i) = urb'[x].device
  <2>1. PICK late \in BOOLEAN : late = ~(Active(i) /\ dev[i].DeviceId = urb[x].device)
    OBVIOUS
  <2>2. urb' = [urb EXCEPT ![x].status = "pending", ![x].UrbId = next + 1, ![x].late = late]
    BY <1>0, <2>1 DEF SubmitInsert
  <2>3. urb \in [Urbs -> UrbType]
    BY DEF UrbTypes
  <2>4. /\ \A u \in Urbs : u # x => urb'[u] = urb[u]
        /\ urb'[x].status = "pending" /\ urb'[x].UrbId = next + 1 /\ urb'[x].late = late
        /\ urb'[x].device = urb[x].device
    BY <2>2, <2>3 DEF UrbType
  <2>. QED
    BY <2>1, <2>4 DEF Id
<1>3. dev[i] \in DeviceType /\ dev[i].PendingUrbCount + 1 <= MaxUrbs /\ next + 1 <= MaxUrbs /\ next \in Nat /\ q \in Seq(Urbs)
  <2>1. /\ dev[i].PendingUrbCount <= next /\ next < nextUrb
    BY <1>0 DEF CountInv
  <2>2. dev[i] \in DeviceType /\ q \in Seq(Urbs) /\ next \in Nat /\ dev[i].PendingUrbCount \in Nat
        /\ nextUrb \in Nat /\ MaxUrbs \in Nat /\ nextUrb <= MaxUrbs
    BY SlotNumbers
  <2>. QED
    BY <2>1, <2>2
<1>4. /\ dev'[i].DeviceId = dev[i].DeviceId /\ dev'[i].PendingUrbs = <<x>> \o q
      /\ dev'[i].PendingUrbCount = dev[i].PendingUrbCount + 1 /\ dev'[i].NextUrbId = next + 1
      /\ Len(dev'[i].PendingUrbs) = Len(q) + 1
      /\ \A j \in Slots : j # i => dev'[j] = dev[j]
  <2>1. dev'[i] = Push(dev[i], x) /\ \A j \in Slots : j # i => dev'[j] = dev[j]
    BY <1>0 DEF UrbTypes, SubmitInsert
  <2>2. /\ Push(dev[i], x).DeviceId = dev[i].DeviceId
        /\ Push(dev[i], x).PendingUrbs = <<x>> \o q
        /\ Len(Push(dev[i], x).PendingUrbs) = Len(q) + 1
        /\ Push(dev[i], x).PendingUrbCount = dev[i].PendingUrbCount + 1
        /\ Push(dev[i], x).NextUrbId = next + 1
    BY <1>3, PushFacts
  <2>. QED
    BY <2>1, <2>2
<1> HIDE DEF q, next
<1>5. \A j \in Slots : ~Listed(x, j)
  BY <1>1 DEF UrbInv, OnOneList
<1>6. ASSUME NEW j \in Slots PROVE IdsDrawn(dev[j].PendingUrbs, urb', dev[j].NextUrbId)
  <2>1. \A u : On(u, dev[j].PendingUrbs) => urb'[u].UrbId = urb[u].UrbId
    BY <1>2, <1>5, ListedUrbs DEF Listed
  <2>2. IdsDrawn(dev[j].PendingUrbs, urb, dev[j].NextUrbId)
    BY DEF UrbInv
  <2>. QED
    BY <2>1, <2>2, SameIds
<1>7. IdsDrawn(<<x>> \o q, urb', next + 1) /\ \A u : On(u, <<x>> \o q) <=> u = x \/ On(u, q)
  <2>1. \A u \in Urbs : urb'[u].UrbId \in Nat
    BY UserspaceAssumption DEF UrbTypes, UrbType
  <2>2. IdsDrawn(q, urb', next)
    BY <1>6 DEF q, next
  <2>. QED
    BY <1>2, <1>3, <2>1, <2>2, PushedList
<1>8. \A j \in Slots : IdsDrawn(dev'[j].PendingUrbs, urb', dev'[j].NextUrbId)
  BY <1>4, <1>6, <1>7
<1>9. \A u \in Urbs, j \in Slots : Listed(u, j)' <=> (Listed(u, j) /\ u \notin {}) \/ (u \in {x} /\ j = i)
  BY <1>4, <1>7 DEF Listed, q
<1>10. \A u \in Urbs : OnOneList(u)'
  <2>0. PICK new : new = {x}
    OBVIOUS
  <2>0a. PICK gone : gone = {}
    OBVIOUS
  <2>1. \A u \in Urbs : u \in new => urb[u].status = "none"
    BY <1>1, <2>0
  <2>2. \A u \in Urbs : IF u \in new THEN urb'[u].status = "pending"
                        ELSE IF u \in gone THEN urb'[u].status # "pending"
                        ELSE urb'[u].status = "pending" <=> urb[u].status = "pending"
    BY <1>2, <2>0, <2>0a
  <2>3. \A u \in Urbs, j \in Slots : Listed(u, j)' <=> (Listed(u, j) /\ u \notin gone) \/ (u \in new /\ j = i)
    BY <1>9, <2>0, <2>0a
  <2>. QED
    BY <2>1, <2>2, <2>3, ListChange
<1>11. ASSUME NEW u \in Urbs PROVE Placed(u)'
  <2>1. \A j \in Slots : (Active(j)' <=> Active(j)) /\ Id(j)' = Id(j)
    BY <1>4 DEF Active, Id
  <2>2. CASE u = x
    <3>1. \A j \in Slots : Listed(u, j)' => j = i
      BY <1>5, <1>9, <2>2
    <3>. QED
      BY <1>2, <2>1, <2>2, <3>1 DEF Placed
  <2>3. CASE u # x
    <3>1. Placed(u) /\ urb'[u] = urb[u] /\ \A j \in Slots : Listed(u, j)' => Listed(u, j)
      BY <1>2, <1>9, <2>3 DEF UrbInv
    <3>. QED
      BY <2>1, <3>1 DEF Placed
  <2>. QED
    BY <2>2, <2>3
<1>12. NoneDropped' => \A j \in Slots : dev'[j].PendingUrbCount = Len(dev'[j].PendingUrbs)
  <2>1. NoneDropped' => NoneDropped
    BY <1>1, <1>2 DEF NoneDropped
  <2>2. NoneDropped => \A j \in Slots : dev[j].PendingUrbCount = Len(dev[j].PendingUrbs)
    BY DEF UrbInv
  <2>. QED
    BY <1>4, <2>1, <2>2 DEF q
<1>13. \A u \in Urbs : u > nextUrb' => urb'[u].status = "none"
  <2>1. x \in 1..nextUrb
    BY <1>0 DEF CountInv
  <2>2. ~(x > nextUrb)
    BY <2>1, SlotNumbers
  <2>. QED
    BY <1>1, <1>2, <2>2 DEF UrbInv
<1>. QED
  BY <1>1, <1>8, <1>10, <1>11, <1>12, <1>13 DEF UrbInv

\* VusbUsCompleteUrb takes the URB off the one list it was on ...
LEMMA UrbComplete ==
    ASSUME UrbTypes, CountInv, UrbInv, UNCHANGED found,
           NEW i \in Slots, NEW k \in DOMAIN dev[i].PendingUrbs, NEW by \in 0..MaxSessions, CompleteUrb(i, k, by)
    PROVE  UrbInv'
<1> DEFINE q == dev[i].PendingUrbs
<1>1. /\ dev'[i].DeviceId = dev[i].DeviceId /\ dev'[i].PendingUrbs = RemoveAt(q, k)
      /\ dev'[i].PendingUrbCount = dev[i].PendingUrbCount - 1 /\ dev'[i].NextUrbId = dev[i].NextUrbId
      /\ Len(dev'[i].PendingUrbs) = Len(q) - 1 /\ k \in 1..Len(q)
      /\ \A j \in Slots : j # i => dev'[j] = dev[j]
      /\ q[k] \in Urbs /\ nextUrb' = nextUrb
      /\ urb' = [urb EXCEPT ![q[k]] = Completed(q[k], by)]
  BY CompleteFacts
<1>2. PICK x \in Urbs : x = q[k]
  BY <1>1
<1>3. Listed(x, i) /\ urb[x].status = "pending" /\ \A j \in Slots : Listed(x, j) => j = i
  <2>1. Listed(x, i)
    BY <1>2 DEF Listed, On
  <2>. QED
    BY <2>1 DEF UrbInv, OnOneList
<1>4. (\A u \in Urbs : u # x => urb'[u] = urb[u]) /\ urb'[x].status = "completed" /\ urb'[x].late = urb[x].late
  BY <1>1, <1>2, CompletedFacts DEF UrbTypes
<1>5. q \in Seq(Urbs) /\ IdsDrawn(q, urb, dev[i].NextUrbId)
  BY SlotNumbers DEF UrbInv
<1>6. IdsDrawn(RemoveAt(q, k), urb, dev[i].NextUrbId) /\ \A u : On(u, RemoveAt(q, k)) <=> On(u, q) /\ u # x
  BY <1>1, <1>2, <1>5, UnlinkedList
<1> HIDE DEF q
<1>7. \A u \in Urbs, j \in Slots : Listed(u, j)' <=> Listed(u, j) /\ u # x
  <2>1. \A u \in Urbs : Listed(u, i)' <=> Listed(u, i) /\ u # x
    BY <1>1, <1>6 DEF Listed, q
  <2>2. ASSUME NEW u \in Urbs, NEW j \in Slots, j # i PROVE Listed(u, j)' <=> Listed(u, j) /\ u # x
    BY <1>1, <1>3, <2>2 DEF Listed
  <2>. QED
    BY <2>1, <2>2
<1>8. ASSUME NEW j \in Slots PROVE IdsDrawn(dev'[j].PendingUrbs, urb', dev'[j].NextUrbId)
  <2>1. IdsDrawn(dev'[j].PendingUrbs, urb, dev'[j].NextUrbId)
    <3>1. CASE j = i
      BY <1>1, <1>6, <3>1
    <3>2. CASE j # i
      BY <1>1, <3>2 DEF UrbInv
    <3>. QED
      BY <3>1, <3>2
  <2>2. \A u : On(u, dev'[j].PendingUrbs) => u \in Urbs /\ u # x
    <3>1. CASE j = i
      BY <1>1, <1>6, <3>1, ListedUrbs DEF Listed, q
    <3>2. CASE j # i
      BY <1>1, <1>3, <3>2, ListedUrbs DEF Listed
    <3>. QED
      BY <3>1, <3>2
  <2>3. \A u : On(u, dev'[j].PendingUrbs) => urb'[u].UrbId = urb[u].UrbId
    BY <1>4, <2>2
  <2>. QED
    BY <2>1, <2>3, SameIds
<1>9. \A u \in Urbs : OnOneList(u)'
  <2>0. PICK new : new = {}
    OBVIOUS
  <2>0a. PICK gone : gone = {x}
    OBVIOUS
  <2>1. \A u \in Urbs, j \in Slots : Listed(u, j)' <=> (Listed(u, j) /\ u \notin gone) \/ (u \in new /\ j = i)
    BY <1>7, <2>0, <2>0a
  <2>2. \A u \in Urbs : IF u \in new THEN urb'[u].status = "pending"
                        ELSE IF u \in gone THEN urb'[u].status # "pending"
                        ELSE urb'[u].status = "pending" <=> urb[u].status = "pending"
    BY <1>4, <2>0, <2>0a
  <2>3. \A u \in Urbs : u \in new => urb[u].status = "none"
    BY <2>0
  <2>. QED
    BY <2>1, <2>2, <2>3, ListChange, ZenonT(60)
<1>10. ASSUME NEW u \in Urbs PROVE Placed(u)'
  <2>1. \A j \in Slots : (Active(j)' <=> Active(j)) /\ Id(j)' = Id(j)
    BY <1>1 DEF Active, Id
  <2>2. Placed(u) /\ \A j \in Slots : Listed(u, j)' => Listed(u, j) /\ u # x
    BY <1>7 DEF UrbInv
  <2>3. CASE u = x
    BY <1>4, <2>2, <2>3 DEF Placed
  <2>4. CASE u # x
    BY <1>4, <2>1, <2>2, <2>4 DEF Placed
  <2>. QED
    BY <2>3, <2>4
<1>11. NoneDropped' => \A j \in Slots : dev'[j].PendingUrbCount = Len(dev'[j].PendingUrbs)
  <2>1. NoneDropped' => NoneDropped
    BY <1>3, <1>4 DEF NoneDropped
  <2>2. NoneDropped => \A j \in Slots : dev[j].PendingUrbCount = Len(dev[j].PendingUrbs)
    BY DEF UrbInv
  <2>. QED
    BY <1>1, <2>1, <2>2 DEF q
<1>12. \A u \in Urbs : urb[u].status = "none" => urb'[u].status = "none"
  BY <1>3, <1>4
<1>13. found # NoLookup => found.urb \in Urbs
  BY FoundUrb
<1>. QED
  BY <1>1, <1>8, <1>9, <1>10, <1>11, <1>12, <1>13 DEF UrbInv

\* ... and the URB its callback submits is dropped, or becomes the head.
LEMMA UrbResubmit ==
    ASSUME UrbTypes, UrbTypes', CountInv, UrbInv, UNCHANGED found,
           NEW i \in Slots, NEW k \in DOMAIN dev[i].PendingUrbs, NEW by \in 0..MaxSessions,
           CompleteAndResubmit(i, k, by)
    PROVE  UrbInv'
<1> DEFINE q == dev[i].PendingUrbs
           rest == RemoveAt(q, k)
           next == dev[i].NextUrbId
<1>1. /\ dev'[i].DeviceId = dev[i].DeviceId /\ dev'[i].NextUrbId = next + 1
      /\ dev'[i].PendingUrbCount = dev[i].PendingUrbCount
      /\ dev'[i].PendingUrbs = IF k = 1 THEN rest ELSE <<nextUrb + 1>> \o rest
      /\ k # 1 => Len(dev'[i].PendingUrbs) = Len(q)
      /\ k \in 1..Len(q) /\ q[k] \in Urbs /\ nextUrb + 1 \in Urbs /\ rest \in Seq(Urbs)
      /\ \A j \in Slots : j # i => dev'[j] = dev[j]
      /\ urb' = [urb EXCEPT ![q[k]] = Completed(q[k], by), ![nextUrb + 1] = Resubmitted(i, k)]
      /\ nextUrb' = nextUrb + 1 /\ Resubmitted(i, k) \in UrbType
  BY ResubmitFacts
<1>2. PICK x \in Urbs : x = q[k]
  BY <1>1
<1>3. PICK y \in Urbs : y = nextUrb + 1
  BY <1>1
<1>4. Listed(x, i) /\ urb[x].status = "pending" /\ \A j \in Slots : Listed(x, j) => j = i
  <2>1. Listed(x, i)
    BY <1>2 DEF Listed, On
  <2>. QED
    BY <2>1 DEF UrbInv, OnOneList
<1>5. urb[y].status = "none" /\ x # y /\ \A j \in Slots : ~Listed(y, j)
  <2>1. y > nextUrb
    BY <1>3, SlotNumbers
  <2>. QED
    BY <1>4, <2>1 DEF UrbInv, OnOneList
<1>6. /\ \A u \in Urbs : u # x /\ u # y => urb'[u] = urb[u]
      /\ urb'[x].status = "completed" /\ urb'[x].late = urb[x].late
      /\ urb'[y].UrbId = next + 1 /\ urb'[y].device = Id(i)
      /\ urb'[y].status = IF k = 1 THEN "dropped" ELSE "pending"
  <2>1. urb' = [urb EXCEPT ![x] = Completed(x, by), ![y] = Resubmitted(i, k)]
    BY <1>1, <1>2, <1>3
  <2>2. \A u \in Urbs : urb'[u] = IF u = y THEN Resubmitted(i, k) ELSE IF u = x THEN Completed(x, by) ELSE urb[u]
    BY <1>5, <2>1 DEF UrbTypes
  <2>3. /\ Resubmitted(i, k).UrbId = next + 1 /\ Resubmitted(i, k).device = Id(i)
        /\ Resubmitted(i, k).status = IF k = 1 THEN "dropped" ELSE "pending"
    BY DEF Resubmitted, NoUrb, Id
  <2>. QED
    BY <1>5, <2>2, <2>3, CompletedFacts
<1>7. q \in Seq(Urbs) /\ IdsDrawn(q, urb, next) /\ next \in Nat
  BY SlotNumbers DEF UrbInv
<1>8. IdsDrawn(rest, urb, next) /\ \A u : On(u, rest) <=> On(u, q) /\ u # x
  BY <1>1, <1>2, <1>7, UnlinkedList
<1> HIDE DEF q, rest, next
<1>9. \A u : On(u, rest) => u \in Urbs /\ u # x /\ u # y
  BY <1>5, <1>8, ListedUrbs DEF Listed, q
<1>10. IdsDrawn(rest, urb', next)
  <2>1. \A u : On(u, rest) => urb'[u].UrbId = urb[u].UrbId
    BY <1>6, <1>9
  <2>. QED
    BY <1>8, <2>1, SameIds
<1>11. IdsDrawn(<<y>> \o rest, urb', next + 1) /\ \A u : On(u, <<y>> \o rest) <=> u = y \/ On(u, rest)
  <2>1. \A u \in Urbs : urb'[u].UrbId \in Nat
    BY UserspaceAssumption DEF UrbTypes, UrbType
  <2>. QED
    BY <1>1, <1>6, <1>7, <1>10, <2>1, PushedList
<1>12. IdsDrawn(rest, urb', next + 1)
  <2>1. \A j \in DOMAIN rest : urb'[rest[j]].UrbId <= next /\ urb'[rest[j]].UrbId \in Nat
    <3>1. \A j \in DOMAIN rest : rest[j] \in Urbs
      BY <1>9 DEF On
    <3>2. \A u \in Urbs : urb'[u].UrbId \in Nat
      BY UserspaceAssumption DEF UrbTypes, UrbType
    <3>. QED
      BY <1>10, <3>1, <3>2 DEF IdsDrawn
  <2>2. \A j \in DOMAIN rest : urb'[rest[j]].UrbId <= next + 1
    BY <1>7, <2>1
  <2>. QED
    BY <1>10, <2>2 DEF IdsDrawn
<1>13. ASSUME NEW j \in Slots PROVE IdsDrawn(dev'[j].PendingUrbs, urb', dev'[j].NextUrbId)
  <2>1. CASE j = i
    BY <1>1, <1>3, <1>11, <1>12, <2>1
  <2>2. CASE j # i
    <3>1. dev'[j] = dev[j] /\ IdsDrawn(dev[j].PendingUrbs, urb, dev[j].NextUrbId)
      BY <1>1, <2>2 DEF UrbInv
    <3>2. \A u : On(u, dev[j].PendingUrbs) => urb'[u].UrbId = urb[u].UrbId
      BY <1>4, <1>5, <1>6, <2>2, ListedUrbs DEF Listed
    <3>. QED
      BY <3>1, <3>2, SameIds
  <2>. QED
    BY <2>1, <2>2
<1>14. PICK new : new = IF k = 1 THEN {} ELSE {y}
  OBVIOUS
<1>15. \A u \in Urbs, j \in Slots : Listed(u, j)' <=> (Listed(u, j) /\ u \notin {x}) \/ (u \in new /\ j = i)
  <2>1. \A u \in Urbs : On(u, dev'[i].PendingUrbs) <=> (On(u, q) /\ u # x) \/ u \in new
    BY <1>1, <1>3, <1>8, <1>11, <1>14
  <2>2. ASSUME NEW u \in Urbs, NEW j \in Slots, j # i PROVE Listed(u, j)' <=> Listed(u, j) /\ u # x
    BY <1>1, <1>4, <2>2 DEF Listed
  <2>. QED
    BY <2>1, <2>2 DEF Listed, q
<1>16. \A u \in Urbs : OnOneList(u)'
  <2>1. \A u \in Urbs : u \in new => urb[u].status = "none"
    BY <1>5, <1>14
  <2>0. PICK gone : gone = {x}
    OBVIOUS
  <2>2. \A u \in Urbs : IF u \in new THEN urb'[u].status = "pending"
                        ELSE IF u \in gone THEN urb'[u].status # "pending"
                        ELSE urb'[u].status = "pending" <=> urb[u].status = "pending"
    BY <1>5, <1>6, <1>14, <2>0
  <2>3. \A u \in Urbs, j \in Slots : Listed(u, j)' <=> (Listed(u, j) /\ u \notin gone) \/ (u \in new /\ j = i)
    BY <1>15, <2>0
  <2>. QED
    BY <2>1, <2>2, <2>3, ListChange, ZenonT(60)
<1>17. ASSUME NEW u \in Urbs PROVE Placed(u)'
  <2>1. (\A j \in Slots : (Active(j)' <=> Active(j)) /\ Id(j)' = Id(j)) /\ Active(i)
    BY <1>1 DEF Active, Id, CompleteAndResubmit
  <2>2. Placed(u)
    BY DEF UrbInv
  <2>3. CASE u = x
    <3>1. \A j \in Slots : ~Listed(u, j)'
      BY <1>5, <1>14, <1>15, <2>3
    <3>. QED
      BY <1>6, <2>3, <3>1 DEF Placed
  <2>4. CASE u = y
    <3>1. \A j \in Slots : Listed(u, j)' => j = i
      BY <1>5, <1>15, <2>4
    <3>. QED
      BY <1>6, <2>1, <2>4, <3>1 DEF Placed
  <2>5. CASE u # x /\ u # y
    <3>1. \A j \in Slots : Listed(u, j)' => Listed(u, j)
      BY <1>14, <1>15, <2>5
    <3>. QED
      BY <1>6, <2>1, <2>2, <2>5, <3>1 DEF Placed
  <2>. QED
    BY <2>3, <2>4, <2>5
<1>18. NoneDropped' => \A j \in Slots : dev'[j].PendingUrbCount = Len(dev'[j].PendingUrbs)
  <2>1. SUFFICES ASSUME NoneDropped' PROVE \A j \in Slots : dev'[j].PendingUrbCount = Len(dev'[j].PendingUrbs)
    OBVIOUS
  <2>2. k # 1
    BY <1>6, <2>1 DEF NoneDropped
  <2>3. NoneDropped
    BY <1>4, <1>5, <1>6, <2>1 DEF NoneDropped
  <2>4. \A j \in Slots : dev[j].PendingUrbCount = Len(dev[j].PendingUrbs)
    BY <2>3 DEF UrbInv
  <2>. QED
    BY <1>1, <2>2, <2>4 DEF q
<1>19. \A u \in Urbs : u > nextUrb' => urb'[u].status = "none"
  <2>1. \A u \in Urbs : u > nextUrb + 1 => u > nextUrb /\ u # y
    BY <1>3, SlotNumbers DEF Urbs
  <2>2. \A u \in Urbs : u > nextUrb => urb[u].status = "none" /\ u # x
    BY <1>4 DEF UrbInv
  <2>3. nextUrb' = nextUrb + 1
    BY <1>1
  <2>. QED
    BY <1>6, <2>1, <2>2, <2>3
<1>20. found # NoLookup => found.urb \in Urbs /\ found.urb # y
  <2>1. \A u \in 1..nextUrb : u # nextUrb + 1
    BY SlotNumbers
  <2>. QED
    BY <1>3, <2>1, FoundUrb DEF CountInv
<1>21. found' # NoLookup => urb'[found'.urb].status = "none"
  BY <1>4, <1>6, <1>20 DEF UrbInv
<1>. QED
  BY <1>13, <1>16, <1>17, <1>18, <1>19, <1>21 DEF UrbInv

\* Every step keeps the lists sound.
LEMMA UrbStep == ASSUME Types, UrbInv, Next PROVE UrbInv'
<1>0. OwnTypes /\ UrbTypes /\ CountInv /\ UrbTypes'
  BY UrbTypesStep DEF Types
<1>1. CASE UNCHANGED <<deviceVars, DeviceIds, attaching, urbVars>>
  <2>1. UNCHANGED urbVars /\ dev' = dev
    BY <1>1 DEF deviceVars
  <2>. QED
    BY <2>1, UrbQuiet
<1>2. ASSUME NEW s \in Sessions, VusbUsCreateDevice(s) PROVE UrbInv'
  BY <1>0, <1>2, UrbCreate
<1>3. ASSUME NEW s \in Sessions, TrackDevice(s) PROVE UrbInv'
  <2>1. UNCHANGED urbVars
    BY <1>3 DEF TrackDevice
  <2>. QED
    BY <1>0, <1>3, <2>1, TrackKeeps, UrbQuiet
<1>4. ASSUME NEW slots, slots \in SUBSET Slots, CleanupDevices(slots), UNCHANGED <<nextUrb, found>> PROVE UrbInv'
  BY <1>0, <1>4, UrbCleanup
<1>5. ASSUME NEW s \in Sessions, CleanupClientDevices(s) PROVE UrbInv'
  <2>1. PICK slots : slots = {i \in Slots : Active(i) /\ dev[i].DeviceId \in ToSet(DeviceIds[s])}
    OBVIOUS
  <2>. QED
    BY <1>4, <1>5, <2>1 DEF CleanupClientDevices
<1>6. ASSUME NEW s \in Sessions, NEW slot \in Slots, HandleDeviceDetach(s, slot) PROVE UrbInv'
  <2>1. PICK slots : slots = {slot}
    OBVIOUS
  <2>. QED
    BY <1>4, <1>6, <2>1 DEF HandleDeviceDetach
<1>7. CASE VusbUsCleanup
  <2>1. PICK slots : slots = {i \in Slots : Active(i)}
    OBVIOUS
  <2>. QED
    BY <1>4, <1>7, <2>1 DEF VusbUsCleanup
<1>8. CASE \E slot \in Slots : SubmitLookup(slot)
  BY <1>0, <1>8, UrbLookup
<1>9. CASE SubmitInsert
  BY <1>0, <1>9, UrbInsert
<1>10. ASSUME NEW i \in Slots, NEW k \in DOMAIN dev[i].PendingUrbs, NEW by \in 0..MaxSessions,
              VusbUsCompleteUrb(i, k, by), UNCHANGED found
       PROVE  UrbInv'
  BY <1>0, <1>10, UrbComplete, UrbResubmit DEF VusbUsCompleteUrb
<1>. QED
  BY <1>1, <1>2, <1>3, <1>5, <1>6, <1>7, <1>8, <1>9, <1>10, StepCases

----------------------------------------------------------------------------
(* The theorems.                                                           *)

\* The empty server.
LEMMA InitInv == Init => IInv
<1> SUFFICES ASSUME Init PROVE IInv
  OBVIOUS
<1>1. Live = {} /\ Cardinality({}) = 0
  BY FS_EmptySet DEF Init, Live
<1>2. ArrayHoldsLiveClients
  BY <1>1, SessionFacts DEF Init, ArrayHoldsLiveClients, Live
<1>3. SessionsInOrder
  BY UserspaceAssumption DEF Init, SessionsInOrder, Sessions
<1>4. ClientInv
  BY <1>2, <1>3, UserspaceAssumption DEF Init, ClientInv, Phases
<1>5. RunInv
  <2>1. 1 \in 1..(MaxClients + 1)
    BY UserspaceAssumption
  <2>. QED
    BY <2>1 DEF Init, RunInv
<1>6. OwnTypes
  <2>1. <<>> \in Seq(Ids) /\ 0 \in 0..MaxCreates /\ 0 \in 0..MaxSessions
    BY UserspaceAssumption
  <2>. QED
    BY <2>1 DEF Init, OwnTypes
<1>7. UrbTypes
  <2>1. 0 \in 0..MaxCreates /\ 0 \in 0..MaxSessions /\ 0 \in 0..MaxUrbs /\ 0 \in 0..MaxDevices
    BY UserspaceAssumption
  <2>. QED
    BY <2>1, NoDeviceType DEF Init, UrbTypes, UrbType, NoUrb, NoLookup
<1>8. \A i \in Slots : dev[i] = NoDevice
  BY DEF Init
<1>9. CountInv
  BY <1>8, NoDeviceType DEF Init, CountInv
<1>10. OwnInv
  <2>1. DOMAIN <<>> = {}
    OBVIOUS
  <2>2. (\A i \in Slots : ~Active(i) /\ Id(i) = 0) /\ NextDeviceId = 0
    BY <1>8, NoDeviceType DEF Active, Id, Init
  <2>3. \A s \in Sessions : DeviceIds[s] = <<>> /\ attaching[s] = 0 /\ phase[s] = "none" /\ ~Working(s)
    BY DEF Init, Working
  <2>. QED
    BY <2>1, <2>2, <2>3 DEF OwnInv, IdsUnique, SessionLocals, ClaimedIsOwned, ActiveIsClaimed, Claimed
<1>11. UrbInv
  <2>1. DOMAIN <<>> = {}
    OBVIOUS
  <2>2. \A i \in Slots : dev[i].PendingUrbs = <<>> /\ dev[i].PendingUrbCount = Len(dev[i].PendingUrbs)
    BY <1>8, NoDeviceType
  <2>3. \A u \in Urbs : urb[u].status = "none"
    BY DEF Init, NoUrb
  <2>. QED
    BY <2>1, <2>2, <2>3 DEF UrbInv, IdsDrawn, OnOneList, Placed, Listed, On, Init
<1>. QED
  BY <1>4, <1>5, <1>6, <1>7, <1>9, <1>10, <1>11 DEF IInv, Types

\* Every step of every thread keeps the invariant.
LEMMA NextInv == IInv /\ [Next]_vars => IInv'
<1> SUFFICES ASSUME IInv, [Next]_vars PROVE IInv'
  OBVIOUS
<1>1. CASE Next
  <2>1. ClientInv' /\ RunInv'
    BY <1>1, ClientStep, RunStep DEF IInv, Types
  <2>2. OwnTypes' /\ UrbTypes' /\ CountInv'
    BY <1>1, OwnTypesStep, UrbTypesStep DEF IInv, Types
  <2>3. OwnInv'
    BY <1>1, OwnStep DEF IInv
  <2>4. UrbInv'
    BY <1>1, UrbStep DEF IInv
  <2>. QED
    BY <2>1, <2>2, <2>3, <2>4 DEF IInv, Types
<1>2. CASE UNCHANGED vars
  <2>1. /\ UNCHANGED <<dev, NextDeviceId, creator, urb, nextUrb, found, Running, runpc, waitSlot>>
        /\ UNCHANGED <<Clients, ClientCount, NextSessionId, phase, DeviceIds, attaching, told>>
    BY <1>2 DEF vars, deviceVars, clientVars, urbVars, runVars
  <2>2. Types'
    BY <2>1 DEF IInv, Types, ClientInv, ArrayHoldsLiveClients, SessionsInOrder, RunInv, OwnTypes, UrbTypes, CountInv
  <2>3. OwnInv'
    BY <2>1 DEF IInv, OwnInv, Alive, IdsUnique, SessionLocals, ClaimedIsOwned, ActiveIsClaimed, Claimed, Tracks,
                Working, Id, Active
  <2>4. UrbInv'
    <3>1. UNCHANGED urbVars
      BY <2>1 DEF urbVars
    <3>. QED
      BY <2>1, <3>1, UrbQuiet DEF IInv
  <2>. QED
    BY <2>2, <2>3, <2>4 DEF IInv
<1>. QED
  BY <1>1, <1>2

\* The inductive invariant of the userspace server.
THEOREM UserspaceInductive == Spec => []IInv
BY InitInv, NextInv, PTL DEF Spec

\* All variables keep their types; ClientCount and the counters of a slot stay
\* within their bounds, whether or not a callback submits the next URB.
THEOREM UserspaceTypeCorrect == Spec => []TypeOK
<1>1. IInv => TypeOK
  BY CountBound, UserspaceAssumption
     DEF IInv, Types, ClientInv, RunInv, OwnTypes, UrbTypes, Phases, TypeOK
<1>. QED
  BY <1>1, UserspaceInductive, PTL

\* ctx->Clients holds the live connections only, each once, and ClientCount
\* counts them.
THEOREM UserspaceArrayHoldsLiveClients == Spec => []ArrayHoldsLiveClients
<1>1. IInv => ArrayHoldsLiveClients
  BY DEF IInv, Types, ClientInv
<1>. QED
  BY <1>1, UserspaceInductive, PTL

\* Every active device is in the hands of the session that created it and of
\* no other, and a session tracks active devices of its own only: although
\* HandleDeviceAttach tracks the device after DeviceLock is released, a client
\* that goes away leaves no device behind.
THEOREM UserspaceOneOwner == Spec => []OneOwner
<1>1. IInv => OneOwner
  <2> SUFFICES ASSUME IInv, Alive
               PROVE  /\ \A i \in Slots : Active(i) => Responsible(dev[i].DeviceId) = {creator[dev[i].DeviceId]}
                      /\ \A s \in Sessions : phase[s] \in {"serving", "created", "leaving"} =>
                            /\ IsInjective(DeviceIds[s])
                            /\ \A id \in ToSet(DeviceIds[s]) :
                                  \E i \in Slots : dev[i].DeviceId = id /\ dev[i].OwnerClient = s
    BY DEF OneOwner
  <2>1. IdsUnique /\ SessionLocals /\ ClaimedIsOwned /\ ActiveIsClaimed /\ phase \in [Sessions -> Phases]
    BY DEF IInv, OwnInv, Types, ClientInv
  <2>2. \A s \in Sessions : \A id : id \in ToSet(DeviceIds[s]) <=> Tracks(s, id)
    BY DEF ToSet, Tracks
  <2>3. \A s \in Sessions, id \in Ids : s \in Responsible(id) <=> Claimed(s, id)
    <3>1. ASSUME NEW s \in Sessions, NEW id \in Ids, s \in Responsible(id) PROVE Claimed(s, id)
      <4>1. phase[s] \notin {"closing", "freed"} /\ (Tracks(s, id) \/ attaching[s] = id)
        BY <2>2, <3>1 DEF Responsible
      <4>2. id # 0 /\ DOMAIN <<>> = {}
        BY DEF Ids
      <4>3. phase[s] # "none"
        BY <2>1, <4>1, <4>2 DEF SessionLocals, Tracks
      <4>4. Working(s)
        BY <2>1, <4>1, <4>3 DEF Working, Phases
      <4>. QED
        BY <2>1, <4>1, <4>2, <4>4 DEF SessionLocals, Claimed
    <3>2. ASSUME NEW s \in Sessions, NEW id \in Ids, Claimed(s, id) PROVE s \in Responsible(id)
      BY <2>2, <3>2 DEF Responsible, Claimed, Working
    <3>. QED
      BY <3>1, <3>2
  <2>4. ASSUME NEW i \in Slots, Active(i) PROVE Responsible(Id(i)) = {creator[Id(i)]}
    <3>1. Id(i) \in Ids /\ creator[Id(i)] \in Sessions /\ Claimed(creator[Id(i)], Id(i))
      BY <2>1, <2>4, OwnIds DEF ActiveIsClaimed, IInv, Types
    <3>2. Responsible(Id(i)) \subseteq Sessions
      BY DEF Responsible
    <3>3. \A s \in Sessions : s \in Responsible(Id(i)) => s = creator[Id(i)]
      BY <2>1, <2>3, <3>1 DEF ClaimedIsOwned
    <3>4. creator[Id(i)] \in Responsible(Id(i))
      BY <2>3, <3>1
    <3>. QED
      BY <3>2, <3>3, <3>4
  <2>5. ASSUME NEW s \in Sessions, phase[s] \in {"serving", "created", "leaving"}
        PROVE  /\ IsInjective(DeviceIds[s])
               /\ \A id \in ToSet(DeviceIds[s]) : \E i \in Slots : Id(i) = id /\ dev[i].OwnerClient = s
    <3>1. Working(s)
      BY <2>5 DEF Working
    <3>2. ASSUME NEW id \in ToSet(DeviceIds[s]) PROVE \E i \in Slots : Id(i) = id /\ dev[i].OwnerClient = s
      <4>1. Tracks(s, id) /\ id \in Ids
        BY <2>2, OwnIds DEF IInv, Types, Tracks
      <4>. QED
        BY <2>1, <3>1, <4>1 DEF ClaimedIsOwned, Claimed
    <3>. QED
      BY <2>1, <3>1, <3>2 DEF SessionLocals
  <2>. QED
    BY <2>4, <2>5 DEF Id
<1>. QED
  BY <1>1, UserspaceInductive, PTL

(***************************************************************************)
(* The lists hold exactly the pending URBs, under different UrbIds, each   *)
(* with the active device it was submitted to unless it was inserted late; *)
(* until a callback's URB is dropped, PendingUrbCount counts them.         *)
(***************************************************************************)
THEOREM UserspacePendingListSound == Spec => []PendingListSound
<1>1. IInv => PendingListSound
  <2> SUFFICES ASSUME IInv PROVE PendingListSound
    OBVIOUS
  <2>1. UrbTypes /\ UrbInv
    BY DEF IInv, Types
  <2>2. \A u, i : u \in ToSet(dev[i].PendingUrbs) <=> Listed(u, i)
    BY <2>1, ListedUrbs
  <2>3. \A i \in Slots : \A k, l \in DOMAIN dev[i].PendingUrbs :
           urb[dev[i].PendingUrbs[k]].UrbId = urb[dev[i].PendingUrbs[l]].UrbId => k = l
    BY <2>1 DEF UrbInv, IdsDrawn
  <2>4. \A i \in Slots : NoneDropped => dev[i].PendingUrbCount = Len(dev[i].PendingUrbs)
    BY <2>1 DEF UrbInv
  <2>5. \A u \in Urbs : OnOneList(u) /\ Placed(u)
    BY <2>1 DEF UrbInv
  <2>. QED
    BY <2>2, <2>3, <2>4, <2>5 DEF PendingListSound, OnOneList, Placed, Id
<1>. QED
  BY <1>1, UserspaceInductive, PTL

----------------------------------------------------------------------------
(* The lists of all slots implement one abstract queue of URBs.            *)

\* The URBs with a status.
With(status) == {u \in Urbs : urb[u].status = status}

\* Every pair <<slot, position>> that a count covers holds one pending URB, and
\* no URB is at two of them.
LEMMA CountedIsPending ==
    ASSUME UrbTypes, UrbInv, NoneDropped
    PROVE  /\ IsFiniteSet(With("pending"))
           /\ Cardinality(Counted) = Cardinality(With("pending"))
<1>1. IsFiniteSet(Urbs)
  <2>1. 1 \in Int /\ MaxUrbs \in Int
    BY UserspaceAssumption
  <2>2. IsFiniteSet(1..MaxUrbs)
    BY <2>1, FS_Interval
  <2>. QED
    BY <2>2 DEF Urbs
<1>2. IsFiniteSet(With("pending"))
  <2>1. With("pending") \in SUBSET Urbs
    BY DEF With
  <2>. QED
    BY <1>1, <2>1, FS_Subset
<1> DEFINE f == [p \in Counted |-> dev[p[1]].PendingUrbs[p[2]]]
<1>3. \A i \in Slots : DOMAIN dev[i].PendingUrbs = 1..dev[i].PendingUrbCount
  <2>1. \A i \in Slots : dev[i].PendingUrbs \in Seq(Urbs) /\ dev[i].PendingUrbCount = Len(dev[i].PendingUrbs)
    BY SlotNumbers DEF UrbInv
  <2>. QED
    BY <2>1
<1>4. \A p \in Counted : p[1] \in Slots /\ p[2] \in DOMAIN dev[p[1]].PendingUrbs /\ p = <<p[1], p[2]>>
  <2>1. SUFFICES ASSUME NEW p \in Counted
                 PROVE  p[1] \in Slots /\ p[2] \in DOMAIN dev[p[1]].PendingUrbs /\ p = <<p[1], p[2]>>
    OBVIOUS
  <2>2. PICK i \in Slots : p \in {i} \X (1..dev[i].PendingUrbCount)
    BY DEF Counted
  <2>3. PICK n : n = 1..dev[i].PendingUrbCount
    OBVIOUS
  <2>4. p[1] = i /\ p[2] \in n /\ p = <<p[1], p[2]>>
    BY <2>2, <2>3
  <2>. QED
    BY <1>3, <2>3, <2>4
<1>5. \A i \in Slots : \A k \in DOMAIN dev[i].PendingUrbs : <<i, k>> \in Counted /\ <<i, k>>[1] = i /\ <<i, k>>[2] = k
  <2>1. SUFFICES ASSUME NEW i \in Slots, NEW k \in DOMAIN dev[i].PendingUrbs PROVE <<i, k>> \in Counted
    OBVIOUS
  <2>2. <<i, k>> \in {i} \X (1..dev[i].PendingUrbCount)
    BY <1>3
  <2>. QED
    BY <2>2 DEF Counted
<1>6. f \in [Counted -> With("pending")]
  <2>1. \A p \in Counted : dev[p[1]].PendingUrbs[p[2]] \in With("pending")
    BY <1>4, ListedUrbs DEF UrbInv, OnOneList, With, Listed, On
  <2>. QED
    BY <2>1
<1>7. \A p, q \in Counted : f[p] = f[q] => p = q
  <2>1. SUFFICES ASSUME NEW p \in Counted, NEW q \in Counted,
                        dev[p[1]].PendingUrbs[p[2]] = dev[q[1]].PendingUrbs[q[2]]
                 PROVE  p = q
    OBVIOUS
  <2>2. p[1] = q[1]
    <3>1. PICK u \in Urbs : u = dev[p[1]].PendingUrbs[p[2]] /\ Listed(u, p[1])
      BY <1>4, ListedUrbs DEF Listed, On
    <3>2. Listed(u, q[1])
      BY <1>4, <2>1, <3>1 DEF Listed, On
    <3>. QED
      BY <1>4, <3>1, <3>2 DEF UrbInv, OnOneList
  <2>3. p[2] = q[2]
    BY <1>4, <2>1, <2>2 DEF UrbInv, IdsDrawn
  <2>. QED
    BY <1>4, <2>2, <2>3
<1>8. \A u \in With("pending") : \E p \in Counted : f[p] = u
  <2>1. SUFFICES ASSUME NEW u \in With("pending") PROVE \E p \in Counted : dev[p[1]].PendingUrbs[p[2]] = u
    OBVIOUS
  <2>2. PICK i \in Slots : \E k \in DOMAIN dev[i].PendingUrbs : dev[i].PendingUrbs[k] = u
    BY <2>1 DEF UrbInv, OnOneList, With, Listed, On
  <2>3. PICK k \in DOMAIN dev[i].PendingUrbs : dev[i].PendingUrbs[k] = u
    BY <2>2
  <2>. QED
    BY <1>5, <2>3
<1>9. f \in Bijection(Counted, With("pending"))
  <2> HIDE DEF f
  <2>1. DOMAIN f = Counted
    BY <1>6
  <2>2. f \in Injection(Counted, With("pending"))
    BY <1>6, <1>7, <2>1 DEF Injection, IsInjective
  <2>3. f \in Surjection(Counted, With("pending"))
    BY <1>6, <1>8 DEF Surjection
  <2>. QED
    BY <2>2, <2>3 DEF Bijection
<1>10. ExistsBijection(With("pending"), Counted)
  <2>1. ExistsBijection(Counted, With("pending"))
    BY <1>9 DEF ExistsBijection
  <2>. QED
    BY <2>1, Fun_ExistsBijSymmetric
<1>. QED
  BY <1>2, <1>10, FS_Bijection

\* The abstract queue counts with the same Cardinality.
LEMMA SameCardinality == \A S : UrbQueue!Cardinality(S) = Cardinality(S)
BY DEF UrbQueue!Cardinality, Cardinality, UrbQueue!IsFiniteSet, IsFiniteSet

\* The URBs on the lists, as their statuses tell them.
LEMMA ListedIsPending ==
    ASSUME UrbTypes, UrbInv
    PROVE  UNION {ToSet(dev[i].PendingUrbs) : i \in Slots} = With("pending")
<1>1. \A u : u \in UNION {ToSet(dev[i].PendingUrbs) : i \in Slots} <=> \E i \in Slots : u \in ToSet(dev[i].PendingUrbs)
  OBVIOUS
<1>2. \A u, i : u \in ToSet(dev[i].PendingUrbs) <=> Listed(u, i)
  BY ListedUrbs
<1>3. \A i \in Slots : \A u : Listed(u, i) => u \in Urbs
  BY ListedUrbs
<1>4. \A u \in Urbs : u \in With("pending") <=> \E i \in Slots : Listed(u, i)
  BY DEF UrbInv, OnOneList, With
<1>5. With("pending") \subseteq Urbs
  BY DEF With
<1>. QED
  BY <1>1, <1>2, <1>3, <1>4, <1>5

\* Pending and counted are the same URBs.
LEMMA MappedState ==
    UrbTypes /\ UrbInv /\ NoneDropped =>
                          /\ UNION {ToSet(dev[i].PendingUrbs) : i \in Slots} = With("pending")
                          /\ Cardinality(Counted) = Cardinality(With("pending"))
BY CountedIsPending, ListedIsPending

\* The URBs that have ended.
Over == {u \in Urbs : urb[u].status \in {"completed", "freed", "lost"}}

\* What an abstract step has to be when statuses alone are known.
LEMMA MappedStep ==
    ASSUME UrbTypes, UrbInv, NoneDropped, UrbTypes', UrbInv', NoneDropped'
    PROVE  /\ \A S \in SUBSET With("pending") :
                 /\ With("pending")' = With("pending") \ S
                 /\ Over' = Over \cup S
                 => UrbQueue!End(S)
           /\ \A u \in Urbs :
                 /\ u \notin With("pending") \cup Over
                 /\ With("pending")' = With("pending") \cup {u}
                 /\ Over' = Over
                 => UrbQueue!Submit(u)
           /\ \A u \in With("pending"), v \in Urbs :
                 /\ v \notin With("pending") \cup Over
                 /\ With("pending")' = (With("pending") \ {u}) \cup {v}
                 /\ Over' = Over \cup {u}
                 => UrbQueue!EndAndSubmit(u, v)
           /\ /\ With("pending")' = With("pending")
              /\ Over' = Over
              => UNCHANGED UrbQueue!vars
<1>1. /\ UNION {ToSet(dev[i].PendingUrbs) : i \in Slots} = With("pending")
      /\ Cardinality(Counted) = Cardinality(With("pending")) /\ IsFiniteSet(With("pending"))
  BY CountedIsPending, ListedIsPending
<1>2. /\ (UNION {ToSet(dev[i].PendingUrbs) : i \in Slots})' = With("pending")'
      /\ Cardinality(Counted)' = Cardinality(With("pending")')
  <2>1. (UrbTypes /\ UrbInv /\ NoneDropped =>
            /\ UNION {ToSet(dev[i].PendingUrbs) : i \in Slots} = With("pending")
            /\ Cardinality(Counted) = Cardinality(With("pending")))'
    BY MappedState, PTL
  <2>. QED
    BY <2>1
<1>3. /\ {u \in Urbs : urb[u].status \in {"completed", "freed", "lost"}} = Over
      /\ {u \in Urbs : urb[u].status \in {"completed", "freed", "lost"}}' = Over'
  BY DEF Over
<1>4. ASSUME NEW S \in SUBSET With("pending"), With("pending")' = With("pending") \ S,
             Over' = Over \cup S
      PROVE  UrbQueue!End(S)
  <2>1. With("pending") \cap S = S
    OBVIOUS
  <2>2. Cardinality(With("pending") \ S) = Cardinality(With("pending")) - Cardinality(S)
    <3>1. PICK P : P = With("pending")
      OBVIOUS
    <3>2. IsFiniteSet(P) /\ P \cap S = S
      BY <1>1, <2>1, <3>1
    <3>3. Cardinality(P \ S) = Cardinality(P) - Cardinality(P \cap S)
      BY <3>2, FS_Difference
    <3>. QED
      BY <3>1, <3>2, <3>3
  <2>3. Cardinality(Counted)' = Cardinality(Counted) - UrbQueue!Cardinality(S)
    BY <1>1, <1>2, <1>4, <2>2, SameCardinality
  <2>. QED
    BY <1>1, <1>2, <1>3, <1>4, <2>3 DEF UrbQueue!End
<1>5. ASSUME NEW u \in Urbs, u \notin With("pending") \cup Over,
             With("pending")' = With("pending") \cup {u},
             Over' = Over
      PROVE  UrbQueue!Submit(u)
  <2>1. Cardinality(With("pending") \cup {u}) = Cardinality(With("pending")) + 1
    BY <1>1, <1>5, FS_AddElement
  <2>2. Cardinality(Counted)' = Cardinality(Counted) + 1
    BY <1>1, <1>2, <1>5, <2>1
  <2>. QED
    BY <1>1, <1>2, <1>3, <1>5, <2>2 DEF UrbQueue!Submit
<1>6. ASSUME With("pending")' = With("pending"),
             Over' = Over
      PROVE  UNCHANGED UrbQueue!vars
  BY <1>1, <1>2, <1>3, <1>6 DEF UrbQueue!vars
<1>7. ASSUME NEW u \in With("pending"), NEW v \in Urbs, v \notin With("pending") \cup Over,
             With("pending")' = (With("pending") \ {u}) \cup {v}, Over' = Over \cup {u}
      PROVE  UrbQueue!EndAndSubmit(u, v)
  <2>1. PICK P : P = With("pending")
    OBVIOUS
  <2>2. IsFiniteSet(P \ {u}) /\ Cardinality(P \ {u}) = Cardinality(P) - 1 /\ Cardinality(P) \in Nat
    BY <1>1, <1>7, <2>1, FS_RemoveElement, FS_CardinalityType
  <2>3. Cardinality((P \ {u}) \cup {v}) = Cardinality(P \ {u}) + 1
    BY <1>7, <2>1, <2>2, FS_AddElement
  <2>4. Cardinality(Counted)' = Cardinality(Counted)
    <3>1. With("pending")' = (P \ {u}) \cup {v} /\ Cardinality(Counted) = Cardinality(P)
      BY <1>1, <1>7, <2>1
    <3>2. Cardinality(Counted)' = Cardinality((P \ {u}) \cup {v})
      BY <1>2, <3>1
    <3>3. Cardinality((P \ {u}) \cup {v}) = Cardinality(P)
      BY <2>2, <2>3
    <3>. QED
      BY <3>1, <3>2, <3>3
  <2>. QED
    BY <1>1, <1>2, <1>3, <1>7, <2>4 DEF UrbQueue!EndAndSubmit
<1>. QED
  BY <1>4, <1>5, <1>6, <1>7

\* Every step is an operation of the abstract queue or leaves it alone: an
\* insert submits, a completion ends one URB (and its callback may submit the
\* next), and zeroing a slot ends all that are on its list.  A dropped URB stays
\* dropped, so none was dropped before the step either.
LEMMA QueueStep ==
    ASSUME IInv, IInv', [Next]_vars, NoneDropped'
    PROVE  [UrbQueue!Next]_(UrbQueue!vars)
<1>0. UrbTypes /\ UrbInv /\ UrbTypes' /\ UrbInv' /\ CountInv
  BY DEF IInv, Types
<1>0a. \A u \in Urbs : urb'[u].status # "dropped"
  BY DEF NoneDropped
<1>1. ASSUME \A u \in Urbs : urb'[u].status = urb[u].status PROVE UNCHANGED UrbQueue!vars
  <2>1. NoneDropped
    BY <1>0a, <1>1 DEF NoneDropped
  <2>2. With("pending")' = With("pending") /\ Over' = Over
    BY <1>1 DEF With, Over
  <2>. QED
    BY <1>0, <2>1, <2>2, MappedStep
<1>2. ASSUME NEW S \in SUBSET With("pending"), NEW st \in {"completed", "freed", "lost"},
             \A u \in Urbs : urb'[u].status = IF u \in S THEN st ELSE urb[u].status
      PROVE  UrbQueue!Next
  <2>1. \A u \in S : u \in Urbs /\ urb[u].status = "pending"
    BY DEF With
  <2>2. NoneDropped
    BY <1>0a, <1>2, <2>1 DEF NoneDropped
  <2>3. With("pending")' = With("pending") \ S /\ Over' = Over \cup S
    BY <1>2, <2>1 DEF With, Over
  <2>4. UrbQueue!End(S)
    BY <1>0, <2>2, <2>3, MappedStep
  <2>. QED
    BY <1>0, <2>4, ListedIsPending DEF UrbQueue!Next
<1>3. ASSUME NEW slots \in SUBSET Slots, NEW st \in {"freed", "lost"}, urb' = EndListed(slots, st)
      PROVE  UrbQueue!Next
  <2>1. PICK S \in SUBSET Urbs : S = {u \in Urbs : \E i \in slots : Listed(u, i)}
    OBVIOUS
  <2>2. \A u \in Urbs : urb'[u] = IF u \in S THEN Ended(st, urb[u].late, FALSE) ELSE urb[u]
    BY <1>0, <1>3, <2>1, ListedUrbs DEF EndListed
  <2>3. \A u \in Urbs : urb[u].late \in BOOLEAN
    BY <1>0 DEF UrbTypes, UrbType
  <2>3a. st \in {"completed", "freed", "lost"} /\ FALSE \in BOOLEAN
    OBVIOUS
  <2>3b. \A u \in Urbs : Ended(st, urb[u].late, FALSE).status = st
    BY <2>3, <2>3a, EndedFacts
  <2>4. \A u \in Urbs : urb'[u].status = IF u \in S THEN st ELSE urb[u].status
    BY <2>2, <2>3b
  <2>5. S \in SUBSET With("pending")
    BY <1>0, <2>1 DEF With, UrbInv, OnOneList
  <2>. QED
    BY <1>2, <2>4, <2>5
<1>4. CASE SubmitInsert
  <2>1. PICK x \in Urbs : x = found.urb
    BY <1>0, <1>4, FoundUrb DEF SubmitInsert
  <2>2. urb[x].status = "none"
    BY <1>0, <1>4, <2>1 DEF SubmitInsert, UrbInv
  <2>3. \A u \in Urbs : urb'[u].status = IF u = x THEN "pending" ELSE urb[u].status
    BY <1>0, <1>4, <2>1 DEF SubmitInsert, UrbTypes, UrbType
  <2>4. NoneDropped
    BY <1>0a, <2>2, <2>3 DEF NoneDropped
  <2>5. /\ x \notin With("pending") \cup Over
        /\ With("pending")' = With("pending") \cup {x}
        /\ Over' = Over
    BY <2>2, <2>3 DEF With, Over
  <2>6. UrbQueue!Submit(x)
    BY <1>0, <2>4, <2>5, MappedStep
  <2>. QED
    BY <2>6 DEF UrbQueue!Next
<1>5. ASSUME NEW i \in Slots, NEW k \in DOMAIN dev[i].PendingUrbs, NEW by \in 0..MaxSessions,
             CompleteUrb(i, k, by)
      PROVE  UrbQueue!Next
  <2>1. PICK x \in Urbs : x = dev[i].PendingUrbs[k] /\ Listed(x, i)
    BY <1>0, ListedUrbs DEF Listed, On
  <2>2. {x} \in SUBSET With("pending")
    BY <1>0, <2>1 DEF With, UrbInv, OnOneList
  <2>3. urb' = [urb EXCEPT ![x] = Completed(x, by)]
    BY <1>5, <2>1 DEF CompleteUrb
  <2>4. \A u \in Urbs : urb'[u].status = IF u \in {x} THEN "completed" ELSE urb[u].status
    BY <1>0, <2>3, CompletedFacts DEF UrbTypes
  <2>. QED
    BY <1>2, <2>2, <2>4
<1>6. ASSUME NEW i \in Slots, NEW k \in DOMAIN dev[i].PendingUrbs, NEW by \in 0..MaxSessions,
             CompleteAndResubmit(i, k, by)
      PROVE  UrbQueue!Next
  <2>1. /\ urb' = [urb EXCEPT ![dev[i].PendingUrbs[k]] = Completed(dev[i].PendingUrbs[k], by),
                              ![nextUrb + 1] = Resubmitted(i, k)]
        /\ dev[i].PendingUrbs[k] \in Urbs /\ nextUrb + 1 \in Urbs
    BY <1>0, <1>6, ResubmitFacts
  <2>2. PICK x \in Urbs : x = dev[i].PendingUrbs[k] /\ Listed(x, i)
    BY <2>1 DEF Listed, On
  <2>3. PICK y \in Urbs : y = nextUrb + 1 /\ y > nextUrb
    BY <1>0, <2>1, SlotNumbers
  <2>4. urb[x].status = "pending" /\ urb[y].status = "none"
    BY <1>0, <2>2, <2>3 DEF UrbInv, OnOneList
  <2>5. Completed(x, by).status = "completed" /\ Resubmitted(i, k).status = IF k = 1 THEN "dropped" ELSE "pending"
    BY <1>0, CompletedFacts DEF Resubmitted, NoUrb
  <2>6. \A u \in Urbs : urb'[u] = IF u = y THEN Resubmitted(i, k) ELSE IF u = x THEN Completed(x, by) ELSE urb[u]
    BY <1>0, <2>1, <2>2, <2>3 DEF UrbTypes
  <2>7. urb'[y].status = "pending" /\ urb'[x].status = "completed" /\ x # y
    BY <1>0a, <2>4, <2>5, <2>6
  <2>8. NoneDropped
    BY <1>0a, <2>4, <2>6 DEF NoneDropped
  <2>9. /\ x \in With("pending") /\ y \notin With("pending") \cup Over
        /\ With("pending")' = (With("pending") \ {x}) \cup {y}
        /\ Over' = Over \cup {x}
    BY <2>4, <2>6, <2>7 DEF With, Over
  <2>10. UrbQueue!EndAndSubmit(x, y)
    BY <1>0, <2>8, <2>9, MappedStep
  <2>. QED
    BY <2>10 DEF UrbQueue!Next
<1>7. ASSUME NEW slot \in Slots, SubmitLookup(slot) PROVE \A u \in Urbs : urb'[u].status = urb[u].status
  <2>1. urb' = [urb EXCEPT ![nextUrb + 1].device = dev[slot].DeviceId]
    BY <1>7 DEF SubmitLookup
  <2>. QED
    BY <1>0, <2>1 DEF UrbTypes, UrbType
<1>8. ASSUME NEW s \in Sessions, CleanupClientDevices(s) PROVE UrbQueue!Next
  <2>1. PICK slots : slots = {i \in Slots : Active(i) /\ dev[i].DeviceId \in ToSet(DeviceIds[s])}
    OBVIOUS
  <2>. QED
    BY <1>3, <1>8, <2>1 DEF CleanupClientDevices, CleanupDevices
<1>9. ASSUME NEW s \in Sessions, NEW slot \in Slots, HandleDeviceDetach(s, slot) PROVE UrbQueue!Next
  <2>1. PICK slots \in SUBSET Slots : slots = {slot}
    OBVIOUS
  <2>. QED
    BY <1>3, <1>9, <2>1 DEF HandleDeviceDetach, CleanupDevices
<1>10. CASE VusbUsCleanup
  <2>1. PICK slots \in SUBSET Slots : slots = {i \in Slots : Active(i)}
    OBVIOUS
  <2>. QED
    BY <1>3, <1>10, <2>1 DEF VusbUsCleanup, CleanupDevices
<1>11. ASSUME NEW s \in Sessions, VusbUsCreateDevice(s) PROVE UrbQueue!Next
  <2>1. PICK i \in Slots : urb' = EndListed({i}, "lost")
    BY <1>11 DEF VusbUsCreateDevice
  <2>2. PICK slots \in SUBSET Slots : slots = {i}
    OBVIOUS
  <2>. QED
    BY <1>3, <2>1, <2>2
<1>12. CASE UNCHANGED urb
  BY <1>1, <1>12
<1>13. CASE Next
  <2>1. CASE UNCHANGED <<deviceVars, DeviceIds, attaching, urbVars>>
    BY <1>12, <2>1 DEF urbVars
  <2>2. CASE \E s \in Sessions : TrackDevice(s)
    BY <1>12, <2>2 DEF TrackDevice, urbVars
  <2>3. ASSUME NEW i \in Slots, NEW k \in DOMAIN dev[i].PendingUrbs, NEW by \in 0..MaxSessions,
               VusbUsCompleteUrb(i, k, by)
        PROVE  UrbQueue!Next
    BY <1>5, <1>6, <2>3 DEF VusbUsCompleteUrb
  <2>. QED
    BY <1>1, <1>4, <1>7, <1>8, <1>9, <1>10, <1>11, <1>13, <2>1, <2>2, <2>3, StepCases
<1>. QED
  BY <1>12, <1>13 DEF vars, urbVars

(***************************************************************************)
(* Until a callback's URB is dropped, the lists of all slots implement the *)
(* abstract queue: a URB is submitted once, ends only while it is on a     *)
(* list and never comes back, and the counts of all slots, inactive ones   *)
(* included, add up to the URBs that are pending, although devices are     *)
(* looked up without a lock, slots are reused and zeroed with their lists. *)
(***************************************************************************)
THEOREM UserspaceImplementsUrbQueue == Spec => ImplementsUrbQueue
<1>1. Init => UrbQueue!Init
  <2> SUFFICES ASSUME Init PROVE UrbQueue!Init
    OBVIOUS
  <2>1. IInv
    BY InitInv
  <2>2. /\ With("pending") = {} /\ {u \in Urbs : urb[u].status \in {"completed", "freed", "lost"}} = {}
        /\ NoneDropped
    BY DEF Init, With, NoUrb, NoneDropped
  <2>3. UrbTypes /\ UrbInv
    BY <2>1 DEF IInv, Types
  <2>4. Cardinality(Counted) = 0
    BY <2>2, <2>3, CountedIsPending, FS_EmptySet
  <2>. QED
    BY <2>2, <2>3, <2>4, ListedIsPending DEF UrbQueue!Init
<1>2. IInv /\ IInv' /\ [Next]_vars => [NoneDropped' => UrbQueue!Next]_(UrbQueue!vars)
  BY QueueStep
<1>. QED
  BY <1>1, <1>2, UserspaceInductive, PTL DEF Spec, ImplementsUrbQueue

=============================================================================

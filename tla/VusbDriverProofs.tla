-------------------------- MODULE VusbDriverProofs --------------------------
(***************************************************************************)
(* Theorems about the kernel driver's device table and URB list.  The      *)
(* inductive invariant is IInv: the type invariant is not inductive alone, *)
(* since the counters are decremented and stay natural numbers only        *)
(* because they equal what they count, and the list can only lose an entry *)
(* that is linked once.                                                    *)
(***************************************************************************)
EXTENDS VusbDriver, FiniteSetTheorems, SequenceTheorems, TLAPS

----------------------------------------------------------------------------
(* The device table.                                                       *)

TableInv == TableTypeOK /\ CountMatchesSlots

\* The occupied ids are a finite set, so its cardinality is a number.
LEMMA OccupiedFinite ==
    /\ IsFiniteSet(DeviceIds) /\ Cardinality(DeviceIds) = MaxDevices
    /\ IsFiniteSet(Occupied) /\ Cardinality(Occupied) \in 0..MaxDevices
<1>1. IsFiniteSet(DeviceIds) /\ Cardinality(DeviceIds) = MaxDevices
  <2>1. 1 \in Int /\ MaxDevices \in Int
    BY TableAssumption
  <2>2. IsFiniteSet(1..MaxDevices) /\ Cardinality(1..MaxDevices) = MaxDevices
    BY <2>1, FS_Interval, TableAssumption
  <2>. QED
    BY <2>2 DEF DeviceIds
<1>2. Occupied \subseteq DeviceIds
  BY DEF Occupied
<1>3. IsFiniteSet(Occupied) /\ Cardinality(Occupied) <= MaxDevices
  BY <1>1, <1>2, FS_Subset
<1>4. Cardinality(Occupied) \in Nat
  BY <1>3, FS_CardinalityType
<1>. QED
  BY <1>1, <1>3, <1>4, TableAssumption

\* At start the table is empty.
LEMMA TableInitInv == TableInit => TableInv
<1> SUFFICES ASSUME TableInit PROVE TableInv
  OBVIOUS
<1>1. Occupied = {}
  BY DEF TableInit, Occupied, Present, NoDevice
<1>2. Cardinality(Occupied) = 0
  BY <1>1, FS_EmptySet
<1>. QED
  BY <1>2, TableAssumption
  DEF TableInit, TableInv, TableTypeOK, CountMatchesSlots, DeviceType, NoDevice, DeviceStates

\* A step that changes no slot's occupancy preserves the invariant.
LEMMA TableSameSlots ==
    ASSUME TableInv, Devices' \in [DeviceIds -> DeviceType],
           \A id \in DeviceIds : Devices'[id].plug = Devices[id].plug,
           UNCHANGED <<DeviceCount, plugs>>
    PROVE  TableInv'
<1>1. Occupied' = Occupied
  BY DEF Occupied, Present
<1>. QED
  BY <1>1 DEF TableInv, TableTypeOK, CountMatchesSlots

\* VusbCreateVirtualDevice preserves the invariant.
LEMMA CreateInv ==
    ASSUME TableInv, NEW id \in Nat, VusbCreateVirtualDevice(id)
    PROVE  TableInv'
<1>1. CASE /\ DeviceCount < MaxDevices
           /\ FirstFit(id)
           /\ Devices' = [Devices EXCEPT ![id] = NewDevice(plugs + 1)]
           /\ DeviceCount' = DeviceCount + 1
           /\ plugs' = plugs + 1
  <2>1. id \in DeviceIds /\ id \notin Occupied
    BY <1>1 DEF FirstFit, FreeIds
  <2>2. Devices' \in [DeviceIds -> DeviceType] /\ plugs' \in Nat
    <3>1. plugs + 1 \in Nat
      BY DEF TableInv, TableTypeOK
    <3>2. NewDevice(plugs + 1) \in DeviceType
      BY <3>1 DEF DeviceType, NewDevice, DeviceStates
    <3>. QED
      BY <1>1, <3>1, <3>2 DEF TableInv, TableTypeOK
  <2>3. Occupied' = Occupied \cup {id}
    BY <1>1, <2>1 DEF Occupied, Present, TableInv, TableTypeOK, NewDevice
  <2>4. Cardinality(Occupied') = Cardinality(Occupied) + 1
    BY <2>1, <2>3, OccupiedFinite, FS_AddElement
  <2>. QED
    BY <1>1, <2>2, <2>4, TableAssumption DEF TableInv, TableTypeOK, CountMatchesSlots
<1>2. CASE UNCHANGED tableVars
  BY <1>2, TableSameSlots DEF tableVars, TableInv, TableTypeOK
<1>. QED
  BY <1>1, <1>2 DEF VusbCreateVirtualDevice

\* VusbDestroyVirtualDevice preserves the invariant; in particular the
\* count does not go below zero.
LEMMA DestroyInv ==
    ASSUME TableInv, NEW id \in Nat, VusbDestroyVirtualDevice(id)
    PROVE  TableInv'
<1>1. CASE /\ Present(id)
           /\ Devices' = [Devices EXCEPT ![id] = NoDevice]
           /\ DeviceCount' = DeviceCount - 1
           /\ UNCHANGED plugs
  <2>1. id \in DeviceIds /\ id \in Occupied
    BY <1>1 DEF Present, Occupied
  <2>2. Devices' \in [DeviceIds -> DeviceType]
    BY <1>1 DEF TableInv, TableTypeOK, DeviceType, NoDevice, DeviceStates
  <2>3. Occupied' = Occupied \ {id}
    BY <1>1, <2>1 DEF Occupied, Present, TableInv, TableTypeOK, NoDevice
  <2>4. Cardinality(Occupied') = Cardinality(Occupied) - 1
    BY <2>1, <2>3, OccupiedFinite, FS_RemoveElement
  <2>5. Cardinality(Occupied') \in Nat
    <3>1. IsFiniteSet(Occupied')
      BY <2>3, OccupiedFinite, FS_RemoveElement
    <3>. QED
      BY <3>1, FS_CardinalityType
  <2>. QED
    BY <1>1, <2>2, <2>4, <2>5, TableAssumption DEF TableInv, TableTypeOK, CountMatchesSlots
<1>2. CASE UNCHANGED tableVars
  BY <1>2, TableSameSlots DEF tableVars, TableInv, TableTypeOK
<1>. QED
  BY <1>1, <1>2 DEF VusbDestroyVirtualDevice

\* VusbCleanupAllDevices empties the table.
LEMMA CleanupInv ==
    ASSUME TableInv, VusbCleanupAllDevices
    PROVE  TableInv'
<1>1. Occupied' = {}
  BY DEF VusbCleanupAllDevices, Occupied, Present, NoDevice
<1>2. Cardinality(Occupied') = 0
  BY <1>1, FS_EmptySet
<1>3. DeviceCount' = 0
  BY OccupiedFinite, TableAssumption
  DEF VusbCleanupAllDevices, TableInv, TableTypeOK, CountMatchesSlots
<1>4. Devices' \in [DeviceIds -> DeviceType]
  BY DEF VusbCleanupAllDevices, DeviceType, NoDevice, DeviceStates
<1>. QED
  BY <1>2, <1>3, <1>4, TableAssumption
  DEF VusbCleanupAllDevices, TableInv, TableTypeOK, CountMatchesSlots

----------------------------------------------------------------------------
(* The list of pending URBs.                                               *)

\* What RemoveAt, which models RemoveEntryList, leaves of a sequence.
LEMMA RemoveAtFacts ==
    ASSUME NEW S, NEW s \in Seq(S), NEW i \in 1..Len(s)
    PROVE  /\ RemoveAt(s, i) \in Seq(S)
           /\ Len(RemoveAt(s, i)) = Len(s) - 1
           /\ \A j \in 1..(Len(s) - 1) :
                 RemoveAt(s, i)[j] = IF j < i THEN s[j] ELSE s[j + 1]
<1> DEFINE a == SubSeq(s, 1, i - 1)
           b == SubSeq(s, i + 1, Len(s))
<1>1. /\ a \in Seq(S) /\ Len(a) = i - 1
      /\ \A j \in 1..(i - 1) : a[j] = s[j]
  OBVIOUS
<1>2. /\ b \in Seq(S) /\ Len(b) = Len(s) - i
      /\ \A j \in 1..(Len(s) - i) : b[j] = s[i + j]
  OBVIOUS
<1> HIDE DEF a, b
<1>3. RemoveAt(s, i) = a \o b
  BY DEF RemoveAt, a, b
<1>4. a \o b \in Seq(S) /\ Len(a \o b) = Len(s) - 1
  <2>1. a \o b \in Seq(S) /\ Len(a \o b) = Len(a) + Len(b)
    BY <1>1, <1>2, ConcatProperties
  <2>. QED
    BY <1>1, <1>2, <2>1
<1>5. ASSUME NEW j \in 1..(Len(s) - 1)
      PROVE  (a \o b)[j] = IF j < i THEN s[j] ELSE s[j + 1]
  <2>1. CASE j < i
    BY <1>1, <1>2, <2>1
  <2>2. CASE ~(j < i)
    <3>1. (a \o b)[j] = b[j - (i - 1)]
      BY <1>1, <1>2, <2>2
    <3>2. j - (i - 1) \in 1..(Len(s) - i) /\ i + (j - (i - 1)) = j + 1
      BY <2>2
    <3>. QED
      BY <1>2, <2>2, <3>1, <3>2
  <2>. QED
    BY <2>1, <2>2
<1>. QED
  BY <1>3, <1>4, <1>5

UrbInv == CountMatchesList /\ EntryInOnePlace
IInv == TypeOK /\ CountMatchesSlots /\ UrbInv

\* InsertTail puts an entry on the list that is on no list: by VusbQueueUrb
\* a created one, by the re-queue the one the handler holds.
LEMMA InsertTailInv ==
    ASSUME TypeOK, CountMatchesList, ListedIffPending, ListedOnce,
           NEW u \in UrbIds, urb[u].status # "pending", InsertTail(u)
    PROVE  /\ PendingUrbList' \in Seq(UrbIds)
           /\ PendingUrbCount' \in Nat
           /\ Statistics' \in StatisticsType
           /\ urb' \in [UrbIds -> UrbType]
           /\ CountMatchesList' /\ ListedIffPending' /\ ListedOnce'
<1>1. PendingUrbList' \in Seq(UrbIds) /\ Len(PendingUrbList') = Len(PendingUrbList) + 1
  BY DEF InsertTail, TypeOK
<1>2. /\ \A i \in DOMAIN PendingUrbList : PendingUrbList'[i] = PendingUrbList[i]
      /\ PendingUrbList'[Len(PendingUrbList) + 1] = u
      /\ DOMAIN PendingUrbList' = DOMAIN PendingUrbList \cup {Len(PendingUrbList) + 1}
      /\ Len(PendingUrbList) + 1 \notin DOMAIN PendingUrbList
  BY DEF InsertTail, TypeOK
<1>3. urb' \in [UrbIds -> UrbType]
  BY DEF InsertTail, TypeOK, UrbType, UrbStatus, Finished
<1>4. Statistics' \in StatisticsType
  BY DEF InsertTail, TypeOK, StatisticsType
<1>5. /\ urb'[u].status = "pending"
      /\ \A v \in UrbIds : v # u => urb'[v].status = urb[v].status
  BY DEF InsertTail, TypeOK, UrbType
<1>6. \A i \in DOMAIN PendingUrbList : PendingUrbList[i] # u
  BY DEF ListedIffPending
<1>7. ListedIffPending'
  BY <1>2, <1>5, <1>6 DEF ListedIffPending
<1>8. ListedOnce'
  BY <1>2, <1>6 DEF ListedOnce
<1>9. PendingUrbCount' \in Nat /\ CountMatchesList'
  BY <1>1 DEF InsertTail, TypeOK, CountMatchesList
<1>. QED
  BY <1>1, <1>3, <1>4, <1>7, <1>8, <1>9

\* VusbFindUrb takes an entry off the list; with its status set to
\* something else than "pending" the list and the statuses agree again.
LEMMA FindUrbInv ==
    ASSUME TypeOK, CountMatchesList, ListedIffPending, ListedOnce,
           NEW u \in UrbIds, NEW st \in UrbStatus \ {"pending"}, VusbFindUrb(u),
           urb' = [urb EXCEPT ![u].status = st]
    PROVE  /\ urb[u].status = "pending"
           /\ PendingUrbList' \in Seq(UrbIds)
           /\ PendingUrbCount' \in Nat
           /\ urb' \in [UrbIds -> UrbType]
           /\ CountMatchesList' /\ ListedIffPending' /\ ListedOnce'
<1> DEFINE s == PendingUrbList
           n == Len(PendingUrbList)
<1>1. s \in Seq(UrbIds) /\ n \in Nat /\ DOMAIN s = 1..n
  BY DEF TypeOK
<1>2. PICK i \in 1..n : /\ s[i] = u
                        /\ s' = RemoveAt(s, i)
                        /\ PendingUrbCount' = PendingUrbCount - 1
  BY <1>1 DEF VusbFindUrb
<1>3. /\ s' \in Seq(UrbIds)
      /\ Len(s') = n - 1
      /\ \A j \in 1..(n - 1) : s'[j] = IF j < i THEN s[j] ELSE s[j + 1]
  <2> HIDE DEF s, n
  <2>1. n = Len(s)
    BY DEF n, s
  <2>2. \A t \in Seq(UrbIds) : \A k \in 1..Len(t) :
           /\ RemoveAt(t, k) \in Seq(UrbIds)
           /\ Len(RemoveAt(t, k)) = Len(t) - 1
           /\ \A j \in 1..(Len(t) - 1) :
                 RemoveAt(t, k)[j] = IF j < k THEN t[j] ELSE t[j + 1]
    BY RemoveAtFacts
  <2>. QED
    BY <1>1, <1>2, <2>1, <2>2
<1>4. DOMAIN s' = 1..(n - 1)
  BY <1>1, <1>3
<1>5. urb[u].status = "pending"
  BY <1>1, <1>2 DEF ListedIffPending
<1>6. /\ urb' \in [UrbIds -> UrbType]
      /\ urb'[u].status = st
      /\ \A v \in UrbIds : v # u => urb'[v].status = urb[v].status
  BY DEF TypeOK, UrbType
<1>7. \A j \in 1..n : s[j] = u => j = i
  BY <1>1, <1>2 DEF ListedOnce
<1>8. ListedIffPending'
  <2> SUFFICES ASSUME NEW v \in UrbIds
               PROVE  urb'[v].status = "pending" <=> \E j \in DOMAIN s' : s'[j] = v
    BY DEF ListedIffPending
  <2>1. CASE v = u
    <3>1. \A j \in 1..(n - 1) : s'[j] # u
      BY <1>1, <1>2, <1>3, <1>7
    <3>. QED
      BY <1>4, <1>6, <2>1, <3>1
  <2>2. CASE v # u
    <3>1. urb'[v].status = "pending" <=> \E j \in 1..n : s[j] = v
      BY <1>1, <1>6, <2>2 DEF ListedIffPending
    <3>2. ASSUME NEW j \in 1..n, s[j] = v
          PROVE  \E k \in 1..(n - 1) : s'[k] = v
      <4>1. CASE j < i
        BY <1>1, <1>2, <1>3, <3>2, <4>1
      <4>2. CASE j > i
        <5>1. j - 1 \in 1..(n - 1) /\ ~(j - 1 < i) /\ (j - 1) + 1 = j
          BY <1>1, <4>2
        <5>. QED
          BY <1>3, <3>2, <5>1
      <4>. QED
        BY <1>1, <1>2, <2>2, <3>2, <4>1, <4>2
    <3>3. ASSUME NEW j \in 1..(n - 1), s'[j] = v
          PROVE  \E k \in 1..n : s[k] = v
      BY <1>1, <1>3, <3>3
    <3>. QED
      BY <1>4, <3>1, <3>2, <3>3
  <2>. QED
    BY <2>1, <2>2
<1>9. ListedOnce'
  <2> SUFFICES ASSUME NEW j \in 1..(n - 1), NEW k \in 1..(n - 1), s'[j] = s'[k]
               PROVE  j = k
    BY <1>4 DEF ListedOnce
  <2>1. /\ s'[j] = IF j < i THEN s[j] ELSE s[j + 1]
        /\ s'[k] = IF k < i THEN s[k] ELSE s[k + 1]
    BY <1>3
  <2>2. \A a, b \in 1..n : s[a] = s[b] => a = b
    BY <1>1 DEF ListedOnce
  <2>. QED
    BY <1>1, <1>2, <2>1, <2>2
<1>10. PendingUrbCount' \in Nat /\ CountMatchesList'
  BY <1>1, <1>2, <1>3 DEF CountMatchesList
<1>. QED
  BY <1>3, <1>5, <1>6, <1>8, <1>9, <1>10


\* The initial state satisfies the inductive invariant.
LEMMA InitInv == Init => IInv
<1> SUFFICES ASSUME Init PROVE IInv
  OBVIOUS
<1>1. TableInv
  BY TableInitInv DEF Init
<1>2. TypeOK
  <2>1. NoUrb \in UrbType
    BY TableAssumption DEF NoUrb, UrbType, UrbStatus
  <2>2. PendingUrbList \in Seq(UrbIds)
    BY DEF Init
  <2>3. Statistics \in StatisticsType
    BY DEF Init, StatisticsType
  <2>4. plugReply \in [Status: {"none", "SUCCESS"}, DeviceId: 0..MaxDevices]
    BY TableAssumption DEF Init
  <2>5. urb \in [UrbIds -> UrbType]
    BY <2>1 DEF Init
  <2>6. /\ PendingUrbCount \in Nat /\ NextUrbId \in 0..MaxUrbs /\ held \in 0..MaxUrbs
        /\ parked \in Nat /\ requeues \in Nat
    BY DriverAssumption DEF Init
  <2>7. room \in BOOLEAN /\ unloaded \in BOOLEAN
    BY DEF Init
  <2>. QED
    BY <1>1, <2>2, <2>3, <2>4, <2>5, <2>6, <2>7 DEF TypeOK, TableInv
<1>3. UrbInv
  <2>1. urb = [u \in UrbIds |-> NoUrb] /\ PendingUrbList = <<>> /\ held = 0 /\ NextUrbId = 0
        /\ PendingUrbCount = 0
    BY DEF Init
  <2>2. \A u \in UrbIds : urb[u].status = "none" /\ u # 0 /\ u > 0
    BY <2>1, DriverAssumption DEF NoUrb, UrbIds
  <2>. QED
    BY <2>1, <2>2 DEF UrbInv, CountMatchesList, EntryInOnePlace, ListedIffPending,
                      ListedOnce, HeldByHandler, FreshIds
<1>. QED
  BY <1>1, <1>2, <1>3 DEF IInv, TableInv

\* A step on the device table alone.
LEMMA DeviceStepInv ==
    ASSUME IInv, TableInv', UNCHANGED driverVars
    PROVE  IInv'
BY DEF IInv, TypeOK, TableInv, UrbInv, CountMatchesList, EntryInOnePlace, ListedIffPending,
       ListedOnce, HeldByHandler, FreshIds, driverVars

\* VusbUrbCreate: the next id is fresh, so no other entry has it.
LEMMA CreateUrbInv ==
    ASSUME IInv, NEW d \in DeviceIds, NEW large \in BOOLEAN, VusbUrbCreate(d, large)
    PROVE  IInv'
<1> DEFINE v == NextUrbId + 1
           e == [DeviceId |-> d, plug |-> Devices[d].plug, large |-> large,
                 status |-> "created"]
<1>1. v \in UrbIds /\ v \in 1..MaxUrbs /\ NextUrbId' = v /\ urb' = [urb EXCEPT ![v] = e]
  BY DriverAssumption DEF VusbUrbCreate, IInv, TypeOK, UrbIds
<1>2. e \in UrbType
  BY DEF IInv, TypeOK, TableTypeOK, DeviceType, DeviceIds, UrbType, UrbStatus
<1>3. urb[v].status = "none" /\ v # held
  <2>1. urb[v].status = "none"
    BY <1>1, DriverAssumption DEF IInv, TypeOK, UrbInv, EntryInOnePlace, FreshIds, UrbIds
  <2>. QED
    BY <1>1, <2>1 DEF IInv, UrbInv, EntryInOnePlace, HeldByHandler
<1>4. /\ urb' \in [UrbIds -> UrbType]
      /\ urb'[v].status = "created"
      /\ \A w \in UrbIds : w # v => urb'[w] = urb[w]
  BY <1>1, <1>2 DEF IInv, TypeOK
<1>5. TypeOK' /\ CountMatchesSlots' /\ CountMatchesList'
  BY <1>1, <1>4, DriverAssumption
  DEF VusbUrbCreate, IInv, TypeOK, tableVars, TableTypeOK, CountMatchesSlots, Occupied,
      Present, UrbInv, CountMatchesList
<1>6. ListedIffPending' /\ ListedOnce' /\ HeldByHandler'
  BY <1>1, <1>3, <1>4
  DEF VusbUrbCreate, IInv, UrbInv, EntryInOnePlace, ListedIffPending, ListedOnce, HeldByHandler
<1>7. FreshIds'
  <2> SUFFICES ASSUME NEW w \in UrbIds
               PROVE  w > v <=> urb'[w].status = "none"
    BY <1>1 DEF FreshIds
  <2>1. w > NextUrbId <=> urb[w].status = "none"
    BY DEF IInv, UrbInv, EntryInOnePlace, FreshIds
  <2>2. w > v <=> w > NextUrbId /\ w # v
    BY DEF UrbIds, IInv, TypeOK
  <2>. QED
    BY <1>4, <2>1, <2>2, <1>1 DEF UrbIds
<1>. QED
  BY <1>5, <1>6, <1>7 DEF IInv, UrbInv, EntryInOnePlace

\* VusbQueueUrb and the re-queue of GET_PENDING_URB.
LEMMA QueueInv ==
    ASSUME IInv, NEW u \in UrbIds, InsertTail(u), urb[u].status \in {"created", "held"},
           UNCHANGED <<tableVars, NextUrbId, parked, plugReply, unloaded>>,
           requeues' \in Nat, room' \in BOOLEAN,
           \/ held' = held /\ urb[u].status = "created"
           \/ held' = 0 /\ held = u
    PROVE  IInv'
<1>1. /\ TypeOK /\ CountMatchesList /\ ListedIffPending /\ ListedOnce
      /\ HeldByHandler /\ FreshIds
  BY DEF IInv, UrbInv, EntryInOnePlace
<1>2. /\ PendingUrbList' \in Seq(UrbIds)
      /\ PendingUrbCount' \in Nat
      /\ Statistics' \in StatisticsType
      /\ urb' \in [UrbIds -> UrbType]
      /\ CountMatchesList' /\ ListedIffPending' /\ ListedOnce'
  BY <1>1, InsertTailInv
<1>3. urb'[u].status = "pending" /\ \A v \in UrbIds : v # u => urb'[v].status = urb[v].status
  BY <1>1 DEF InsertTail, TypeOK, UrbType
<1>4. TypeOK' /\ CountMatchesSlots'
  BY <1>1, <1>2, DriverAssumption
  DEF IInv, TypeOK, tableVars, TableTypeOK, CountMatchesSlots, Occupied, Present
<1>5. HeldByHandler'
  <2>1. \A v \in UrbIds : v # 0
    BY DEF UrbIds
  <2>. QED
    BY <1>1, <1>3, <2>1 DEF HeldByHandler
<1>6. FreshIds'
  BY <1>1, <1>3 DEF FreshIds
<1>. QED
  BY <1>2, <1>4, <1>5, <1>6 DEF IInv, UrbInv, EntryInOnePlace

\* VusbDequeueUrb: the head of the list moves to the handler.
LEMMA DequeueInv ==
    ASSUME IInv, NEW r \in BOOLEAN, VusbDequeueUrb(r)
    PROVE  IInv'
<1> DEFINE s == PendingUrbList
           h == Head(PendingUrbList)
<1>1. /\ TypeOK /\ CountMatchesList /\ ListedIffPending /\ ListedOnce
      /\ HeldByHandler /\ FreshIds /\ CountMatchesSlots
  BY DEF IInv, UrbInv, EntryInOnePlace
<1>2. s \in Seq(UrbIds) /\ s # <<>> /\ h \in UrbIds /\ h = s[1] /\ Len(s) \in Nat \ {0}
      /\ DOMAIN s = 1..Len(s)
  BY <1>1 DEF TypeOK, VusbDequeueUrb
<1>3. /\ s' \in Seq(UrbIds) /\ Len(s') = Len(s) - 1
      /\ DOMAIN s' = 1..(Len(s) - 1)
      /\ \A j \in 1..(Len(s) - 1) : s'[j] = s[j + 1]
  BY <1>2 DEF VusbDequeueUrb
<1>4. /\ urb' \in [UrbIds -> UrbType]
      /\ urb'[h].status = "held"
      /\ \A v \in UrbIds : v # h => urb'[v].status = urb[v].status
      /\ held' = h /\ held = 0
  BY <1>1, <1>2 DEF VusbDequeueUrb, TypeOK, UrbType, UrbStatus, IoctlIdle
<1>5. urb[h].status = "pending"
  BY <1>1, <1>2 DEF ListedIffPending
<1>6. PendingUrbCount' \in Nat /\ CountMatchesList'
  BY <1>1, <1>2, <1>3 DEF VusbDequeueUrb, CountMatchesList
<1>7. TypeOK' /\ CountMatchesSlots'
  <2>1. held' \in 0..MaxUrbs
    BY <1>2, <1>4, DriverAssumption DEF UrbIds
  <2>. QED
    BY <1>1, <1>3, <1>4, <1>6, <2>1, DriverAssumption
    DEF VusbDequeueUrb, TypeOK, tableVars, TableTypeOK, CountMatchesSlots, Occupied, Present
<1>8. ListedOnce'
  <2> SUFFICES ASSUME NEW j \in 1..(Len(s) - 1), NEW k \in 1..(Len(s) - 1), s'[j] = s'[k]
               PROVE  j = k
    BY <1>3 DEF ListedOnce
  <2>1. j + 1 \in DOMAIN s /\ k + 1 \in DOMAIN s /\ s[j + 1] = s[k + 1]
    BY <1>2, <1>3
  <2>. QED
    BY <1>1, <2>1 DEF ListedOnce
<1>9. ListedIffPending'
  <2> SUFFICES ASSUME NEW v \in UrbIds
               PROVE  urb'[v].status = "pending" <=> \E j \in 1..(Len(s) - 1) : s'[j] = v
    BY <1>3 DEF ListedIffPending
  <2>1. CASE v = h
    <3>1. ASSUME NEW j \in 1..(Len(s) - 1), s'[j] = h PROVE FALSE
      <4>1. 1 \in DOMAIN s /\ j + 1 \in DOMAIN s /\ s[j + 1] = s[1] /\ j + 1 # 1
        BY <1>2, <1>3, <3>1
      <4>. QED
        BY <1>1, <4>1 DEF ListedOnce
    <3>. QED
      BY <1>4, <2>1, <3>1
  <2>2. CASE v # h
    <3>1. urb'[v].status = "pending" <=> \E j \in 1..Len(s) : s[j] = v
      BY <1>1, <1>2, <1>4, <2>2 DEF ListedIffPending
    <3>2. ASSUME NEW j \in 1..Len(s), s[j] = v
          PROVE  \E k \in 1..(Len(s) - 1) : s'[k] = v
      <4>1. j - 1 \in 1..(Len(s) - 1) /\ (j - 1) + 1 = j
        BY <1>2, <2>2, <3>2
      <4>. QED
        BY <1>3, <3>2, <4>1
    <3>3. ASSUME NEW j \in 1..(Len(s) - 1), s'[j] = v
          PROVE  \E k \in 1..Len(s) : s[k] = v
      <4>1. j + 1 \in 1..Len(s)
        BY <1>2
      <4>. QED
        BY <1>3, <3>3, <4>1
    <3>. QED
      BY <3>1, <3>2, <3>3
  <2>. QED
    BY <2>1, <2>2
<1>10. HeldByHandler'
  <2>1. \A v \in UrbIds : v # 0
    BY DEF UrbIds
  <2>. QED
    BY <1>1, <1>4, <2>1 DEF HeldByHandler
<1>11. FreshIds'
  BY <1>1, <1>4, <1>5 DEF FreshIds, VusbDequeueUrb
<1>. QED
  BY <1>6, <1>7, <1>8, <1>9, <1>10, <1>11 DEF IInv, UrbInv, EntryInOnePlace


\* VusbHandleCompleteUrb and VusbHandleCancelUrb.
LEMMA CompleteInv ==
    ASSUME IInv, NEW u \in UrbIds, NEW result \in Finished,
           VusbFindUrb(u), VusbCompleteUrb(u, result),
           UNCHANGED <<DeviceCount, plugs, NextUrbId, held, room, parked, requeues,
                       plugReply, unloaded>>
    PROVE  IInv'
<1>1. /\ TypeOK /\ CountMatchesList /\ ListedIffPending /\ ListedOnce
      /\ HeldByHandler /\ FreshIds /\ TableInv
  BY DEF IInv, UrbInv, EntryInOnePlace, TableInv, TypeOK
<1>2. urb' = [urb EXCEPT ![u].status = result] /\ result \in UrbStatus \ {"pending"}
  BY DEF VusbCompleteUrb, UrbStatus, Finished
<1>3. /\ urb[u].status = "pending"
      /\ PendingUrbList' \in Seq(UrbIds)
      /\ PendingUrbCount' \in Nat
      /\ urb' \in [UrbIds -> UrbType]
      /\ CountMatchesList' /\ ListedIffPending' /\ ListedOnce'
  BY <1>1, <1>2, FindUrbInv
<1>4. /\ urb'[u].status = result
      /\ \A v \in UrbIds : v # u => urb'[v].status = urb[v].status
  BY <1>1, <1>2 DEF TypeOK, UrbType
<1>5. \A c \in BOOLEAN : Increment(c) \in Nat
  BY DEF Increment
<1>6. Statistics' \in StatisticsType
  <2> DEFINE x == Increment(result = "completed")
             y == Increment(result = "canceled")
             z == Increment(~(result = "completed"))
  <2>1. x \in Nat /\ y \in Nat /\ z \in Nat
    BY <1>5
  <2>2. Statistics' = [Statistics EXCEPT !.TotalUrbsCompleted = @ + x,
                                         !.TotalUrbsCanceled  = @ + y,
                                         !.TotalErrors        = @ + z]
    BY DEF VusbCompleteUrb
  <2> HIDE DEF x, y, z
  <2>3. /\ Statistics.TotalUrbsCompleted + x \in Nat
        /\ Statistics.TotalUrbsCanceled + y \in Nat
        /\ Statistics.TotalErrors + z \in Nat
    BY <1>1, <2>1 DEF TypeOK, StatisticsType
  <2>. QED
    BY <1>1, <2>2, <2>3 DEF TypeOK, StatisticsType
<1>7. /\ Devices' \in [DeviceIds -> DeviceType]
      /\ \A id \in DeviceIds : Devices'[id].plug = Devices[id].plug
  <2> DEFINE d == urb[u].DeviceId
             x == Increment(result = "completed")
             z == Increment(~(result = "completed"))
  <2>1. x \in Nat /\ z \in Nat
    BY <1>5
  <2>2. CASE Present(d)
    <3>1. Devices' = [Devices EXCEPT ![d].UrbsCompleted = @ + x, ![d].UrbsError = @ + z]
      BY <2>2 DEF VusbCompleteUrb
    <3> HIDE DEF x, z, d
    <3>2. d \in DeviceIds /\ Devices \in [DeviceIds -> DeviceType]
      BY <1>1, <2>2 DEF Present, TypeOK, TableTypeOK
    <3>3. Devices[d].UrbsCompleted + x \in Nat /\ Devices[d].UrbsError + z \in Nat
      BY <2>1, <3>2 DEF DeviceType
    <3>. QED
      BY <3>1, <3>2, <3>3 DEF DeviceType
  <2>3. CASE ~Present(d)
    BY <1>1, <2>3 DEF VusbCompleteUrb, TypeOK, TableTypeOK
  <2>. QED
    BY <2>2, <2>3
<1>8. TableInv'
  BY <1>1, <1>7, TableSameSlots
<1>9. HeldByHandler' /\ FreshIds'
  BY <1>1, <1>3, <1>4 DEF HeldByHandler, FreshIds, Finished
<1>. QED
  BY <1>1, <1>3, <1>6, <1>8, <1>9, DriverAssumption
  DEF IInv, TypeOK, TableInv, UrbInv, EntryInOnePlace

\* The delivery of a URB to user mode.
LEMMA DeliverInv ==
    ASSUME IInv, GetPendingUrbDeliver
    PROVE  IInv'
<1>1. /\ TypeOK /\ CountMatchesList /\ ListedIffPending /\ ListedOnce
      /\ HeldByHandler /\ FreshIds
  BY DEF IInv, UrbInv, EntryInOnePlace
<1>2. held \in UrbIds /\ urb[held].status = "held" /\ \A v \in UrbIds : v # 0
  BY <1>1 DEF GetPendingUrbDeliver, TypeOK, UrbIds, HeldByHandler
<1>3. /\ urb' \in [UrbIds -> UrbType]
      /\ urb'[held].status = "fetched"
      /\ \A v \in UrbIds : v # held => urb'[v].status = urb[v].status
  BY <1>1, <1>2 DEF GetPendingUrbDeliver, TypeOK, UrbType, UrbStatus
<1>4. TypeOK' /\ CountMatchesSlots' /\ CountMatchesList' /\ ListedOnce'
  <2>1. held' \in 0..MaxUrbs
    BY DriverAssumption DEF GetPendingUrbDeliver
  <2>0. room' \in BOOLEAN
    BY DEF GetPendingUrbDeliver
  <2>2. TypeOK'
    BY <1>1, <1>3, <2>0, <2>1 DEF GetPendingUrbDeliver, TypeOK, tableVars, TableTypeOK
  <2>3. CountMatchesSlots' /\ CountMatchesList' /\ ListedOnce'
    BY <1>1 DEF IInv, GetPendingUrbDeliver, tableVars, CountMatchesSlots, Occupied, Present,
                CountMatchesList, ListedOnce
  <2>. QED
    BY <2>2, <2>3
<1>5. ListedIffPending' /\ HeldByHandler' /\ FreshIds'
  BY <1>1, <1>2, <1>3 DEF GetPendingUrbDeliver, ListedIffPending, HeldByHandler, FreshIds
<1>. QED
  BY <1>4, <1>5 DEF IInv, UrbInv, EntryInOnePlace

\* Requests parked in, or cancelled from, the manual queue.
LEMMA ParkInv ==
    ASSUME IInv, parked' \in Nat, unloaded' \in BOOLEAN, TableInv',
           UNCHANGED <<PendingUrbList, PendingUrbCount, NextUrbId, Statistics,
                       urb, held, room, requeues, plugReply>>
    PROVE  IInv'
BY DEF IInv, TypeOK, TableInv, UrbInv, CountMatchesList, EntryInOnePlace, ListedIffPending,
       ListedOnce, HeldByHandler, FreshIds

\* Every step preserves the inductive invariant.
LEMMA NextInv == IInv /\ [Next]_vars => IInv'
<1> SUFFICES ASSUME IInv, [Next]_vars PROVE IInv'
  OBVIOUS
<1>0. /\ TableInv /\ parked \in Nat /\ requeues \in Nat /\ unloaded \in BOOLEAN
      /\ room \in BOOLEAN /\ HeldByHandler /\ held \in 0..MaxUrbs
  BY DEF IInv, TableInv, TypeOK, UrbInv, EntryInOnePlace
<1>1. ASSUME NEW d \in DeviceIds, NEW large \in BOOLEAN, VusbUrbCreate(d, large)
      PROVE  IInv'
  BY <1>1, CreateUrbInv
<1>2. ASSUME NEW u \in UrbIds, VusbQueueUrb(u) PROVE IInv'
  BY <1>0, <1>2, QueueInv DEF VusbQueueUrb
<1>3. CASE VusbHandlePluginDevice
  <2>1. PICK id \in 0..MaxDevices : /\ VusbCreateVirtualDevice(id)
                                    /\ plugReply' = [Status |-> "SUCCESS", DeviceId |-> id]
    BY <1>3 DEF VusbHandlePluginDevice
  <2>2. TableInv'
    BY <1>0, <2>1, CreateInv
  <2>3. plugReply' \in [Status: {"none", "SUCCESS"}, DeviceId: 0..MaxDevices]
    BY <2>1
  <2>4. TypeOK' /\ CountMatchesSlots'
    BY <1>3, <2>2, <2>3 DEF IInv, TypeOK, TableInv, VusbHandlePluginDevice
  <2>5. UrbInv'
    BY <1>3 DEF IInv, UrbInv, CountMatchesList, EntryInOnePlace, ListedIffPending,
                ListedOnce, HeldByHandler, FreshIds, VusbHandlePluginDevice
  <2>. QED
    BY <2>4, <2>5 DEF IInv
<1>4. ASSUME NEW id \in 0..(MaxDevices + 1), VusbHandleUnplugDevice(id) PROVE IInv'
  BY <1>0, <1>4, DestroyInv, DeviceStepInv DEF VusbHandleUnplugDevice
<1>5. ASSUME NEW id \in DeviceIds, VusbHandleResetDevice(id) PROVE IInv'
  <2>1. /\ Devices' \in [DeviceIds -> DeviceType]
        /\ \A other \in DeviceIds : Devices'[other].plug = Devices[other].plug
    BY <1>0, <1>5
    DEF VusbHandleResetDevice, TableInv, TableTypeOK, DeviceType, DeviceStates
  <2>2. TableInv'
    BY <1>0, <1>5, <2>1, TableSameSlots DEF VusbHandleResetDevice
  <2>. QED
    BY <1>5, <2>2, DeviceStepInv DEF VusbHandleResetDevice
<1>6. ASSUME NEW r \in BOOLEAN, VusbDequeueUrb(r) PROVE IInv'
  BY <1>6, DequeueInv
<1>7. CASE GetPendingUrbPark
  <2>1. TableInv'
    BY <1>0, <1>7, TableSameSlots DEF GetPendingUrbPark, tableVars, TableInv, TableTypeOK
  <2>. QED
    BY <1>0, <1>7, <2>1, ParkInv DEF GetPendingUrbPark
<1>8. CASE GetPendingUrbDeliver
  BY <1>8, DeliverInv
<1>9. CASE GetPendingUrbRequeue
  <2>1. held \in UrbIds
    BY <1>0, <1>9 DEF GetPendingUrbRequeue, UrbIds
  <2>2. InsertTail(held) /\ urb[held].status = "held" /\ held' = 0
    BY <1>0, <1>9, <2>1 DEF GetPendingUrbRequeue, HeldByHandler
  <2>3. requeues' \in Nat
    BY <1>0, <1>9 DEF GetPendingUrbRequeue
  <2>4. room' \in BOOLEAN
    BY <1>9 DEF GetPendingUrbRequeue
  <2>5. UNCHANGED <<tableVars, NextUrbId, parked, plugReply, unloaded>>
    BY <1>9 DEF GetPendingUrbRequeue
  <2>. QED
    BY <2>1, <2>2, <2>3, <2>4, <2>5, QueueInv
<1>10. ASSUME NEW u \in UrbIds, NEW result \in {"completed", "failed"},
              VusbHandleCompleteUrb(u, result)
       PROVE  IInv'
  BY <1>10, CompleteInv DEF VusbHandleCompleteUrb, Finished
<1>11. ASSUME NEW u \in UrbIds, VusbHandleCancelUrb(u) PROVE IInv'
  BY <1>11, CompleteInv DEF VusbHandleCancelUrb, Finished
<1>12. CASE CancelParked
  <2>1. TableInv'
    BY <1>0, <1>12, TableSameSlots DEF CancelParked, tableVars, TableInv, TableTypeOK
  <2>. QED
    BY <1>0, <1>12, <2>1, ParkInv DEF CancelParked
<1>13. CASE VusbEvtDeviceContextCleanup
  BY <1>0, <1>13, CleanupInv, ParkInv DEF VusbEvtDeviceContextCleanup
<1>14. CASE UNCHANGED vars
  <2>1. TableInv'
    BY <1>0, <1>14, TableSameSlots DEF vars, tableVars, TableInv, TableTypeOK
  <2>. QED
    BY <1>14, <2>1, DeviceStepInv DEF vars
<1>. QED
  BY <1>1, <1>2, <1>3, <1>4, <1>5, <1>6, <1>7, <1>8, <1>9, <1>10, <1>11, <1>12, <1>13, <1>14
  DEF Next

----------------------------------------------------------------------------
(***************************************************************************)
(* The inductive invariant holds in every reachable state.                 *)
(***************************************************************************)
THEOREM DriverInductive == Spec => []IInv
BY InitInv, NextInv, PTL DEF Spec

(***************************************************************************)
(* Type correctness, for every table size and every number of URBs; it     *)
(* includes that DeviceCount and PendingUrbCount never wrap below zero.    *)
(***************************************************************************)
THEOREM DriverTypeCorrect == Spec => []TypeOK
<1>1. IInv => TypeOK
  BY DEF IInv
<1>. QED
  BY <1>1, DriverInductive, PTL

(***************************************************************************)
(* The slots of the device table and DeviceCount always agree.             *)
(***************************************************************************)
THEOREM DriverCountMatchesSlots == Spec => []CountMatchesSlots
<1>1. IInv => CountMatchesSlots
  BY DEF IInv
<1>. QED
  BY <1>1, DriverInductive, PTL

(***************************************************************************)
(* The pending list and PendingUrbCount always agree.                      *)
(***************************************************************************)
THEOREM DriverCountMatchesList == Spec => []CountMatchesList
<1>1. IInv => CountMatchesList
  BY DEF IInv, UrbInv
<1>. QED
  BY <1>1, DriverInductive, PTL

(***************************************************************************)
(* Every URB entry is in one place only, so no freed entry is reachable    *)
(* from the pending list.                                                  *)
(***************************************************************************)
THEOREM DriverEntryInOnePlace == Spec => []EntryInOnePlace
<1>1. IInv => EntryInOnePlace
  BY DEF IInv, UrbInv
<1>. QED
  BY <1>1, DriverInductive, PTL


\* A step leaves a finished URB alone: only a created, a pending or a held
\* entry is touched, and the list holds no finished one.
LEMMA FinishedStep ==
    ASSUME IInv, [Next]_vars, NEW v \in UrbIds, urb[v].status \in Finished
    PROVE  urb'[v] = urb[v]
<1>1. /\ urb \in [UrbIds -> UrbType] /\ ListedIffPending /\ HeldByHandler /\ FreshIds
      /\ NextUrbId \in 0..MaxUrbs /\ PendingUrbList \in Seq(UrbIds) /\ held \in 0..MaxUrbs
  BY DEF IInv, TypeOK, UrbInv, EntryInOnePlace
<1>2. /\ urb[v].status \notin {"none", "created", "pending", "held", "fetched"}
  BY DEF Finished
<1>3. ASSUME NEW d \in DeviceIds, NEW large \in BOOLEAN, VusbUrbCreate(d, large)
      PROVE  urb'[v] = urb[v]
  <2>1. v # NextUrbId + 1
    BY <1>1, <1>2 DEF FreshIds, UrbIds
  <2>. QED
    BY <1>1, <1>3, <2>1 DEF VusbUrbCreate
<1>4. ASSUME NEW u \in UrbIds, VusbQueueUrb(u) PROVE urb'[v] = urb[v]
  BY <1>1, <1>2, <1>4 DEF VusbQueueUrb, InsertTail
<1>5. ASSUME NEW r \in BOOLEAN, VusbDequeueUrb(r) PROVE urb'[v] = urb[v]
  <2>1. Head(PendingUrbList) = PendingUrbList[1] /\ 1 \in DOMAIN PendingUrbList
    BY <1>1, <1>5 DEF VusbDequeueUrb
  <2>2. v # Head(PendingUrbList)
    BY <1>1, <1>2, <2>1 DEF ListedIffPending
  <2>. QED
    BY <1>1, <1>5, <2>2 DEF VusbDequeueUrb
<1>6. CASE GetPendingUrbDeliver \/ GetPendingUrbRequeue
  <2>1. v # held
    BY <1>1, <1>2 DEF HeldByHandler
  <2>. QED
    BY <1>1, <1>6, <2>1 DEF GetPendingUrbDeliver, GetPendingUrbRequeue, InsertTail
<1>7. ASSUME NEW u \in UrbIds, NEW result \in Finished, VusbFindUrb(u),
             VusbCompleteUrb(u, result)
      PROVE  urb'[v] = urb[v]
  <2>1. v # u
    BY <1>1, <1>2, <1>7 DEF VusbFindUrb, ListedIffPending
  <2>. QED
    BY <1>1, <1>7, <2>1 DEF VusbCompleteUrb
<1>8. CASE UNCHANGED urb
  BY <1>8
<1>. QED
  BY <1>3, <1>4, <1>5, <1>6, <1>7, <1>8
  DEF Next, vars, driverVars, VusbHandlePluginDevice, VusbHandleUnplugDevice,
      VusbHandleResetDevice, GetPendingUrbPark, VusbHandleCompleteUrb, VusbHandleCancelUrb,
      CancelParked, VusbEvtDeviceContextCleanup, Finished

(***************************************************************************)
(* The Request behind a URB is completed at most once, whatever the order  *)
(* of completions, cancellations and fetches.                              *)
(***************************************************************************)
THEOREM DriverCompletesOnce == Spec => CompletesOnce
<1>1. IInv /\ [Next]_vars =>
          [\A u \in UrbIds : urb[u].status \in Finished => urb'[u] = urb[u]]_vars
  BY FinishedStep
<1>. QED
  BY <1>1, DriverInductive, PTL DEF Spec, CompletesOnce

----------------------------------------------------------------------------
(* Statistics.                                                             *)

\* URBs that have been queued at least once.
Queued == UrbIds \ (With("none") \cup With("created"))

\* The sets that are counted are finite.
LEMMA FiniteStatusSets ==
    /\ IsFiniteSet(Queued) /\ Cardinality(Queued) \in Nat
    /\ \A x : IsFiniteSet(With(x)) /\ Cardinality(With(x)) \in Nat
<1>1. IsFiniteSet(UrbIds)
  <2>1. 1 \in Int /\ MaxUrbs \in Int
    BY DriverAssumption
  <2>. QED
    BY <2>1, FS_Interval DEF UrbIds
<1>2. IsFiniteSet(Queued)
  BY <1>1, FS_Difference DEF Queued
<1>3. ASSUME NEW x PROVE IsFiniteSet(With(x))
  <2>1. With(x) \in SUBSET UrbIds
    BY DEF With
  <2>. QED
    BY <1>1, <2>1, FS_Subset
<1>. QED
  BY <1>2, <1>3, FS_CardinalityType

\* One URB changes its status and the others keep theirs.
Moves(u, st) ==
    /\ st # urb[u].status
    /\ urb'[u].status = st
    /\ \A v \in UrbIds : v # u => urb'[v].status = urb[v].status

\* ... then one set of URBs gains it, one loses it, and the rest stay.
LEMMA MovesFacts ==
    ASSUME NEW u \in UrbIds, NEW st, Moves(u, st)
    PROVE  /\ With(st)' = With(st) \cup {u} /\ u \notin With(st)
           /\ \A x : x # st => With(x)' = With(x) \ {u}
           /\ \A x : x # st /\ x # urb[u].status => With(x)' = With(x)
BY DEF Moves, With

\* A step that changes neither the counters nor the status of any URB.
LEMMA StatisticsStutter ==
    ASSUME StatisticsAgree, UNCHANGED <<Statistics, requeues, urb>>
    PROVE  StatisticsAgree'
<1>1. \A x : With(x)' = With(x)
  BY DEF With
<1>. QED
  BY <1>1 DEF StatisticsAgree

\* A status changes between two that no counter looks at.
LEMMA StatisticsMove ==
    ASSUME StatisticsAgree, NEW u \in UrbIds, NEW st \in UrbStatus \ Finished, Moves(u, st),
           urb[u].status \in UrbStatus \ Finished,
           urb[u].status \in {"none", "created"} <=> st \in {"none", "created"},
           UNCHANGED <<Statistics, requeues>>
    PROVE  StatisticsAgree'
<1>1. \A x \in Finished : With(x)' = With(x)
  BY MovesFacts DEF Finished
<1>2. Queued' = Queued
  BY DEF Queued, With, Moves
<1>. QED
  BY <1>1, <1>2 DEF StatisticsAgree, Queued, Finished

\* InsertTail counts a submission: the URB is queued for the first time, or it
\* is a re-queue.
LEMMA StatisticsQueue ==
    ASSUME StatisticsAgree, TypeOK, NEW u \in UrbIds, InsertTail(u),
           \/ urb[u].status = "created" /\ requeues' = requeues
           \/ urb[u].status = "held" /\ requeues' = requeues + 1
    PROVE  StatisticsAgree'
<1>1. Moves(u, "pending")
  BY DEF InsertTail, Moves, TypeOK, UrbType
<1>2. With("completed")' = With("completed") /\ With("canceled")' = With("canceled")
      /\ With("failed")' = With("failed")
  BY <1>1, MovesFacts
<1>3. /\ Statistics'.TotalUrbsCompleted = Statistics.TotalUrbsCompleted
      /\ Statistics'.TotalUrbsCanceled = Statistics.TotalUrbsCanceled
      /\ Statistics'.TotalErrors = Statistics.TotalErrors
      /\ Statistics'.TotalUrbsSubmitted = Statistics.TotalUrbsSubmitted + 1
  BY DEF InsertTail, TypeOK, StatisticsType
<1>4. Statistics'.TotalUrbsSubmitted = requeues' + Cardinality(Queued')
  <2>1. requeues \in Nat /\ Cardinality(Queued) \in Nat
        /\ Statistics.TotalUrbsSubmitted = requeues + Cardinality(Queued)
    BY FiniteStatusSets DEF TypeOK, StatisticsAgree, Queued
  <2>2. CASE urb[u].status = "created" /\ requeues' = requeues
    <3>1. Queued' = Queued \cup {u} /\ u \notin Queued
      BY <1>1, <2>2 DEF Queued, With, Moves
    <3>2. Cardinality(Queued') = Cardinality(Queued) + 1
      BY <3>1, FiniteStatusSets, FS_AddElement
    <3>. QED
      BY <1>3, <2>1, <2>2, <3>2
  <2>3. CASE urb[u].status = "held" /\ requeues' = requeues + 1
    <3>1. Queued' = Queued
      BY <1>1, <2>3 DEF Queued, With, Moves
    <3>. QED
      BY <1>3, <2>1, <2>3, <3>1
  <2>. QED
    BY <2>2, <2>3
<1>. QED
  BY <1>2, <1>3, <1>4 DEF StatisticsAgree, Queued

\* VusbCompleteUrb counts how the URB ended; a cancellation is an error too.
LEMMA StatisticsComplete ==
    ASSUME StatisticsAgree, TypeOK, NEW u \in UrbIds, NEW result \in Finished,
           urb[u].status = "pending", VusbCompleteUrb(u, result), requeues' = requeues
    PROVE  StatisticsAgree'
<1> DEFINE c(x) == Cardinality(With(x))
           a == Statistics.TotalUrbsCompleted
           b == Statistics.TotalUrbsCanceled
           e == Statistics.TotalErrors
<1>1. Moves(u, result)
  BY DEF VusbCompleteUrb, Moves, TypeOK, UrbType, Finished
<1>2. Queued' = Queued
  BY <1>1 DEF Queued, With, Moves, Finished
<1>3. /\ c(result)' = c(result) + 1
      /\ \A x \in Finished : x # result => c(x)' = c(x)
  <2>1. /\ With(result)' = With(result) \cup {u} /\ u \notin With(result)
        /\ \A x \in Finished : x # result => With(x)' = With(x)
    BY <1>1, MovesFacts DEF Finished
  <2>2. IsFiniteSet(With(result))
    BY FiniteStatusSets
  <2>3. Cardinality(With(result) \cup {u}) = Cardinality(With(result)) + 1
    BY <2>1, <2>2, FS_AddElement
  <2>. QED
    BY <2>1, <2>3
<1>4. /\ a = c("completed") /\ b = c("canceled") /\ e = c("failed") + c("canceled")
      /\ c("completed") \in Nat /\ c("canceled") \in Nat /\ c("failed") \in Nat
  BY FiniteStatusSets DEF StatisticsAgree
<1>5. /\ Statistics'.TotalUrbsSubmitted = Statistics.TotalUrbsSubmitted
      /\ Statistics'.TotalUrbsCompleted = a + Increment(result = "completed")
      /\ Statistics'.TotalUrbsCanceled = b + Increment(result = "canceled")
      /\ Statistics'.TotalErrors = e + Increment(~(result = "completed"))
  BY DEF VusbCompleteUrb, TypeOK, StatisticsType
<1> HIDE DEF c, a, b, e
<1>6. /\ Statistics'.TotalUrbsCompleted = c("completed")'
      /\ Statistics'.TotalUrbsCanceled = c("canceled")'
      /\ Statistics'.TotalErrors = c("failed")' + c("canceled")'
  <2>1. CASE result = "completed"
    BY <1>3, <1>4, <1>5, <2>1 DEF Increment, Finished
  <2>2. CASE result = "canceled"
    BY <1>3, <1>4, <1>5, <2>2 DEF Increment, Finished
  <2>3. CASE result = "failed"
    BY <1>3, <1>4, <1>5, <2>3 DEF Increment, Finished
  <2>. QED
    BY <2>1, <2>2, <2>3 DEF Finished
<1>. QED
  BY <1>2, <1>5, <1>6 DEF StatisticsAgree, Queued, c

\* Every step keeps the counters and the URBs in agreement.
LEMMA StatisticsStep == IInv /\ StatisticsAgree /\ [Next]_vars => StatisticsAgree'
<1> SUFFICES ASSUME IInv, StatisticsAgree, [Next]_vars PROVE StatisticsAgree'
  OBVIOUS
<1>0. /\ TypeOK /\ urb \in [UrbIds -> UrbType] /\ ListedIffPending /\ HeldByHandler /\ FreshIds
      /\ NextUrbId \in 0..MaxUrbs /\ PendingUrbList \in Seq(UrbIds) /\ held \in 0..MaxUrbs
  BY DEF IInv, TypeOK, UrbInv, EntryInOnePlace
<1>1. ASSUME NEW d \in DeviceIds, NEW large \in BOOLEAN, VusbUrbCreate(d, large)
      PROVE  StatisticsAgree'
  <2>1. NextUrbId + 1 \in UrbIds /\ urb[NextUrbId + 1].status = "none"
    BY <1>0, <1>1, DriverAssumption DEF VusbUrbCreate, UrbIds, FreshIds
  <2>2. Moves(NextUrbId + 1, "created")
    BY <1>0, <1>1, <2>1 DEF VusbUrbCreate, Moves
  <2>3. UNCHANGED <<Statistics, requeues>>
    BY <1>1 DEF VusbUrbCreate
  <2>. QED
    BY <2>1, <2>2, <2>3, StatisticsMove DEF UrbStatus, Finished
<1>2. ASSUME NEW u \in UrbIds, VusbQueueUrb(u) PROVE StatisticsAgree'
  BY <1>0, <1>2, StatisticsQueue DEF VusbQueueUrb
<1>3. ASSUME NEW r \in BOOLEAN, VusbDequeueUrb(r) PROVE StatisticsAgree'
  <2> DEFINE h == Head(PendingUrbList)
  <2>1. h \in UrbIds /\ h = PendingUrbList[1] /\ 1 \in DOMAIN PendingUrbList
    BY <1>0, <1>3 DEF VusbDequeueUrb
  <2>2. urb[h].status = "pending"
    BY <1>0, <2>1 DEF ListedIffPending
  <2>3. Moves(h, "held")
    BY <1>0, <1>3, <2>1, <2>2 DEF VusbDequeueUrb, Moves, UrbType
  <2>4. UNCHANGED <<Statistics, requeues>>
    BY <1>3 DEF VusbDequeueUrb
  <2>. QED
    BY <2>1, <2>2, <2>3, <2>4, StatisticsMove DEF UrbStatus, Finished
<1>4. CASE GetPendingUrbDeliver
  <2>1. held \in UrbIds /\ urb[held].status = "held"
    BY <1>0, <1>4 DEF GetPendingUrbDeliver, UrbIds, HeldByHandler
  <2>2. Moves(held, "fetched")
    BY <1>0, <1>4, <2>1 DEF GetPendingUrbDeliver, Moves, UrbType
  <2>3. UNCHANGED <<Statistics, requeues>>
    BY <1>4 DEF GetPendingUrbDeliver
  <2>. QED
    BY <2>1, <2>2, <2>3, StatisticsMove DEF UrbStatus, Finished
<1>5. CASE GetPendingUrbRequeue
  <2>1. held \in UrbIds /\ urb[held].status = "held"
    BY <1>0, <1>5 DEF GetPendingUrbRequeue, UrbIds, HeldByHandler
  <2>. QED
    BY <1>0, <1>5, <2>1, StatisticsQueue DEF GetPendingUrbRequeue
<1>6. ASSUME NEW u \in UrbIds, NEW result \in Finished, VusbFindUrb(u),
             VusbCompleteUrb(u, result), requeues' = requeues
      PROVE  StatisticsAgree'
  <2>1. urb[u].status = "pending"
    BY <1>0, <1>6 DEF VusbFindUrb, ListedIffPending
  <2>. QED
    BY <1>0, <1>6, <2>1, StatisticsComplete
<1>7. CASE UNCHANGED <<Statistics, requeues, urb>>
  BY <1>7, StatisticsStutter
<1>. QED
  BY <1>1, <1>2, <1>3, <1>4, <1>5, <1>6, <1>7
  DEF Next, vars, driverVars, VusbHandlePluginDevice, VusbHandleUnplugDevice,
      VusbHandleResetDevice, GetPendingUrbPark, VusbHandleCompleteUrb, VusbHandleCancelUrb,
      CancelParked, VusbEvtDeviceContextCleanup, Finished

(***************************************************************************)
(* What GET_STATISTICS reports accounts for every URB, in every reachable  *)
(* state: the counters that four functions increment are the numbers of    *)
(* URBs that ended each way and of the submissions, re-queues included.    *)
(***************************************************************************)
THEOREM DriverStatisticsAgree == Spec => []StatisticsAgree
<1>1. Init => StatisticsAgree
  <2> SUFFICES ASSUME Init PROVE StatisticsAgree
    OBVIOUS
  <2>1. \A u \in UrbIds : urb[u].status = "none"
    BY DEF Init, NoUrb
  <2>2. /\ With("completed") = {} /\ With("canceled") = {} /\ With("failed") = {}
        /\ UrbIds \ (With("none") \cup With("created")) = {}
    BY <2>1 DEF With
  <2>3. /\ Statistics.TotalUrbsCompleted = 0 /\ Statistics.TotalUrbsCanceled = 0
        /\ Statistics.TotalErrors = 0 /\ Statistics.TotalUrbsSubmitted = 0 /\ requeues = 0
    BY DEF Init
  <2>4. Cardinality({}) = 0
    BY FS_EmptySet
  <2>. QED
    BY <2>2, <2>3, <2>4 DEF StatisticsAgree
<1>. QED
  BY <1>1, StatisticsStep, DriverInductive, PTL DEF Spec

----------------------------------------------------------------------------
(* The pending list as an abstract queue.                                  *)

\* The list holds exactly the pending URBs, so the mapping to the abstract queue
\* can be read off the status of the URBs.
LEMMA ListedSet == IInv => ToSet(PendingUrbList) = With("pending")
<1> SUFFICES ASSUME IInv PROVE ToSet(PendingUrbList) = With("pending")
  OBVIOUS
<1>1. PendingUrbList \in Seq(UrbIds) /\ ListedIffPending
  BY DEF IInv, TypeOK, UrbInv, EntryInOnePlace
<1>2. \A i \in DOMAIN PendingUrbList : PendingUrbList[i] \in UrbIds
  BY <1>1
<1>. QED
  BY <1>1, <1>2 DEF ToSet, With, ListedIffPending

\* URBs that have ended.
Ended == {u \in UrbIds : urb[u].status \in Finished}

\* How the abstract sets follow when one URB changes its status.
LEMMA MovesMapped ==
    ASSUME IInv, IInv', NEW u \in UrbIds, NEW st \in UrbStatus, Moves(u, st),
           urb[u].status \in UrbStatus \ Finished
    PROVE  /\ ToSet(PendingUrbList) = With("pending")
           /\ ToSet(PendingUrbList)' = {v \in UrbIds : \/ v = u /\ st = "pending"
                                                       \/ v # u /\ v \in With("pending")}
           /\ (With("held") \cup With("fetched"))' =
                 {v \in UrbIds : \/ v = u /\ st \in {"held", "fetched"}
                                 \/ v # u /\ v \in With("held") \cup With("fetched")}
           /\ Ended' = Ended \cup (IF st \in Finished THEN {u} ELSE {})
<1>1. ToSet(PendingUrbList)' = With("pending")'
  <2>1. (IInv => ToSet(PendingUrbList) = With("pending"))'
    BY ListedSet, PTL
  <2>. QED
    BY <2>1
<1>2. ToSet(PendingUrbList) = With("pending")
  BY ListedSet
<1>. QED
  BY <1>1, <1>2 DEF With, Moves, Ended

\* The abstract queue counts with the same Cardinality.
LEMMA SameCardinality == \A S : UrbQueue!Cardinality(S) = Cardinality(S)
BY DEF UrbQueue!Cardinality, Cardinality, UrbQueue!IsFiniteSet, IsFiniteSet

\* Every step of the driver is an operation of the abstract queue or leaves it
\* alone: VusbQueueUrb submits, a dequeue hands out, a re-queue gives back, a
\* completion or a cancellation ends one URB.
LEMMA QueueStep ==
    ASSUME IInv, IInv', [Next]_vars
    PROVE  [UrbQueue!Next]_(UrbQueue!vars)
<1>0. /\ TypeOK /\ urb \in [UrbIds -> UrbType] /\ ListedIffPending /\ HeldByHandler /\ FreshIds
      /\ NextUrbId \in 0..MaxUrbs /\ PendingUrbList \in Seq(UrbIds) /\ held \in 0..MaxUrbs
  BY DEF IInv, TypeOK, UrbInv, EntryInOnePlace
<1>1. ASSUME NEW d \in DeviceIds, NEW large \in BOOLEAN, VusbUrbCreate(d, large)
      PROVE  UNCHANGED UrbQueue!vars
  <2>1. NextUrbId + 1 \in UrbIds /\ urb[NextUrbId + 1].status = "none"
    BY <1>0, <1>1, DriverAssumption DEF VusbUrbCreate, UrbIds, FreshIds
  <2>2. Moves(NextUrbId + 1, "created")
    BY <1>0, <1>1, <2>1 DEF VusbUrbCreate, Moves
  <2>3. UNCHANGED <<PendingUrbList, PendingUrbCount>>
    BY <1>1 DEF VusbUrbCreate
  <2>. QED
    BY <2>1, <2>2, <2>3 DEF UrbQueue!vars, Moves, With, Finished
<1>2. ASSUME NEW u \in UrbIds, VusbQueueUrb(u) PROVE UrbQueue!Submit(u)
  <2>1. Moves(u, "pending") /\ urb[u].status = "created" /\ PendingUrbCount' = PendingUrbCount + 1
    BY <1>0, <1>2 DEF VusbQueueUrb, InsertTail, Moves, UrbType
  <2>. QED
    BY <2>1, MovesMapped DEF UrbQueue!Submit, UrbStatus, Finished, With, Ended
<1>3. ASSUME NEW r \in BOOLEAN, VusbDequeueUrb(r)
      PROVE  \E u \in UrbIds : UrbQueue!HandOut(u)
  <2> DEFINE h == Head(PendingUrbList)
  <2>1. h \in UrbIds /\ h = PendingUrbList[1] /\ 1 \in DOMAIN PendingUrbList
    BY <1>0, <1>3 DEF VusbDequeueUrb
  <2>2. urb[h].status = "pending"
    BY <1>0, <2>1 DEF ListedIffPending
  <2>3. Moves(h, "held")
    BY <1>0, <1>3, <2>1, <2>2 DEF VusbDequeueUrb, Moves, UrbType
  <2>4. PendingUrbCount' = PendingUrbCount - 1
    BY <1>3 DEF VusbDequeueUrb
  <2> HIDE DEF h
  <2>5. UrbQueue!HandOut(h)
    BY <2>1, <2>2, <2>3, <2>4, MovesMapped DEF UrbQueue!HandOut, UrbStatus, Finished, With, Ended
  <2>. QED
    BY <2>1, <2>5
<1>4. CASE GetPendingUrbDeliver
  <2>1. held \in UrbIds /\ urb[held].status = "held"
    BY <1>0, <1>4 DEF GetPendingUrbDeliver, UrbIds, HeldByHandler
  <2>2. Moves(held, "fetched")
    BY <1>0, <1>4, <2>1 DEF GetPendingUrbDeliver, Moves, UrbType
  <2>3. UNCHANGED <<PendingUrbList, PendingUrbCount>>
    BY <1>4 DEF GetPendingUrbDeliver
  <2>4. UNCHANGED UrbQueue!vars
    BY <2>1, <2>2, <2>3 DEF UrbQueue!vars, Moves, With, Finished
  <2>. QED
    BY <2>4
<1>5. CASE GetPendingUrbRequeue
  <2>1. held \in UrbIds /\ urb[held].status = "held"
    BY <1>0, <1>5 DEF GetPendingUrbRequeue, UrbIds, HeldByHandler
  <2>2. Moves(held, "pending") /\ PendingUrbCount' = PendingUrbCount + 1
    BY <1>0, <1>5, <2>1 DEF GetPendingUrbRequeue, InsertTail, Moves, UrbType
  <2>3. UrbQueue!GiveBack(held)
    BY <2>1, <2>2, MovesMapped DEF UrbQueue!GiveBack, UrbStatus, Finished, With, Ended
  <2>. QED
    BY <2>1, <2>3 DEF UrbQueue!Next
<1>6. ASSUME NEW u \in UrbIds, NEW result \in Finished, VusbFindUrb(u),
             VusbCompleteUrb(u, result)
      PROVE  UrbQueue!Next
  <2>1. urb[u].status = "pending" /\ PendingUrbCount' = PendingUrbCount - 1
    BY <1>0, <1>6 DEF VusbFindUrb, ListedIffPending
  <2>2. Moves(u, result)
    BY <1>0, <1>6, <2>1 DEF VusbCompleteUrb, Moves, UrbType, Finished
  <2>3. UrbQueue!Cardinality({u}) = 1
    BY FS_Singleton, SameCardinality
  <2>4. UrbQueue!End({u})
    BY <2>1, <2>2, <2>3, MovesMapped DEF UrbQueue!End, UrbStatus, Finished, With, Ended
  <2>5. {u} \in SUBSET ToSet(PendingUrbList)
    BY <2>1, ListedSet DEF With
  <2>. QED
    BY <2>4, <2>5 DEF UrbQueue!Next
<1>7. CASE UNCHANGED <<PendingUrbList, PendingUrbCount, urb>>
  BY <1>7 DEF UrbQueue!vars, With
<1>. QED
  BY <1>1, <1>2, <1>3, <1>4, <1>5, <1>6, <1>7
  DEF Next, vars, driverVars, VusbHandlePluginDevice, VusbHandleUnplugDevice,
      VusbHandleResetDevice, GetPendingUrbPark, VusbHandleCompleteUrb, VusbHandleCancelUrb,
      CancelParked, VusbEvtDeviceContextCleanup, Finished, UrbQueue!Next

(***************************************************************************)
(* The driver's list of pending URBs implements the abstract queue: a URB  *)
(* is submitted once, handed out and given back, ends only from the list   *)
(* and never comes back, and the count reported is exact, although ids are *)
(* assigned, entries queued and fetches finished under separate lock       *)
(* sections.                                                               *)
(***************************************************************************)
THEOREM DriverImplementsUrbQueue == Spec => ImplementsUrbQueue
<1>1. Init => UrbQueue!Init
  BY DEF Init, UrbQueue!Init, ToSet, With, NoUrb, Finished
<1>2. IInv /\ IInv' /\ [Next]_vars => [UrbQueue!Next]_(UrbQueue!vars)
  BY QueueStep
<1>. QED
  BY <1>1, <1>2, DriverInductive, PTL DEF Spec, ImplementsUrbQueue, UrbQueue!Spec

=============================================================================

------------------------- MODULE VusbUrbPathProofs -------------------------
(***************************************************************************)
(* Theorems about the path of a URB through driver, forwarder and client.  *)
(* What the forwarder may rely on is the driver's discipline, so the       *)
(* inductive invariant IInv carries the places of the URB entries along:   *)
(* an entry that has not been fetched yet was never sent, is not in the    *)
(* forwarder's list and is not in the forwarder's hands.                   *)
(***************************************************************************)
EXTENDS VusbUrbPath, FiniteSetTheorems, SequenceTheorems, TLAPS

\* The driver's state, as far as the forwarder depends on it.
DriverTypes ==
    /\ Devices \in [D!DeviceIds -> D!DeviceType]
    /\ plugs \in Nat
    /\ PendingUrbList \in Seq(D!UrbIds)
    /\ NextUrbId \in 0..MaxUrbs
    /\ urb \in [D!UrbIds -> D!UrbType]
    /\ held \in 0..MaxUrbs
DriverInv == DriverTypes /\ D!EntryInOnePlace

\* A URB that GET_PENDING_URB has not handed out yet.
Early(u) == urb[u].status \in {"none", "created", "pending", "held"}

\* A URB with an entry in the forwarder's list.
Entered(u) == \E i \in DOMAIN PendingList : PendingList[i] = u

ForwarderTypes ==
    /\ fpc \in {"get", "deliver", "wait", "find", "track", "send", "ended"}
    /\ fwd \in 0..MaxUrbs
    /\ PendingList \in Seq(D!UrbIds)
    /\ PendingCount \in Nat
    /\ sends \in [D!UrbIds -> 0..1]

\* What has not been fetched has left no trace in the forwarder.
EarlyInv == \A u \in D!UrbIds : Early(u) => sends[u] = 0 /\ ~Entered(u) /\ u # fwd

\* The URB in the thread's hands has not been sent, nor entered before "track".
InHandInv ==
    /\ fpc \in {"find", "track", "send"} => fwd \in D!UrbIds /\ sends[fwd] = 0
    /\ fpc \in {"find", "track"} => ~Entered(fwd)

\* A URB is with one client at most, and only when it was sent.
WireInv ==
    \A s, t \in S!Sessions, u \in D!UrbIds :
        <<s, u>> \in wire => sends[u] = 1 /\ (<<t, u>> \in wire => s = t)

\* While the forwarder runs, what is sent, or is about to be, has an entry.
EntryInv ==
    Running => /\ fpc = "send" => Entered(fwd) \/ fwd \in untracked
               /\ \A s \in S!Sessions, u \in D!UrbIds :
                     <<s, u>> \in wire => Entered(u) \/ u \in untracked
               /\ PendingCount = Len(PendingList)

\* No URB is entered twice.
EnteredOnce == \A i, j \in DOMAIN PendingList : PendingList[i] = PendingList[j] => i = j

ForwarderInv == ForwarderTypes /\ EarlyInv /\ InHandInv /\ WireInv /\ EntryInv /\ EnteredOnce
IInv == DriverInv /\ ForwarderInv

----------------------------------------------------------------------------
(* The driver's part.                                                      *)

\* What RemoveAt, which models the unlinking of an entry, leaves of a sequence.
LEMMA RemoveAtFacts ==
    ASSUME NEW T, NEW s \in Seq(T), NEW i \in 1..Len(s)
    PROVE  /\ RemoveAt(s, i) \in Seq(T)
           /\ Len(RemoveAt(s, i)) = Len(s) - 1
           /\ \A j \in 1..(Len(s) - 1) :
                 RemoveAt(s, i)[j] = IF j < i THEN s[j] ELSE s[j + 1]
<1> DEFINE a == SubSeq(s, 1, i - 1)
           b == SubSeq(s, i + 1, Len(s))
<1>1. a \in Seq(T) /\ Len(a) = i - 1 /\ \A j \in 1..(i - 1) : a[j] = s[j]
  OBVIOUS
<1>2. b \in Seq(T) /\ Len(b) = Len(s) - i /\ \A j \in 1..(Len(s) - i) : b[j] = s[i + j]
  OBVIOUS
<1> HIDE DEF a, b
<1>3. RemoveAt(s, i) = a \o b
  BY DEF RemoveAt, a, b
<1>4. a \o b \in Seq(T) /\ Len(a \o b) = Len(s) - 1
  <2>1. a \o b \in Seq(T) /\ Len(a \o b) = Len(a) + Len(b)
    BY <1>1, <1>2, ConcatProperties
  <2>. QED
    BY <1>1, <1>2, <2>1
<1>5. ASSUME NEW j \in 1..(Len(s) - 1)
      PROVE  (a \o b)[j] = IF j < i THEN s[j] ELSE s[j + 1]
  <2>1. CASE j < i
    BY <1>1, <1>2, <2>1
  <2>2. CASE ~(j < i)
    <3>1. (a \o b)[j] = b[j - (i - 1)]
      BY <1>1, <1>2, <2>2
    <3>2. j - (i - 1) \in 1..(Len(s) - i) /\ i + (j - (i - 1)) = j + 1
      BY <2>2
    <3>. QED
      BY <1>2, <2>2, <3>1, <3>2
  <2>. QED
    BY <2>1, <2>2
<1>. QED
  BY <1>3, <1>4, <1>5

\* List t is list s without its entry i.
Unlinks(t, s, i) ==
    /\ t \in Seq(D!UrbIds) /\ Len(t) = Len(s) - 1
    /\ \A j, k \in DOMAIN t : t[j] = t[k] => j = k
    /\ \A v : (\E j \in DOMAIN t : t[j] = v) <=> v # s[i] /\ \E j \in DOMAIN s : s[j] = v

\* Unlinking an entry of a list without duplicates leaves exactly the others,
\* still without duplicates.
LEMMA Unlinked ==
    ASSUME NEW s \in Seq(D!UrbIds), NEW i \in 1..Len(s),
           \A j, k \in DOMAIN s : s[j] = s[k] => j = k
    PROVE  Unlinks(RemoveAt(s, i), s, i)
<1> DEFINE r == RemoveAt(s, i)
<1> DEFINE n == Len(s)
<1>1. n \in Nat /\ DOMAIN s = 1..n /\ i \in 1..n
  OBVIOUS
<1>2. /\ r \in Seq(D!UrbIds) /\ Len(r) = n - 1
      /\ \A j \in 1..(n - 1) : r[j] = IF j < i THEN s[j] ELSE s[j + 1]
  BY RemoveAtFacts
<1>3. DOMAIN r = 1..(n - 1)
  BY <1>1, <1>2
<1> HIDE DEF n, r
<1>4. \A j, k \in 1..n : s[j] = s[k] => j = k
  BY <1>1
<1>5. ASSUME NEW j \in 1..(n - 1), NEW k \in 1..(n - 1), r[j] = r[k]
      PROVE  j = k
  <2>1. /\ r[j] = IF j < i THEN s[j] ELSE s[j + 1]
        /\ r[k] = IF k < i THEN s[k] ELSE s[k + 1]
    BY <1>2
  <2>2. PICK a \in 1..n : r[j] = s[a] /\ a = IF j < i THEN j ELSE j + 1
    BY <1>1, <2>1
  <2>3. PICK b \in 1..n : r[k] = s[b] /\ b = IF k < i THEN k ELSE k + 1
    BY <1>1, <2>1
  <2>4. a = b
    BY <1>4, <1>5, <2>2, <2>3
  <2>. QED
    BY <1>1, <2>2, <2>3, <2>4
<1>6. ASSUME NEW j \in 1..(n - 1)
      PROVE  r[j] # s[i] /\ \E k \in 1..n : s[k] = r[j]
  <2>1. r[j] = IF j < i THEN s[j] ELSE s[j + 1]
    BY <1>2
  <2>. QED
    BY <1>1, <1>4, <2>1
<1>7. ASSUME NEW j \in 1..n, s[j] # s[i]
      PROVE  \E k \in 1..(n - 1) : r[k] = s[j]
  <2>1. CASE j < i
    <3>1. j \in 1..(n - 1)
      BY <1>1, <2>1
    <3>2. r[j] = s[j]
      BY <1>2, <2>1, <3>1
    <3>. QED
      BY <3>1, <3>2
  <2>2. CASE j > i
    <3>1. j - 1 \in 1..(n - 1) /\ ~(j - 1 < i) /\ (j - 1) + 1 = j
      BY <1>1, <2>2
    <3>. QED
      BY <1>2, <3>1
  <2>. QED
    BY <1>1, <1>7, <2>1, <2>2
<1>8. ASSUME NEW v
      PROVE  (\E j \in DOMAIN r : r[j] = v) <=> v # s[i] /\ \E j \in DOMAIN s : s[j] = v
  <2>1. ASSUME NEW j \in DOMAIN r, r[j] = v
        PROVE  v # s[i] /\ \E k \in DOMAIN s : s[k] = v
    BY <1>1, <1>3, <1>6, <2>1
  <2>2. ASSUME v # s[i], NEW j \in DOMAIN s, s[j] = v
        PROVE  \E k \in DOMAIN r : r[k] = v
    BY <1>1, <1>3, <1>7, <2>2
  <2>. QED
    BY <2>1, <2>2
<1>9. \A j, k \in DOMAIN r : r[j] = r[k] => j = k
  BY <1>3, <1>5
<1>. QED
  BY <1>2, <1>8, <1>9 DEF n, r, Unlinks

\* URB u, and no other, has status st after the step.
Moves(u, st) ==
    /\ urb' \in [D!UrbIds -> D!UrbType]
    /\ urb'[u].status = st
    /\ \A v \in D!UrbIds : v # u => urb'[v].status = urb[v].status

\* A step that assigns a status to one entry.
LEMMA StatusMoves ==
    ASSUME DriverTypes, NEW u \in D!UrbIds, NEW st \in D!UrbStatus,
           urb' = [urb EXCEPT ![u].status = st]
    PROVE  Moves(u, st)
BY DEF DriverTypes, Moves, D!UrbType

\* The step changes nothing the driver's invariant is about, but the table.
LEMMA DriverSame ==
    ASSUME DriverInv, Devices' \in [D!DeviceIds -> D!DeviceType], plugs' \in Nat,
           UNCHANGED <<PendingUrbList, NextUrbId, urb, held>>
    PROVE  DriverInv' /\ \A u \in D!UrbIds : Early(u)' => Early(u)
BY DEF DriverInv, DriverTypes, D!EntryInOnePlace, D!ListedIffPending, D!ListedOnce,
       D!HeldByHandler, D!FreshIds, Early

\* Plugging a device in through the server.
LEMMA PluginDriver ==
    ASSUME DriverInv, NEW id, S!VusbCreateVirtualDevice(id)
    PROVE  Devices' \in [D!DeviceIds -> D!DeviceType] /\ plugs' \in Nat
<1>1. Devices \in [D!DeviceIds -> D!DeviceType] /\ plugs \in Nat
  BY DEF DriverInv, DriverTypes
<1>2. CASE UNCHANGED <<Devices, plugs>>
  BY <1>1, <1>2
<1>3. CASE Devices' = [Devices EXCEPT ![id] = S!NewDevice(plugs + 1)] /\ plugs' = plugs + 1
  <2>1. plugs + 1 \in Nat
    BY <1>1
  <2>2. S!NewDevice(plugs + 1) \in D!DeviceType
    BY <2>1 DEF S!NewDevice, D!DeviceType, D!DeviceStates
  <2>. QED
    BY <1>1, <1>3, <2>1, <2>2
<1>. QED
  BY <1>2, <1>3 DEF S!VusbCreateVirtualDevice, S!tableVars

\* Unplugging one.
LEMMA UnplugDriver ==
    ASSUME DriverInv, NEW id, S!VusbDestroyVirtualDevice(id)
    PROVE  Devices' \in [D!DeviceIds -> D!DeviceType] /\ plugs' \in Nat
<1>1. Devices \in [D!DeviceIds -> D!DeviceType] /\ plugs \in Nat
  BY DEF DriverInv, DriverTypes
<1>2. S!NoDevice \in D!DeviceType
  BY DEF S!NoDevice, D!DeviceType, D!DeviceStates
<1>. QED
  BY <1>1, <1>2 DEF S!VusbDestroyVirtualDevice, S!tableVars

\* VusbUrbCreate: the next id is fresh.
LEMMA UrbCreateDriver ==
    ASSUME DriverInv, NEW d \in D!DeviceIds, NEW large \in BOOLEAN, D!VusbUrbCreate(d, large)
    PROVE  DriverInv' /\ \A u \in D!UrbIds : Early(u)' => Early(u)
<1>1. NextUrbId + 1 \in D!UrbIds /\ NextUrbId \in 0..MaxUrbs /\ MaxUrbs \in Nat
  BY UrbPathAssumption DEF DriverInv, DriverTypes, D!VusbUrbCreate, D!UrbIds
<1>2. PICK w \in D!UrbIds : w = NextUrbId + 1
  BY <1>1
<1>3. PICK e \in D!UrbType : urb' = [urb EXCEPT ![w] = e] /\ e.status = "created"
  <2> DEFINE f == [DeviceId |-> d, plug |-> Devices[d].plug, large |-> large,
                   status |-> "created"]
  <2>1. Devices[d].plug \in Nat /\ d \in 0..MaxDevices
    BY DEF DriverInv, DriverTypes, D!DeviceType, D!DeviceIds
  <2>2. f \in D!UrbType /\ f.status = "created"
    BY <2>1 DEF D!UrbType, D!UrbStatus
  <2>. QED
    BY <1>2, <2>2 DEF D!VusbUrbCreate
<1>4. Moves(w, "created") /\ urb[w].status = "none" /\ held # w
  <2>1. urb[w].status = "none"
    BY <1>1, <1>2 DEF DriverInv, D!EntryInOnePlace, D!FreshIds
  <2>2. held # w
    BY <2>1 DEF DriverInv, D!EntryInOnePlace, D!HeldByHandler
  <2>3. Moves(w, "created")
    BY <1>3 DEF Moves, DriverInv, DriverTypes
  <2>. QED
    BY <2>1, <2>2, <2>3
<1>5. UNCHANGED <<Devices, plugs, PendingUrbList, held>> /\ NextUrbId' = w
  BY <1>2 DEF D!VusbUrbCreate, D!tableVars
<1>6. DriverTypes'
  BY <1>1, <1>2, <1>4, <1>5 DEF DriverInv, DriverTypes, Moves, D!UrbIds
<1>7. D!ListedIffPending' /\ D!ListedOnce' /\ D!HeldByHandler'
  BY <1>4, <1>5 DEF DriverInv, D!EntryInOnePlace, D!ListedIffPending, D!ListedOnce,
                    D!HeldByHandler, Moves
<1>8. D!FreshIds'
  <2> SUFFICES ASSUME NEW v \in D!UrbIds
               PROVE  v > w <=> urb'[v].status = "none"
    BY <1>5 DEF D!FreshIds
  <2>1. v > NextUrbId <=> urb[v].status = "none"
    BY DEF DriverInv, D!EntryInOnePlace, D!FreshIds
  <2>2. v > w <=> v > NextUrbId /\ v # w
    BY <1>1, <1>2 DEF D!UrbIds
  <2>. QED
    BY <1>4, <2>1, <2>2 DEF Moves
<1>9. \A u \in D!UrbIds : Early(u)' => Early(u)
  BY <1>4 DEF Moves, Early
<1>. QED
  BY <1>6, <1>7, <1>8, <1>9 DEF DriverInv, D!EntryInOnePlace

\* VusbQueueUrb: a created entry goes to the end of the list.
LEMMA QueueDriver ==
    ASSUME DriverInv, NEW u \in D!UrbIds, D!VusbQueueUrb(u)
    PROVE  DriverInv' /\ \A v \in D!UrbIds : Early(v)' => Early(v)
<1> DEFINE s == PendingUrbList
           n == Len(PendingUrbList)
<1>1. /\ s \in Seq(D!UrbIds) /\ n \in Nat /\ DOMAIN s = 1..n
      /\ s' = Append(s, u) /\ urb[u].status = "created"
      /\ UNCHANGED <<Devices, plugs, NextUrbId, held>>
  BY DEF DriverInv, DriverTypes, D!VusbQueueUrb, D!InsertTail, D!tableVars
<1>2. /\ s' \in Seq(D!UrbIds) /\ DOMAIN s' = DOMAIN s \cup {n + 1} /\ n + 1 \notin DOMAIN s
      /\ s'[n + 1] = u /\ \A i \in DOMAIN s : s'[i] = s[i]
  BY <1>1
<1>3. Moves(u, "pending")
  <2>1. urb' = [urb EXCEPT ![u].status = "pending"] /\ "pending" \in D!UrbStatus
    BY DEF D!VusbQueueUrb, D!InsertTail, D!UrbStatus
  <2>. QED
    BY <2>1, StatusMoves DEF DriverInv
<1>4. \A i \in DOMAIN s : s[i] # u
  BY <1>1 DEF DriverInv, D!EntryInOnePlace, D!ListedIffPending
<1> HIDE DEF n
<1>5. D!ListedIffPending' /\ D!ListedOnce'
  BY <1>2, <1>3, <1>4 DEF DriverInv, D!EntryInOnePlace, D!ListedIffPending, D!ListedOnce, Moves
<1>6. D!HeldByHandler' /\ D!FreshIds'
  BY <1>1, <1>3 DEF DriverInv, D!EntryInOnePlace, D!HeldByHandler, D!FreshIds, Moves
<1>7. DriverTypes'
  BY <1>1, <1>2, <1>3 DEF DriverInv, DriverTypes, Moves
<1>8. \A v \in D!UrbIds : Early(v)' => Early(v)
  BY <1>1, <1>3 DEF Moves, Early
<1>. QED
  BY <1>5, <1>6, <1>7, <1>8 DEF DriverInv, D!EntryInOnePlace

\* The re-queue of an entry that does not fit, counted or not: from the handler
\* to the end of the list.
LEMMA RequeueDriver ==
    ASSUME DriverInv, D!GetPendingUrbRequeue \/ RequeueUncounted
    PROVE  DriverInv' /\ \A v \in D!UrbIds : Early(v)' => Early(v)
<1> DEFINE s == PendingUrbList
           n == Len(PendingUrbList)
<1>0. DriverTypes /\ D!ListedIffPending /\ D!ListedOnce /\ D!HeldByHandler /\ D!FreshIds
  BY DEF DriverInv, D!EntryInOnePlace
<1>1. PICK u \in D!UrbIds : u = held /\ u # 0
  BY <1>0, UrbPathAssumption DEF D!GetPendingUrbRequeue, RequeueUncounted, DriverTypes, D!UrbIds
<1>2. /\ s \in Seq(D!UrbIds) /\ n \in Nat /\ DOMAIN s = 1..n /\ s' = Append(s, u)
      /\ held' = 0 /\ urb' = [urb EXCEPT ![u].status = "pending"]
      /\ UNCHANGED <<Devices, plugs, NextUrbId>>
  BY <1>0, <1>1 DEF DriverTypes, D!GetPendingUrbRequeue, RequeueUncounted, D!InsertTail, D!tableVars
<1>3. /\ s' \in Seq(D!UrbIds) /\ DOMAIN s' = DOMAIN s \cup {n + 1} /\ n + 1 \notin DOMAIN s
      /\ s'[n + 1] = u /\ \A i \in DOMAIN s : s'[i] = s[i]
  BY <1>2
<1>4. Moves(u, "pending") /\ urb[u].status = "held" /\ \A v \in D!UrbIds : v # 0
  <2>1. "pending" \in D!UrbStatus /\ \A v \in D!UrbIds : v # 0
    BY DEF D!UrbStatus, D!UrbIds
  <2>. QED
    BY <1>0, <1>1, <1>2, <2>1, StatusMoves DEF D!HeldByHandler
<1>5. \A i \in DOMAIN s : s[i] # u
  BY <1>0, <1>4 DEF D!ListedIffPending
<1> HIDE DEF n
<1>6. D!ListedIffPending' /\ D!ListedOnce'
  BY <1>0, <1>3, <1>4, <1>5 DEF D!ListedIffPending, D!ListedOnce, Moves
<1>7. D!HeldByHandler' /\ D!FreshIds'
  BY <1>0, <1>1, <1>2, <1>4 DEF D!HeldByHandler, D!FreshIds, Moves
<1>8. DriverTypes'
  BY <1>0, <1>2, <1>3, <1>4, UrbPathAssumption DEF DriverTypes, Moves
<1>9. \A v \in D!UrbIds : Early(v)' => Early(v)
  BY <1>4 DEF Moves, Early
<1>. QED
  BY <1>6, <1>7, <1>8, <1>9 DEF DriverInv, D!EntryInOnePlace

\* An entry leaves the list for another place: to the handler, or for good.
LEMMA UnlinkDriver ==
    ASSUME DriverInv, NEW i \in DOMAIN PendingUrbList, NEW u \in D!UrbIds,
           u = PendingUrbList[i], NEW st \in D!UrbStatus \ {"none", "created", "pending"},
           PendingUrbList' = RemoveAt(PendingUrbList, i),
           urb' = [urb EXCEPT ![u].status = st],
           NextUrbId' = NextUrbId,
           held = 0, held' = IF st = "held" THEN u ELSE 0,
           Devices' \in [D!DeviceIds -> D!DeviceType], plugs' = plugs
    PROVE  DriverInv' /\ \A v \in D!UrbIds : Early(v)' => Early(v)
<1>1. DriverTypes /\ D!ListedIffPending /\ D!ListedOnce /\ D!HeldByHandler /\ D!FreshIds
  BY DEF DriverInv, D!EntryInOnePlace
<1>2. Moves(u, st)
  BY <1>1, StatusMoves
<1>3. urb[u].status = "pending"
  BY <1>1 DEF D!ListedIffPending
<1>4. PICK s \in Seq(D!UrbIds) : s = PendingUrbList
  BY <1>1 DEF DriverTypes
<1>5. PICK r : r = PendingUrbList'
  OBVIOUS
<1>6. /\ i \in 1..Len(s) /\ r = RemoveAt(s, i) /\ s[i] = u
      /\ \A j, k \in DOMAIN s : s[j] = s[k] => j = k
  BY <1>1, <1>4, <1>5 DEF D!ListedOnce
<1>7. Unlinks(r, s, i)
  BY <1>6, Unlinked
<1>8. D!ListedOnce'
  BY <1>5, <1>7 DEF D!ListedOnce, Unlinks
<1>9. D!ListedIffPending'
  <2> SUFFICES ASSUME NEW v \in D!UrbIds
               PROVE  urb'[v].status = "pending" <=> \E j \in DOMAIN r : r[j] = v
    BY <1>5 DEF D!ListedIffPending
  <2>1. (\E j \in DOMAIN r : r[j] = v) <=> v # u /\ urb[v].status = "pending"
    <3>1. (\E j \in DOMAIN r : r[j] = v) <=> v # s[i] /\ \E j \in DOMAIN s : s[j] = v
      BY <1>7 DEF Unlinks
    <3>2. (\E j \in DOMAIN s : s[j] = v) <=> urb[v].status = "pending"
      BY <1>1, <1>4 DEF D!ListedIffPending
    <3>. QED
      BY <1>6, <3>1, <3>2
  <2>. QED
    BY <1>2, <2>1 DEF Moves
<1>10. D!HeldByHandler'
  <2>1. \A v \in D!UrbIds : v # 0
    BY DEF D!UrbIds
  <2>. QED
    BY <1>1, <1>2, <2>1 DEF D!HeldByHandler, Moves
<1>11. D!FreshIds'
  BY <1>1, <1>2, <1>3 DEF D!FreshIds, Moves
<1>12. DriverTypes'
  <2>1. held' \in 0..MaxUrbs
    BY UrbPathAssumption DEF D!UrbIds
  <2>. QED
    BY <1>1, <1>2, <1>5, <1>7, <2>1 DEF DriverTypes, Moves, Unlinks
<1>13. \A v \in D!UrbIds : Early(v)' => Early(v)
  BY <1>2, <1>3 DEF Moves, Early
<1>. QED
  BY <1>8, <1>9, <1>10, <1>11, <1>12, <1>13 DEF DriverInv, D!EntryInOnePlace

\* VusbDequeueUrb: the head of the list moves to the handler.
LEMMA DequeueDriver ==
    ASSUME DriverInv, D!VusbDequeueUrb(FALSE)
    PROVE  DriverInv' /\ \A v \in D!UrbIds : Early(v)' => Early(v)
<1>1. PendingUrbList \in Seq(D!UrbIds) /\ PendingUrbList # <<>>
  BY DEF DriverInv, DriverTypes, D!VusbDequeueUrb
<1>2. PICK u \in D!UrbIds : u = Head(PendingUrbList)
  BY <1>1
<1>3. 1 \in DOMAIN PendingUrbList /\ u = PendingUrbList[1]
  BY <1>1, <1>2
<1>4. Tail(PendingUrbList) = RemoveAt(PendingUrbList, 1)
  <2>1. RemoveAt(PendingUrbList, 1) = SubSeq(PendingUrbList, 1, 0) \o Tail(PendingUrbList)
    BY <1>1 DEF RemoveAt
  <2>2. SubSeq(PendingUrbList, 1, 0) = <<>>
    BY <1>1
  <2>3. <<>> \o Tail(PendingUrbList) = Tail(PendingUrbList)
    BY <1>1
  <2>. QED
    BY <2>1, <2>2, <2>3
<1>5. /\ PendingUrbList' = RemoveAt(PendingUrbList, 1) /\ held = 0 /\ held' = u
      /\ urb' = [urb EXCEPT ![u].status = "held"]
      /\ UNCHANGED <<Devices, plugs, NextUrbId>>
  BY <1>2, <1>4 DEF D!VusbDequeueUrb, D!IoctlIdle, D!tableVars
<1>6. "held" \in D!UrbStatus \ {"none", "created", "pending"}
      /\ Devices' \in [D!DeviceIds -> D!DeviceType]
  BY <1>5 DEF D!UrbStatus, DriverInv, DriverTypes
<1>. QED
  BY <1>3, <1>5, <1>6, UnlinkDriver

\* GET_PENDING_URB completes: the entry the handler held is handed out.
LEMMA DeliverDriver ==
    ASSUME DriverInv, D!GetPendingUrbDeliver
    PROVE  /\ DriverInv' /\ \A v \in D!UrbIds : Early(v)' => Early(v)
           /\ held \in D!UrbIds /\ Early(held) /\ urb'[held].status = "fetched"
<1>1. DriverTypes /\ D!ListedIffPending /\ D!ListedOnce /\ D!HeldByHandler /\ D!FreshIds
  BY DEF DriverInv, D!EntryInOnePlace
<1>2. held \in D!UrbIds /\ held # 0 /\ \A v \in D!UrbIds : v # 0
  BY <1>1, UrbPathAssumption DEF D!GetPendingUrbDeliver, DriverTypes, D!UrbIds
<1>3. urb[held].status = "held"
  BY <1>1, <1>2 DEF D!HeldByHandler
<1>4. PICK u \in D!UrbIds : u = held
  BY <1>2
<1>5. Moves(u, "fetched")
  <2>1. urb' = [urb EXCEPT ![u].status = "fetched"] /\ "fetched" \in D!UrbStatus
    BY <1>4 DEF D!GetPendingUrbDeliver, D!UrbStatus
  <2>. QED
    BY <1>1, <2>1, StatusMoves
<1>6. held' = 0 /\ UNCHANGED <<Devices, plugs, PendingUrbList, NextUrbId>>
  BY DEF D!GetPendingUrbDeliver, D!tableVars
<1>7. D!ListedIffPending' /\ D!ListedOnce' /\ D!HeldByHandler' /\ D!FreshIds'
  BY <1>1, <1>2, <1>3, <1>4, <1>5, <1>6
  DEF D!ListedIffPending, D!ListedOnce, D!HeldByHandler, D!FreshIds, Moves
<1>8. DriverTypes'
  BY <1>1, <1>5, <1>6, UrbPathAssumption DEF DriverTypes, Moves
<1>9. \A v \in D!UrbIds : Early(v)' => Early(v)
  BY <1>5 DEF Moves, Early
<1>10. urb'[held].status = "fetched" /\ Early(held)
  BY <1>3, <1>4, <1>5 DEF Moves, Early
<1>. QED
  BY <1>2, <1>7, <1>8, <1>9, <1>10 DEF DriverInv, D!EntryInOnePlace

\* IOCTL_VUSB_COMPLETE_URB with any id: the entry is found and ends, or nothing
\* changes.
LEMMA CompleteDriver ==
    ASSUME DriverInv, NEW u, NEW result \in {"completed", "failed"},
           CompleteToDriver(u, result)
    PROVE  DriverInv' /\ \A v \in D!UrbIds : Early(v)' => Early(v)
<1>1. CASE UNCHANGED driverAll
  BY <1>1, DriverSame DEF driverAll, driverVars, DriverInv, DriverTypes
<1>2. CASE D!VusbHandleCompleteUrb(u, result)
  <2>1. PICK i \in DOMAIN PendingUrbList :
           PendingUrbList[i] = u /\ PendingUrbList' = RemoveAt(PendingUrbList, i)
    BY <1>2 DEF D!VusbHandleCompleteUrb, D!VusbFindUrb, D!RemoveAt, RemoveAt
  <2>2. /\ u \in D!UrbIds
        /\ urb' = [urb EXCEPT ![u].status = result]
        /\ held = 0 /\ held' = 0 /\ UNCHANGED <<plugs, NextUrbId>>
        /\ result \in D!UrbStatus \ {"none", "created", "pending"} /\ result # "held"
    BY <1>2, <2>1 DEF DriverInv, DriverTypes, D!VusbHandleCompleteUrb, D!VusbCompleteUrb,
                      D!IoctlIdle, D!UrbStatus, D!Finished
  <2>3. Devices' \in [D!DeviceIds -> D!DeviceType]
    <3>1. PICK d : d = urb[u].DeviceId
      OBVIOUS
    <3>2. PICK x \in Nat : x = D!Increment(result = "completed")
      BY DEF D!Increment
    <3>3. PICK z \in Nat : z = D!Increment(~(result = "completed"))
      BY DEF D!Increment
    <3>4. Devices \in [D!DeviceIds -> D!DeviceType]
      BY DEF DriverInv, DriverTypes
    <3>5. CASE D!Present(d)
      <4>1. Devices' = [Devices EXCEPT ![d].UrbsCompleted = @ + x, ![d].UrbsError = @ + z]
        BY <1>2, <3>1, <3>2, <3>3, <3>5 DEF D!VusbHandleCompleteUrb, D!VusbCompleteUrb
      <4>2. d \in D!DeviceIds
        BY <3>5 DEF D!Present
      <4>3. Devices[d].UrbsCompleted + x \in Nat /\ Devices[d].UrbsError + z \in Nat
        BY <3>4, <4>2 DEF D!DeviceType
      <4>. QED
        BY <3>4, <4>1, <4>2, <4>3 DEF D!DeviceType
    <3>6. CASE ~D!Present(d)
      BY <1>2, <3>1, <3>4, <3>6 DEF D!VusbHandleCompleteUrb, D!VusbCompleteUrb
    <3>. QED
      BY <3>5, <3>6
  <2>. QED
    BY <2>1, <2>2, <2>3, UnlinkDriver
<1>. QED
  BY <1>1, <1>2 DEF CompleteToDriver

\* At start no URB exists.
LEMMA DriverInit == Init => DriverInv
<1> SUFFICES ASSUME Init PROVE DriverInv
  OBVIOUS
<1>1. /\ Devices = [id \in D!DeviceIds |-> D!NoDevice] /\ plugs = 0 /\ NextUrbId = 0 /\ held = 0
      /\ PendingUrbList = <<>> /\ urb = [u \in D!UrbIds |-> D!NoUrb]
  BY DEF Init, D!Init, D!TableInit
<1>2. D!NoDevice \in D!DeviceType /\ D!NoUrb \in D!UrbType /\ D!NoUrb.status = "none"
  BY UrbPathAssumption DEF D!NoDevice, D!DeviceType, D!DeviceStates, D!NoUrb, D!UrbType, D!UrbStatus
<1>3. DriverTypes
  <2>1. 0 \in 0..MaxUrbs
    BY UrbPathAssumption
  <2>. QED
    BY <1>1, <1>2, <2>1 DEF DriverTypes
<1>4. D!EntryInOnePlace
  <2>1. \A u \in D!UrbIds : u > 0 /\ u # 0 /\ urb[u].status = "none"
    BY <1>1, <1>2 DEF D!UrbIds
  <2>2. DOMAIN PendingUrbList = {}
    BY <1>1
  <2>. QED
    BY <1>1, <2>1, <2>2 DEF D!EntryInOnePlace, D!ListedIffPending, D!ListedOnce,
                            D!HeldByHandler, D!FreshIds
<1>. QED
  BY <1>3, <1>4 DEF DriverInv

----------------------------------------------------------------------------
(* The forwarder's part.                                                   *)

\* No URB gets a trace of being early again.
EarlyKept == \A u \in D!UrbIds : Early(u)' => Early(u)

\* At start the forwarder has nothing.
LEMMA ForwarderInit == Init => ForwarderInv
<1> SUFFICES ASSUME Init PROVE ForwarderInv
  OBVIOUS
<1>1. /\ fpc \in {"get", "ended"} /\ fwd = 0 /\ PendingList = <<>> /\ PendingCount = 0 /\ wire = {}
      /\ sends = [u \in D!UrbIds |-> 0]
  BY DEF Init
<1>2. DOMAIN PendingList = {} /\ Len(PendingList) = 0 /\ PendingList \in Seq(D!UrbIds)
  BY <1>1
<1>3. ForwarderTypes
  BY <1>1, <1>2, UrbPathAssumption DEF ForwarderTypes
<1>4. EarlyInv
  <2>1. \A u \in D!UrbIds : u # 0
    BY DEF D!UrbIds
  <2>. QED
    BY <1>1, <1>2, <2>1 DEF EarlyInv, Entered
<1>5. InHandInv /\ WireInv
  BY <1>1 DEF InHandInv, WireInv
<1>6. EntryInv
  BY <1>1, <1>2 DEF EntryInv
<1>7. EnteredOnce
  BY <1>2 DEF EnteredOnce
<1>. QED
  BY <1>3, <1>4, <1>5, <1>6, <1>7 DEF ForwarderInv

\* Steps that leave list and count alone: the thread waits, moves on with its
\* URB or gives it up, and messages may leave the wire.
LEMMA ForwarderQuiet ==
    ASSUME ForwarderInv, EarlyKept, Running' => Running, wire' \subseteq wire,
           UNCHANGED <<PendingList, PendingCount, untracked, sends>>,
           \/ fpc' = fpc /\ fwd' = fwd
           \/ fpc' = "track" /\ fpc = "find" /\ fwd' = fwd
           \/ fpc' \in {"get", "deliver", "wait", "ended"} /\ fwd' \in {fwd, 0}
    PROVE  ForwarderInv'
<1>1. ForwarderTypes /\ EarlyInv /\ InHandInv /\ WireInv /\ EntryInv /\ EnteredOnce
  BY DEF ForwarderInv
<1>2. ForwarderTypes'
  BY <1>1, UrbPathAssumption DEF ForwarderTypes
<1>3. EarlyInv'
  <2>1. \A u \in D!UrbIds : u # 0
    BY DEF D!UrbIds
  <2>2. \A u \in D!UrbIds : u # fwd => u # fwd'
    BY <2>1
  <2>. QED
    BY <1>1, <2>2 DEF EarlyInv, EarlyKept, Entered
<1>4. InHandInv'
  BY <1>1 DEF InHandInv, Entered
<1>5. WireInv'
  BY <1>1 DEF WireInv
<1>6. EntryInv'
  BY <1>1 DEF EntryInv, Entered
<1>7. EnteredOnce'
  BY <1>1 DEF EnteredOnce
<1>. QED
  BY <1>2, <1>3, <1>4, <1>5, <1>6, <1>7 DEF ForwarderInv

\* The driver hands a URB to the thread: it was early, so it is new here.
LEMMA ReturnedStep ==
    ASSUME IInv, PendingUrbReturned, fwd' = held, fpc' = "find"
    PROVE  IInv'
<1>1. ForwarderTypes /\ EarlyInv /\ InHandInv /\ WireInv /\ EntryInv /\ EnteredOnce
  BY DEF IInv, ForwarderInv
<1>2. /\ DriverInv' /\ \A v \in D!UrbIds : Early(v)' => Early(v)
      /\ held \in D!UrbIds /\ Early(held) /\ urb'[held].status = "fetched"
  BY DeliverDriver DEF IInv, PendingUrbReturned
<1>3. /\ fpc' = "find" /\ fwd' = held
      /\ UNCHANGED <<Running, PendingList, PendingCount, untracked, wire, sends>>
  BY DEF PendingUrbReturned
<1>4. ForwarderTypes'
  BY <1>1, <1>2, <1>3, UrbPathAssumption DEF ForwarderTypes, D!UrbIds
<1>5. EarlyInv'
  BY <1>1, <1>2, <1>3 DEF EarlyInv, Early, Entered
<1>6. InHandInv'
  BY <1>1, <1>2, <1>3 DEF InHandInv, EarlyInv, Entered
<1>7. WireInv' /\ EnteredOnce'
  BY <1>1, <1>3 DEF WireInv, EnteredOnce
<1>8. EntryInv'
  BY <1>1, <1>3 DEF EntryInv, Entered
<1>. QED
  BY <1>2, <1>4, <1>5, <1>6, <1>7, <1>8 DEF IInv, ForwarderInv

\* "Track pending URB": the entry is linked at the head.
LEMMA LinkStep ==
    ASSUME IInv, UNCHANGED driverAll, fpc = "track", fpc' = "send", Running' = Running,
           PendingList' = <<fwd>> \o PendingList, PendingCount' = PendingCount + 1,
           UNCHANGED <<fwd, untracked, wire, sends>>
    PROVE  ForwarderInv'
<1>1. ForwarderTypes /\ EarlyInv /\ InHandInv /\ WireInv /\ EntryInv /\ EnteredOnce
  BY DEF IInv, ForwarderInv
<1>2. fwd \in D!UrbIds /\ ~Entered(fwd) /\ sends[fwd] = 0
  BY <1>1 DEF InHandInv
<1>3. PICK s \in Seq(D!UrbIds) : s = PendingList
  BY <1>1 DEF ForwarderTypes
<1>4. PICK x \in D!UrbIds : x = fwd
  BY <1>2
<1>5. PICK t \in Seq(D!UrbIds) : t = <<x>> \o s
  <2>1. <<x>> \in Seq(D!UrbIds)
    OBVIOUS
  <2>. QED
    BY <2>1, ConcatProperties
<1>6. t = PendingList'
  BY <1>3, <1>4, <1>5
<1>7. /\ Len(s) \in Nat /\ DOMAIN s = 1..Len(s)
      /\ Len(t) = Len(s) + 1 /\ DOMAIN t = 1..(Len(s) + 1)
      /\ t[1] = x /\ \A j \in 2..(Len(s) + 1) : t[j] = s[j - 1]
  BY <1>5
<1>8. \A j \in 1..Len(s) : s[j] # x
  BY <1>2, <1>3, <1>4, <1>7 DEF Entered
<1>9. \A u : Entered(u)' <=> u = x \/ Entered(u)
  <2>1. ASSUME NEW u, NEW j \in DOMAIN t, t[j] = u
        PROVE  u = x \/ \E k \in DOMAIN s : s[k] = u
    <3>1. CASE j = 1
      BY <1>7, <2>1, <3>1
    <3>2. CASE j # 1
      <4>1. j \in 2..(Len(s) + 1) /\ j - 1 \in DOMAIN s
        BY <1>7, <3>2
      <4>. QED
        BY <1>7, <2>1, <4>1
    <3>. QED
      BY <3>1, <3>2
  <2>2. \E j \in DOMAIN t : t[j] = x
    <3>1. 1 \in DOMAIN t
      BY <1>7
    <3>. QED
      BY <1>7, <3>1
  <2>3. ASSUME NEW u, NEW k \in DOMAIN s, s[k] = u
        PROVE  \E j \in DOMAIN t : t[j] = u
    <3>1. k + 1 \in 2..(Len(s) + 1) /\ k + 1 \in DOMAIN t /\ (k + 1) - 1 = k
      BY <1>7
    <3>. QED
      BY <1>7, <2>3, <3>1
  <2>4. \A u : (\E j \in DOMAIN t : t[j] = u) <=> u = x \/ \E k \in DOMAIN s : s[k] = u
    BY <2>1, <2>2, <2>3
  <2>5. \A u : (\E j \in DOMAIN PendingList' : PendingList'[j] = u)
                 <=> u = x \/ \E k \in DOMAIN s : s[k] = u
    BY <1>6, <2>4
  <2>. QED
    BY <1>3, <2>5 DEF Entered
<1>10. ForwarderTypes'
  BY <1>1, <1>6 DEF ForwarderTypes
<1>11. EarlyInv'
  <2>1. \A u \in D!UrbIds : Early(u)' <=> Early(u)
    BY DEF driverAll, driverVars, Early
  <2>2. ~Early(fwd)
    BY <1>1, <1>2 DEF EarlyInv
  <2>. QED
    BY <1>1, <1>4, <1>9, <2>1, <2>2 DEF EarlyInv
<1>12. InHandInv' /\ WireInv'
  BY <1>1, <1>2 DEF InHandInv, WireInv
<1>13. EntryInv'
  <2>1. Running => PendingCount' = Len(PendingList')
    BY <1>1, <1>3, <1>6, <1>7 DEF EntryInv
  <2>2. Entered(fwd)' /\ \A u : Entered(u) => Entered(u)'
    BY <1>4, <1>9
  <2>. QED
    BY <1>1, <2>1, <2>2 DEF EntryInv
<1>14. EnteredOnce'
  <2>1. ASSUME NEW j \in DOMAIN t, NEW k \in DOMAIN t, t[j] = t[k]
        PROVE  j = k
    <3>1. CASE j = 1 \/ k = 1
      <4>1. \A l \in DOMAIN t : l # 1 => t[l] # x
        <5> SUFFICES ASSUME NEW l \in DOMAIN t, l # 1 PROVE t[l] # x
          OBVIOUS
        <5>1. l \in 2..(Len(s) + 1) /\ l - 1 \in 1..Len(s)
          BY <1>7
        <5>. QED
          BY <1>7, <1>8, <5>1
      <4>. QED
        BY <1>7, <2>1, <3>1, <4>1
    <3>2. CASE j # 1 /\ k # 1
      <4>1. /\ j \in 2..(Len(s) + 1) /\ j - 1 \in DOMAIN s
            /\ k \in 2..(Len(s) + 1) /\ k - 1 \in DOMAIN s
        BY <1>7, <3>2
      <4>2. s[j - 1] = s[k - 1]
        BY <1>7, <2>1, <4>1
      <4>3. j - 1 = k - 1
        BY <1>1, <1>3, <4>1, <4>2 DEF EnteredOnce
      <4>. QED
        BY <1>7, <4>1, <4>3
    <3>. QED
      BY <3>1, <3>2
  <2>. QED
    BY <1>6, <2>1 DEF EnteredOnce
<1>. QED
  BY <1>10, <1>11, <1>12, <1>13, <1>14 DEF ForwarderInv

\* The entry could not be allocated: the URB is on its way without one.
LEMMA UntrackedStep ==
    ASSUME IInv, UNCHANGED driverAll, fpc = "track", fpc' = "send", Running' = Running,
           untracked' = untracked \cup {fwd},
           UNCHANGED <<fwd, PendingList, PendingCount, wire, sends>>
    PROVE  ForwarderInv'
<1>1. ForwarderTypes /\ EarlyInv /\ InHandInv /\ WireInv /\ EntryInv /\ EnteredOnce
  BY DEF IInv, ForwarderInv
<1>2. ForwarderTypes' /\ InHandInv' /\ WireInv' /\ EnteredOnce'
  BY <1>1 DEF ForwarderTypes, InHandInv, WireInv, EnteredOnce
<1>3. EarlyInv'
  BY <1>1 DEF EarlyInv, Early, Entered, driverAll, driverVars
<1>4. EntryInv'
  BY <1>1 DEF EntryInv, Entered
<1>. QED
  BY <1>2, <1>3, <1>4 DEF ForwarderInv

\* "Send to client": the first and only time for this URB.
LEMMA SendStep ==
    ASSUME IInv, UNCHANGED driverAll, fpc = "send", fpc' = "get", fwd' = 0, NEW s,
           wire' = wire \cup {<<s, fwd>>}, sends' = [sends EXCEPT ![fwd] = @ + 1],
           UNCHANGED <<Running, PendingList, PendingCount, untracked>>
    PROVE  ForwarderInv'
<1>1. ForwarderTypes /\ EarlyInv /\ InHandInv /\ WireInv /\ EntryInv /\ EnteredOnce
  BY DEF IInv, ForwarderInv
<1>2. PICK x \in D!UrbIds : x = fwd /\ sends[x] = 0
  BY <1>1 DEF InHandInv
<1>3. /\ sends' \in [D!UrbIds -> 0..1] /\ sends'[x] = 1
      /\ \A u \in D!UrbIds : u # x => sends'[u] = sends[u]
  BY <1>1, <1>2 DEF ForwarderTypes
<1>4. ForwarderTypes'
  BY <1>1, <1>3, UrbPathAssumption DEF ForwarderTypes
<1>5. EarlyInv'
  <2>1. \A u \in D!UrbIds : u # 0
    BY DEF D!UrbIds
  <2>. QED
    BY <1>1, <1>2, <1>3, <2>1 DEF EarlyInv, Early, Entered, driverAll, driverVars
<1>6. InHandInv' /\ EnteredOnce'
  BY <1>1 DEF InHandInv, EnteredOnce
<1>7. WireInv'
  <2>1. \A t \in S!Sessions, u \in D!UrbIds :
           <<t, u>> \in wire' <=> <<t, u>> \in wire \/ (t = s /\ u = x)
    BY <1>2
  <2>2. \A t \in S!Sessions : <<t, x>> \notin wire
    BY <1>1, <1>2 DEF WireInv
  <2>. QED
    BY <1>1, <1>3, <2>1, <2>2 DEF WireInv
<1>8. EntryInv'
  <2>1. \A t \in S!Sessions, u \in D!UrbIds :
           <<t, u>> \in wire' => <<t, u>> \in wire \/ u = fwd
    BY <1>2
  <2>. QED
    BY <1>1, <2>1 DEF EntryInv, Entered
<1>. QED
  BY <1>4, <1>5, <1>6, <1>7, <1>8 DEF ForwarderInv

\* ServerUrbStop frees the list of a forwarder that no longer runs.
LEMMA FreeStep ==
    ASSUME IInv, FreePendingUrbs
    PROVE  ForwarderInv'
<1>1. ForwarderTypes /\ EarlyInv /\ InHandInv /\ WireInv /\ EntryInv /\ EnteredOnce
  BY DEF IInv, ForwarderInv
<1>2. /\ PendingList' = <<>> /\ ~Running'
      /\ UNCHANGED <<urb, fpc, fwd, PendingCount, wire, sends>>
  BY DEF FreePendingUrbs, driverAll, driverVars
<1>3. DOMAIN PendingList' = {} /\ PendingList' \in Seq(D!UrbIds)
  BY <1>2
<1>4. ForwarderTypes' /\ WireInv' /\ EnteredOnce'
  BY <1>1, <1>2, <1>3 DEF ForwarderTypes, WireInv, EnteredOnce
<1>5. EarlyInv' /\ InHandInv'
  BY <1>1, <1>2, <1>3 DEF EarlyInv, InHandInv, Early, Entered
<1>6. EntryInv'
  BY <1>2 DEF EntryInv
<1>. QED
  BY <1>4, <1>5, <1>6 DEF ForwarderInv

\* ServerUrbComplete unlinks the entry of the URB whose answer left the wire.
LEMMA UnlinkStep ==
    ASSUME ForwarderInv, EarlyKept, Running, Running', NEW s \in S!Sessions, NEW u \in D!UrbIds,
           <<s, u>> \in wire, wire' = wire \ {<<s, u>>},
           NEW i \in DOMAIN PendingList, PendingList[i] = u,
           PendingList' = RemoveAt(PendingList, i), PendingCount' = PendingCount - 1,
           UNCHANGED <<fpc, fwd, untracked, sends>>
    PROVE  ForwarderInv'
<1>1. ForwarderTypes /\ EarlyInv /\ InHandInv /\ WireInv /\ EntryInv /\ EnteredOnce
  BY DEF ForwarderInv
<1>2. PICK p \in Seq(D!UrbIds) : p = PendingList
  BY <1>1 DEF ForwarderTypes
<1>3. PICK r : r = PendingList'
  OBVIOUS
<1>4. /\ i \in 1..Len(p) /\ r = RemoveAt(p, i) /\ p[i] = u
      /\ \A j, k \in DOMAIN p : p[j] = p[k] => j = k
  BY <1>1, <1>2, <1>3 DEF EnteredOnce
<1>5. Unlinks(r, p, i)
  BY <1>4, Unlinked
<1>6. EnteredOnce' /\ PendingList' \in Seq(D!UrbIds)
  BY <1>3, <1>5 DEF EnteredOnce, Unlinks
<1>7. \A v : Entered(v)' <=> v # u /\ Entered(v)
  <2>1. \A v : (\E j \in DOMAIN r : r[j] = v) <=> v # u /\ \E j \in DOMAIN p : p[j] = v
    BY <1>4, <1>5 DEF Unlinks
  <2>. QED
    BY <1>2, <1>3, <2>1 DEF Entered
<1>8. sends[u] = 1 /\ \A t \in S!Sessions : <<t, u>> \notin wire'
  BY <1>1 DEF WireInv
<1>9. PendingCount' = Len(PendingList') /\ PendingCount' \in Nat
  <2>1. Len(p) \in Nat \ {0} /\ PendingCount = Len(p) /\ Len(r) = Len(p) - 1
    BY <1>1, <1>2, <1>4, <1>5 DEF EntryInv, Unlinks
  <2>. QED
    BY <1>3, <2>1
<1>10. ForwarderTypes'
  BY <1>1, <1>6, <1>9 DEF ForwarderTypes
<1>11. EarlyInv'
  BY <1>1, <1>7 DEF EarlyInv, EarlyKept
<1>12. InHandInv' /\ WireInv'
  BY <1>1, <1>7 DEF InHandInv, WireInv
<1>13. EntryInv'
  <2>1. fpc' = "send" => fwd' # u
    BY <1>1, <1>8 DEF InHandInv
  <2>2. fpc' = "send" => Entered(fwd)' \/ fwd' \in untracked'
    BY <1>1, <1>7, <2>1 DEF EntryInv
  <2>3. ASSUME NEW t \in S!Sessions, NEW v \in D!UrbIds, <<t, v>> \in wire'
        PROVE  Entered(v)' \/ v \in untracked'
    <3>1. v # u /\ <<t, v>> \in wire
      BY <1>8, <2>3
    <3>. QED
      BY <1>1, <1>7, <3>1 DEF EntryInv
  <2>. QED
    BY <1>9, <2>2, <2>3 DEF EntryInv
<1>. QED
  BY <1>6, <1>10, <1>11, <1>12, <1>13 DEF ForwarderInv

----------------------------------------------------------------------------
(* The composed system.                                                    *)

\* A step whose driver part keeps the driver's invariant and whose forwarder
\* part is quiet.
LEMMA QuietStep ==
    ASSUME IInv, DriverInv', EarlyKept, Running' => Running, wire' \subseteq wire,
           UNCHANGED <<PendingList, PendingCount, untracked, sends>>,
           \/ fpc' = fpc /\ fwd' = fwd
           \/ fpc' = "track" /\ fpc = "find" /\ fwd' = fwd
           \/ fpc' \in {"get", "deliver", "wait", "ended"} /\ fwd' \in {fwd, 0}
    PROVE  IInv'
BY ForwarderQuiet DEF IInv

\* What leaves the driver alone keeps its invariant.
LEMMA DriverKept ==
    ASSUME IInv, UNCHANGED <<Devices, plugs, PendingUrbList, NextUrbId, urb, held>>
    PROVE  DriverInv' /\ EarlyKept
BY DriverSame DEF IInv, EarlyKept, DriverInv, DriverTypes

\* The USB stack.
LEMMA StackStep == ASSUME IInv, Stack PROVE IInv'
<1>1. DriverInv' /\ EarlyKept
  BY UrbCreateDriver, QueueDriver DEF IInv, Stack, EarlyKept
<1>2. UNCHANGED forwarderVars
  BY DEF Stack
<1>. QED
  BY <1>1, <1>2, QuietStep DEF forwarderVars

\* The client threads: at most the device table of the driver changes.
LEMMA ClientThreadsStep == ASSUME IInv, ClientThreads PROVE IInv'
<1>1. UNCHANGED <<driverVars, forwarderVars>>
  BY DEF ClientThreads
<1>2. Devices' \in [D!DeviceIds -> D!DeviceType] /\ plugs' \in Nat
  <2>0. Devices \in [D!DeviceIds -> D!DeviceType] /\ plugs \in Nat /\ DriverInv
    BY DEF IInv, DriverInv, DriverTypes
  <2>1. CASE S!VusbServerAcceptClient
    BY <2>0, <2>1 DEF S!VusbServerAcceptClient, S!tableVars
  <2>2. ASSUME NEW s \in S!Sessions,
               \/ S!StartThread(s) \/ S!LeaveLoop(s) \/ S!TrackDevice(s)
               \/ S!UntrackDevice(s) \/ S!RemoveFromArray(s) \/ S!FreeClient(s)
        PROVE  UNCHANGED <<Devices, plugs>>
    BY <2>2 DEF S!StartThread, S!LeaveLoop, S!TrackDevice, S!UntrackDevice,
                S!RemoveFromArray, S!FreeClient, S!tableVars
  <2>3. ASSUME NEW s \in S!Sessions, S!VusbServerPluginDevice(s)
        PROVE  Devices' \in [D!DeviceIds -> D!DeviceType] /\ plugs' \in Nat
    BY <2>0, <2>3, PluginDriver DEF S!VusbServerPluginDevice
  <2>4. ASSUME NEW s \in S!Sessions, NEW id \in D!DeviceIds, S!VusbServerUnplugDevice(s, id)
        PROVE  Devices' \in [D!DeviceIds -> D!DeviceType] /\ plugs' \in Nat
    BY <2>0, <2>4, UnplugDriver DEF S!VusbServerUnplugDevice
  <2>5. ASSUME NEW s \in S!Sessions, S!UnplugOwned(s)
        PROVE  Devices' \in [D!DeviceIds -> D!DeviceType] /\ plugs' \in Nat
    BY <2>0, <2>5, UnplugDriver DEF S!UnplugOwned
  <2>. QED
    BY <2>0, <2>1, <2>2, <2>3, <2>4, <2>5 DEF ClientThreads
<1>3. DriverInv' /\ EarlyKept
  BY <1>1, <1>2, DriverSame DEF IInv, EarlyKept, driverVars
<1>. QED
  BY <1>1, <1>3, QuietStep DEF forwarderVars

\* The forwarder thread.
LEMMA ForwarderStep == ASSUME IInv, Forwarder PROVE IInv'
<1>1. CASE GetPendingUrb
  <2>1. DriverInv' /\ EarlyKept
    BY <1>1, DequeueDriver DEF IInv, GetPendingUrb, EarlyKept
  <2>. QED
    BY <1>1, <2>1, QuietStep DEF GetPendingUrb
<1>2. CASE PendingUrbReturned
  <2>1. DriverInv' /\ EarlyKept
    BY <1>2, DeliverDriver DEF IInv, PendingUrbReturned, EarlyKept
  <2>2. CASE fwd' = 0 /\ fpc' = "get"
    BY <1>2, <2>1, <2>2, QuietStep DEF PendingUrbReturned
  <2>. QED
    BY <1>2, <2>2, ReturnedStep DEF PendingUrbReturned
<1>2a. CASE PendingUrbTooLarge
  <2>1. DriverInv' /\ EarlyKept
    BY <1>2a, RequeueDriver DEF IInv, PendingUrbTooLarge, EarlyKept
  <2>. QED
    BY <1>2a, <2>1, QuietStep DEF PendingUrbTooLarge
<1>3. CASE WaitForUrb
  <2>1. DriverInv' /\ EarlyKept
    BY <1>3, DriverKept DEF WaitForUrb, D!GetPendingUrbPark, D!tableVars
  <2>. QED
    BY <1>3, <2>1, QuietStep DEF WaitForUrb
<1>4. CASE TimeoutAndRetry
  <2>1. DriverInv' /\ EarlyKept
    BY <1>4, DriverKept DEF TimeoutAndRetry, D!CancelParked, D!tableVars
  <2>. QED
    BY <1>4, <2>1, QuietStep DEF TimeoutAndRetry
<1>5. CASE ServerUrbFindClientForDevice
  <2>1. DriverInv' /\ EarlyKept
    BY <1>5, DriverKept DEF ServerUrbFindClientForDevice, driverAll, driverVars
  <2>. QED
    BY <1>5, <2>1, QuietStep DEF ServerUrbFindClientForDevice
<1>6. CASE NoClientForDevice
  <2>1. DriverInv' /\ EarlyKept
    BY <1>6, CompleteDriver DEF IInv, NoClientForDevice, EarlyKept
  <2>. QED
    BY <1>6, <2>1, QuietStep DEF NoClientForDevice
<1>7. CASE TrackUrb
  <2>1. DriverInv' /\ EarlyKept
    BY <1>7, DriverKept DEF TrackUrb, driverAll, driverVars
  <2>2. CASE PendingList' = <<fwd>> \o PendingList
             /\ PendingCount' = PendingCount + 1 /\ fpc' = "send"
             /\ UNCHANGED <<fwd, fclient, untracked>>
    BY <1>7, <2>1, <2>2, LinkStep DEF TrackUrb, IInv
  <2>3. CASE untracked' = untracked \cup {fwd} /\ fpc' = "send"
             /\ UNCHANGED <<fwd, fclient, PendingList, PendingCount>>
    BY <1>7, <2>1, <2>3, UntrackedStep DEF TrackUrb, IInv
  <2>4. CASE fpc' = "get" /\ fwd' = 0 /\ UNCHANGED <<PendingList, PendingCount, untracked>>
    BY <1>7, <2>1, <2>4, QuietStep DEF TrackUrb
  <2>. QED
    BY <1>7, <2>2, <2>3, <2>4 DEF TrackUrb
<1>8. CASE SendToClient
  <2>1. DriverInv' /\ EarlyKept
    BY <1>8, DriverKept DEF SendToClient, driverAll, driverVars
  <2>2. ASSUME NEW s, wire' = wire \cup {<<s, fwd>>}, sends' = [sends EXCEPT ![fwd] = @ + 1]
        PROVE  IInv'
    BY <1>8, <2>1, <2>2, SendStep DEF SendToClient, IInv
  <2>3. CASE UNCHANGED <<wire, sends>>
    BY <1>8, <2>1, <2>3, QuietStep DEF SendToClient
  <2>. QED
    BY <1>8, <2>2, <2>3 DEF SendToClient
<1>9. CASE ThreadEnds
  <2>1. DriverInv' /\ EarlyKept
    BY <1>9, DriverKept DEF ThreadEnds, driverAll, driverVars
  <2>. QED
    BY <1>9, <2>1, QuietStep DEF ThreadEnds
<1>. QED
  BY <1>1, <1>2, <1>2a, <1>3, <1>4, <1>5, <1>6, <1>7, <1>8, <1>9 DEF Forwarder, Polling

\* A client's answer, through either handler.
LEMMA CompletionStep == ASSUME IInv, Completion PROVE IInv'
<1>1. PICK s \in S!Sessions, u \in D!UrbIds, result \in {"completed", "failed"} :
         \/ \E number \in 0..MaxUrbs : VusbServerHandleUrbComplete(s, u, number, result)
         \/ ServerUrbComplete(s, u, result)
  BY DEF Completion
<1>2. ASSUME NEW number \in 0..MaxUrbs, VusbServerHandleUrbComplete(s, u, number, result)
      PROVE  IInv'
  <2>1. DriverInv' /\ EarlyKept
    BY <1>2, CompleteDriver DEF IInv, VusbServerHandleUrbComplete, EarlyKept
  <2>2. wire' \subseteq wire
    BY <1>2 DEF VusbServerHandleUrbComplete, Answer
  <2>. QED
    BY <1>2, <2>1, <2>2, QuietStep DEF VusbServerHandleUrbComplete
<1>3. CASE ServerUrbComplete(s, u, result)
  <2>1. /\ Running /\ Running' /\ <<s, u>> \in wire /\ wire' = wire \ {<<s, u>>}
        /\ UNCHANGED <<fpc, fwd, untracked, sends>>
    BY <1>3 DEF ServerUrbComplete, Answer
  <2>2. CASE UNCHANGED <<driverAll, PendingList, PendingCount>>
    <3>1. DriverInv' /\ EarlyKept
      BY <2>2, DriverKept DEF driverAll, driverVars
    <3>2. wire' \subseteq wire
      BY <2>1
    <3>. QED
      BY <2>1, <2>2, <3>1, <3>2, QuietStep
  <2>3. ASSUME NEW i \in DOMAIN PendingList, PendingList[i] = u,
               PendingList' = RemoveAt(PendingList, i), PendingCount' = PendingCount - 1,
               CompleteToDriver(u, result) \/ UNCHANGED driverAll
        PROVE  IInv'
    <3>1. DriverInv' /\ EarlyKept
      BY <2>3, CompleteDriver, DriverKept DEF IInv, EarlyKept, driverAll, driverVars
    <3>2. ForwarderInv'
      BY <2>1, <2>3, <3>1, UnlinkStep DEF IInv
    <3>. QED
      BY <3>1, <3>2 DEF IInv
  <2>. QED
    BY <1>3, <2>2, <2>3 DEF ServerUrbComplete
<1>. QED
  BY <1>1, <1>2, <1>3

\* Every step of the composed system preserves the inductive invariant.
LEMMA NextInv == IInv /\ [Next]_vars => IInv'
<1> SUFFICES ASSUME IInv, [Next]_vars PROVE IInv'
  OBVIOUS
<1>1. CASE StopForwarder
  <2>1. DriverInv' /\ EarlyKept
    BY <1>1, DriverKept DEF StopForwarder, driverAll, driverVars
  <2>. QED
    BY <1>1, <2>1, QuietStep DEF StopForwarder
<1>2. CASE FreePendingUrbs
  <2>1. DriverInv'
    BY <1>2, DriverKept DEF FreePendingUrbs, driverAll, driverVars
  <2>. QED
    BY <1>2, <2>1, FreeStep DEF IInv
<1>3. CASE UNCHANGED vars
  <2>1. DriverInv' /\ EarlyKept
    BY <1>3, DriverKept DEF vars, driverAll, driverVars
  <2>. QED
    BY <1>3, <2>1, QuietStep DEF vars, forwarderVars
<1>. QED
  BY <1>1, <1>2, <1>3, StackStep, ClientThreadsStep, ForwarderStep, CompletionStep DEF Next

(***************************************************************************)
(* The inductive invariant of driver, forwarder and clients together holds *)
(* in every reachable state; in particular the driver keeps its entries in *)
(* one place each while real clients and the forwarder use it.             *)
(***************************************************************************)
THEOREM UrbPathInductive == Spec => []IInv
<1>1. Init => IInv
  BY DriverInit, ForwarderInit DEF IInv
<1>. QED
  BY <1>1, NextInv, PTL DEF Spec

(***************************************************************************)
(* A transfer reaches the hardware at most once, for any number of URBs,   *)
(* devices and clients: cancelled and repeated GET_PENDING_URB requests,   *)
(* lost sends and mismatched completions never make the forwarder send a   *)
(* URB a second time.                                                      *)
(***************************************************************************)
THEOREM UrbPathSubmittedOnce == Spec => []SubmittedOnce
<1>1. IInv => SubmittedOnce
  BY DEF IInv, ForwarderInv, ForwarderTypes, SubmittedOnce
<1>. QED
  BY <1>1, UrbPathInductive, PTL

(***************************************************************************)
(* ServerUrbComplete finds the entry of every answer that can arrive while *)
(* the forwarder runs (unless it could not be allocated), since the entry  *)
(* is made before the message is sent and removed only by that answer.     *)
(***************************************************************************)
THEOREM UrbPathAnswerFindsEntry == Spec => []AnswerFindsEntry
<1>1. IInv => AnswerFindsEntry
  <2>1. ASSUME NEW u, Entered(u) PROVE u \in ToSet(PendingList)
    BY <2>1 DEF Entered, ToSet
  <2>. QED
    BY <2>1 DEF IInv, ForwarderInv, EntryInv, AnswerFindsEntry
<1>. QED
  BY <1>1, UrbPathInductive, PTL

(***************************************************************************)
(* While the forwarder runs, PendingCount counts the list and no URB is in *)
(* it twice, however tracking, answers and failures interleave.            *)
(***************************************************************************)
THEOREM UrbPathPendingListSound == Spec => []PendingListSound
<1>1. IInv => PendingListSound
  <2> SUFFICES ASSUME IInv, Running
               PROVE  PendingCount = Cardinality(ToSet(PendingList)) /\ IsInjective(PendingList)
    BY DEF PendingListSound
  <2>1. /\ PendingList \in Seq(D!UrbIds) /\ EnteredOnce /\ PendingCount = Len(PendingList)
    BY DEF IInv, ForwarderInv, ForwarderTypes, EntryInv
  <2>2. IsInjective(PendingList)
    BY <2>1 DEF EnteredOnce, IsInjective
  <2>3. PICK n \in Nat : n = Len(PendingList) /\ DOMAIN PendingList = 1..n
    BY <2>1
  <2>4. PICK T : T = ToSet(PendingList)
    OBVIOUS
  <2>5. PendingList \in Bijection(1..n, T)
    <3>1. T = {PendingList[i] : i \in 1..n}
      BY <2>3, <2>4 DEF ToSet
    <3>2. PendingList \in [1..n -> T]
      BY <2>1, <2>3, <3>1
    <3>3. \A a, b \in 1..n : PendingList[a] = PendingList[b] => a = b
      BY <2>1, <2>3 DEF EnteredOnce
    <3>4. \A t \in T : \E i \in 1..n : PendingList[i] = t
      BY <3>1
    <3>. QED
      BY <3>2, <3>3, <3>4 DEF Bijection, Injection, Surjection, IsInjective
  <2>6. IsFiniteSet(1..n) /\ Cardinality(1..n) = n
    <3>1. 1 \in Int /\ n \in Int /\ n = IF 1 > n THEN 0 ELSE n - 1 + 1
      OBVIOUS
    <3>2. IsFiniteSet(1..n) /\ Cardinality(1..n) = IF 1 > n THEN 0 ELSE n - 1 + 1
      BY <3>1, FS_Interval
    <3>. QED
      BY <3>1, <3>2
  <2>7. Cardinality(T) = n
    BY <2>5, <2>6, FS_Bijection DEF ExistsBijection
  <2>. QED
    BY <2>1, <2>2, <2>3, <2>4, <2>7
<1>. QED
  BY <1>1, UrbPathInductive, PTL

=============================================================================

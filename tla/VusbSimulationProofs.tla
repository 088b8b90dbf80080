------------------------ MODULE VusbSimulationProofs ------------------------
(***************************************************************************)
(* Proofs about VusbSimulation, for any number of slots, client threads,   *)
(* plugs and lists: what the array SimDevices guarantees without a lock.   *)
(***************************************************************************)
EXTENDS VusbSimulation, FiniteSetTheorems, TLAPS

Active(i) == SimDevices[i].Active
Id(i) == SimDevices[i].DeviceId

Assigning == {"load", "store", "assign", "readback"}
Places == Plugging \cup {"serving", "track", "find", "clear", "untrack", "findlast",
                         "clearlast", "closing", "freed", "list", "listed"}

\* Types, with ids that are any numbers, and the loop index where it is used.
Shape ==
    /\ SimDevices \in [Slots -> [Active: BOOLEAN, DeviceId: Nat]]
    /\ NextSimDeviceId \in Nat
    /\ pc \in [Threads -> Places]
    /\ slot \in [Threads -> 1..(MaxDevices + 1)]
    /\ loaded \in [Threads -> Nat]
    /\ current \in [Threads -> Nat]
    /\ tracked \in [Threads -> [Slots -> Nat]]
    /\ listed \in [Threads -> SUBSET Slots]
    /\ stayed \in [Threads -> SUBSET Slots]
    /\ owner \in [Slots -> 0..MaxThreads]
    /\ clash \in BOOLEAN /\ foreign \in BOOLEAN
    /\ \A t \in Threads :
          /\ pc[t] \in Assigning \cup {"claim", "clear", "clearlast", "list"} => slot[t] \in Slots
          /\ pc[t] = "serving" => slot[t] = 1

\* A device that was there since the list began is Active, and on the list as
\* soon as the loop has passed it.
ListInv ==
    \A t \in Threads :
        /\ \A i \in stayed[t] : Active(i)
        /\ pc[t] = "list" => \A i \in stayed[t] : i < slot[t] => i \in listed[t]
        /\ pc[t] = "listed" => stayed[t] \subseteq listed[t]

\* Without overlapping plugs the one that is plugging has drawn the largest id.
OnePlug ==
    /\ \A t, x \in Threads : pc[t] \in Plugging /\ pc[x] \in Plugging => t = x
    /\ \A t \in Threads : pc[t] = "claim" => ~Active(slot[t])
IdsDrawn ==
    /\ \A i \in Slots : Id(i) <= NextSimDeviceId
    /\ \A t \in Threads : pc[t] = "store" => loaded[t] = NextSimDeviceId
    /\ \A t \in Threads : pc[t] = "assign" => /\ loaded[t] + 1 = NextSimDeviceId
                                              /\ \A i \in Slots : Id(i) <= loaded[t]
    /\ \A t \in Threads : pc[t] = "readback" => \A i, j \in Slots : j = slot[t] /\ Id(i) = Id(j) => i = j
PlugInv == ~clash => OnePlug /\ IdsDrawn /\ UniqueIds

\* A device that is plugged and no longer in the hands of VusbServerPluginDevice.
Live(i) == Active(i) /\ ~\E t \in Threads : slot[t] = i /\ pc[t] \in Assigning

\* The ids thread t has to unplug: its Claims, less the one it has just cleared.
Owes(t, d) ==
    \/ pc[t] \in {"track", "findlast", "clearlast"} /\ d = current[t]
    \/ /\ d # 0 /\ \E k \in Slots : tracked[t][k] = d
       /\ ~(pc[t] = "untrack" /\ d = current[t])

\* Each id it owes is a live device of its own, and each live device is owed.
OwedIsLive ==
    \A t \in Threads : \A d \in Claims(t) : Owes(t, d) =>
        \E i \in Slots : Live(i) /\ Id(i) = d /\ owner[i] = t
LiveIsOwed == \A i \in Slots : Live(i) => owner[i] \in Threads /\ Owes(owner[i], Id(i))

\* An id left behind in a slot that is free or being plugged is nobody's any more.
StaleNotOwed == \A t \in Threads : \A i \in Slots : Owes(t, Id(i)) => Live(i)

\* What a thread knows at each place, of its own entries and of the slot it is at.
Local(t) ==
    /\ \A j, k \in Slots : tracked[t][j] = tracked[t][k] /\ tracked[t][j] # 0 => j = k
    /\ pc[t] \in {"track", "findlast", "clearlast"} =>
          current[t] # 0 /\ \A k \in Slots : tracked[t][k] # current[t]
    /\ pc[t] \in {"find", "clear"} => current[t] # 0 /\ \E k \in Slots : tracked[t][k] = current[t]
    /\ pc[t] \in {"find", "findlast"} =>
          \E i \in Slots : i >= slot[t] /\ Live(i) /\ Id(i) = current[t] /\ owner[i] = t
    /\ pc[t] \in {"clear", "clearlast"} =>
          Live(slot[t]) /\ Id(slot[t]) = current[t] /\ owner[slot[t]] = t
    /\ pc[t] \in Assigning => Active(slot[t]) /\ owner[slot[t]] = t
    /\ pc[t] = "readback" => Id(slot[t]) # 0

OwnInv == ~clash /\ ~foreign => OwedIsLive /\ LiveIsOwed /\ StaleNotOwed /\ \A t \in Threads : Local(t)

IInv == Shape /\ ListInv /\ PlugInv /\ OwnInv

Actions(t) ==
    \/ BeginPlug(t) \/ FindFree(t) \/ Claim(t) \/ LoadNext(t) \/ StoreNext(t)
    \/ AssignId(t) \/ ReadBack(t) \/ Track(t)
    \/ \E id \in 1..MaxPlugs : BeginDetach(t, id)
    \/ FindDevice(t) \/ ClearActive(t) \/ Untrack(t)
    \/ Disconnect(t) \/ UnplugOwned(t)
    \/ BeginList(t) \/ ListSlot(t) \/ SendList(t)

----------------------------------------------------------------------------
(* Types.                                                                  *)

\* Bounds of the loop index.
LEMMA SlotBounds ==
    /\ 1 \in 1..(MaxDevices + 1) /\ 1 \in Slots /\ MaxDevices \in Slots
    /\ \A i \in Slots : i \in 1..(MaxDevices + 1) /\ i + 1 \in 1..(MaxDevices + 1)
    /\ \A i \in Slots : i # MaxDevices => i + 1 \in Slots
    /\ \A t \in Threads : t \in 0..MaxThreads
BY SimulationAssumption DEF Slots, Threads

\* The types of the shared array after each of the steps that write it.
LEMMA SharedShape ==
    ASSUME Shape, NEW t \in Threads, Actions(t)
    PROVE  /\ SimDevices' \in [Slots -> [Active: BOOLEAN, DeviceId: Nat]]
           /\ NextSimDeviceId' \in Nat
           /\ owner' \in [Slots -> 0..MaxThreads]
<1>0. /\ SimDevices \in [Slots -> [Active: BOOLEAN, DeviceId: Nat]] /\ NextSimDeviceId \in Nat
      /\ owner \in [Slots -> 0..MaxThreads] /\ loaded[t] + 1 \in Nat /\ t \in 0..MaxThreads
      /\ pc[t] \in Assigning \cup {"claim", "clear", "clearlast", "list"} => slot[t] \in Slots
  BY SlotBounds DEF Shape
<1>1. CASE Claim(t)
  BY <1>0, <1>1 DEF Claim
<1>2. CASE StoreNext(t)
  BY <1>0, <1>2 DEF StoreNext
<1>3. CASE AssignId(t)
  BY <1>0, <1>3 DEF AssignId, Assigning
<1>4. CASE ClearActive(t)
  BY <1>0, <1>4 DEF ClearActive
<1>5. CASE UNCHANGED sharedVars
  BY <1>0, <1>5 DEF sharedVars
<1>. QED
  BY <1>1, <1>2, <1>3, <1>4, <1>5
  DEF Actions, BeginPlug, FindFree, LoadNext, ReadBack, Track, BeginDetach, FindDevice, Untrack,
      Disconnect, UnplugOwned, BeginList, ListSlot, SendList

\* ... and of the locals of the thread.
LEMMA LocalShape ==
    ASSUME Shape, NEW t \in Threads, Actions(t)
    PROVE  /\ loaded' \in [Threads -> Nat]
           /\ current' \in [Threads -> Nat]
           /\ tracked' \in [Threads -> [Slots -> Nat]]
           /\ listed' \in [Threads -> SUBSET Slots]
           /\ stayed' \in [Threads -> SUBSET Slots]
<1>0. /\ SimDevices \in [Slots -> [Active: BOOLEAN, DeviceId: Nat]] /\ NextSimDeviceId \in Nat
      /\ loaded \in [Threads -> Nat] /\ current \in [Threads -> Nat]
      /\ tracked \in [Threads -> [Slots -> Nat]] /\ listed \in [Threads -> SUBSET Slots]
      /\ stayed \in [Threads -> SUBSET Slots]
      /\ pc[t] \in Assigning \cup {"claim", "clear", "clearlast", "list"} => slot[t] \in Slots
  BY DEF Shape
<1>1. loaded' \in [Threads -> Nat]
  <2>1. CASE loaded' = loaded
    BY <1>0, <2>1
  <2>2. CASE loaded' = [loaded EXCEPT ![t] = 0]
    BY <1>0, <2>2
  <2>3. CASE loaded' = [loaded EXCEPT ![t] = NextSimDeviceId]
    BY <1>0, <2>3
  <2>. QED
    BY <2>1, <2>2, <2>3
    DEF Actions, BeginPlug, FindFree, Claim, LoadNext, StoreNext, AssignId, ReadBack, Track,
        BeginDetach, FindDevice, ClearActive, Untrack, Disconnect, UnplugOwned, BeginList, ListSlot,
        SendList, ReturnFromHandler, localVars
<1>2. current' \in [Threads -> Nat]
  <2>1. \A k \in Slots : tracked[t][k] \in Nat
    BY <1>0
  <2>2. pc[t] = "readback" => SimDevices[slot[t]].DeviceId \in Nat
    BY <1>0 DEF Assigning
  <2>. QED
    BY <1>0, <2>1, <2>2
    DEF Actions, BeginPlug, FindFree, Claim, LoadNext, StoreNext, AssignId, ReadBack, Track,
        BeginDetach, FindDevice, ClearActive, Untrack, Disconnect, UnplugOwned, BeginList, ListSlot,
        SendList, ReturnFromHandler, localVars
<1>3. tracked' \in [Threads -> [Slots -> Nat]]
  <2>1. ASSUME NEW k \in Slots, NEW v \in Nat, tracked' = [tracked EXCEPT ![t][k] = v]
        PROVE  tracked' \in [Threads -> [Slots -> Nat]]
    BY <1>0, <2>1
  <2>2. CASE tracked' = tracked
    BY <1>0, <2>2
  <2>3. current[t] \in Nat /\ 0 \in Nat
    BY <1>0
  <2>. QED
    BY <2>1, <2>2, <2>3
    DEF Actions, BeginPlug, FindFree, Claim, LoadNext, StoreNext, AssignId, ReadBack, Track,
        BeginDetach, FindDevice, ClearActive, Untrack, Disconnect, UnplugOwned, BeginList, ListSlot,
        SendList, localVars
<1>4. listed' \in [Threads -> SUBSET Slots]
  <2>1. pc[t] = "list" => listed[t] \cup {slot[t]} \in SUBSET Slots
    BY <1>0
  <2>. QED
    BY <1>0, <2>1
    DEF Actions, BeginPlug, FindFree, Claim, LoadNext, StoreNext, AssignId, ReadBack, Track,
        BeginDetach, FindDevice, ClearActive, Untrack, Disconnect, UnplugOwned, BeginList, ListSlot,
        SendList, ReturnFromHandler, localVars
<1>5. stayed' \in [Threads -> SUBSET Slots]
  BY <1>0
  DEF Actions, BeginPlug, FindFree, Claim, LoadNext, StoreNext, AssignId, ReadBack, Track,
      BeginDetach, FindDevice, ClearActive, Untrack, Disconnect, UnplugOwned, BeginList, ListSlot,
      SendList, historyVars
<1>. QED
  BY <1>1, <1>2, <1>3, <1>4, <1>5

\* ... and where it is.
LEMMA PlaceShape ==
    ASSUME Shape, NEW t \in Threads, Actions(t)
    PROVE  /\ pc' \in [Threads -> Places]
           /\ slot' \in [Threads -> 1..(MaxDevices + 1)]
           /\ \A x \in Threads :
                 /\ pc'[x] \in Assigning \cup {"claim", "clear", "clearlast", "list"} => slot'[x] \in Slots
                 /\ pc'[x] = "serving" => slot'[x] = 1
<1>0. /\ pc \in [Threads -> Places] /\ slot \in [Threads -> 1..(MaxDevices + 1)]
      /\ \A x \in Threads :
            /\ pc[x] \in Assigning \cup {"claim", "clear", "clearlast", "list"} => slot[x] \in Slots
            /\ pc[x] = "serving" => slot[x] = 1
  BY DEF Shape
<1>1. CASE BeginPlug(t) \/ FindFree(t)
  BY <1>0, <1>1, SlotBounds
  DEF BeginPlug, FindFree, NextSlot, Goto, ReturnFromHandler, localVars, Places, Plugging, Assigning
<1>2. CASE Claim(t) \/ LoadNext(t) \/ StoreNext(t) \/ AssignId(t) \/ ReadBack(t)
  BY <1>0, <1>2 DEF Claim, LoadNext, StoreNext, AssignId, ReadBack, Goto, localVars, Places, Plugging,
                    Assigning
<1>3. CASE Track(t) \/ Untrack(t) \/ SendList(t)
  BY <1>0, <1>3, SlotBounds DEF Track, Untrack, SendList, Goto, ReturnFromHandler, Places, Plugging,
                                Assigning
<1>4. CASE (\E id \in 1..MaxPlugs : BeginDetach(t, id)) \/ FindDevice(t) \/ ClearActive(t)
  BY <1>0, <1>4, SlotBounds
  DEF BeginDetach, FindDevice, ClearActive, NextSlot, Goto, localVars, Places, Plugging, Assigning
<1>5. CASE Disconnect(t) \/ UnplugOwned(t)
  BY <1>0, <1>5, SlotBounds DEF Disconnect, UnplugOwned, Goto, localVars, Places, Plugging, Assigning
<1>6. CASE BeginList(t) \/ ListSlot(t)
  BY <1>0, <1>6, SlotBounds DEF BeginList, ListSlot, NextSlot, Goto, localVars, Places, Plugging,
                                Assigning
<1>. QED
  BY <1>1, <1>2, <1>3, <1>4, <1>5, <1>6 DEF Actions

\* Every step keeps the types.
LEMMA ShapeStep ==
    ASSUME Shape, NEW t \in Threads, Actions(t) PROVE Shape'
<1>1. clash' \in BOOLEAN /\ foreign' \in BOOLEAN
  BY DEF Shape, Actions, BeginPlug, FindFree, Claim, LoadNext, StoreNext, AssignId, ReadBack, Track,
         BeginDetach, FindDevice, ClearActive, Untrack, Disconnect, UnplugOwned, BeginList, ListSlot,
         SendList, historyVars
<1>. QED
  BY <1>1, SharedShape, LocalShape, PlaceShape DEF Shape

----------------------------------------------------------------------------
(* Lists.                                                                  *)

\* What a step does to the Active flags and to the list in progress.
LEMMA ListStep ==
    ASSUME Shape, ListInv, NEW t \in Threads, Actions(t) PROVE ListInv'
<1>0. /\ SimDevices \in [Slots -> [Active: BOOLEAN, DeviceId: Nat]]
      /\ pc \in [Threads -> Places] /\ slot \in [Threads -> 1..(MaxDevices + 1)]
      /\ listed \in [Threads -> SUBSET Slots] /\ stayed \in [Threads -> SUBSET Slots]
      /\ pc[t] \in Assigning \cup {"claim", "clear", "clearlast", "list"} => slot[t] \in Slots
      /\ pc[t] = "serving" => slot[t] = 1
  BY DEF Shape
<1>1. CASE BeginList(t)
  <2>1. /\ slot[t] = 1 /\ slot' = slot /\ listed' = listed /\ SimDevices' = SimDevices
        /\ stayed' = [stayed EXCEPT ![t] = {i \in Slots : SimDevices[i].Active}]
        /\ pc' = [pc EXCEPT ![t] = "list"]
    BY <1>0, <1>1 DEF BeginList, sharedVars, localVars, Goto
  <2>2. \A i \in Slots : ~(i < 1)
    BY DEF Slots
  <2>. QED
    BY <1>0, <2>1, <2>2 DEF ListInv, Active
<1>2. CASE ListSlot(t)
  <2>1. /\ pc[t] = "list" /\ slot[t] \in Slots
        /\ slot'[t] = slot[t] + 1 /\ stayed' = stayed /\ SimDevices' = SimDevices
        /\ listed'[t] = IF Active(slot[t]) THEN listed[t] \cup {slot[t]} ELSE listed[t]
        /\ pc'[t] = IF slot[t] = MaxDevices THEN "listed" ELSE "list"
        /\ \A x \in Threads \ {t} : pc'[x] = pc[x] /\ slot'[x] = slot[x] /\ listed'[x] = listed[x]
    BY <1>0, <1>2 DEF ListSlot, Goto, NextSlot, sharedVars, historyVars, Active
  <2>2. \A i \in stayed[t] : i < slot[t] + 1 => i \in listed'[t]
    <3>1. \A i \in stayed[t] : i \in Slots /\ Active(i) /\ (i < slot[t] => i \in listed[t])
      BY <1>0, <2>1 DEF ListInv
    <3>2. \A i \in Slots : i < slot[t] + 1 => i < slot[t] \/ i = slot[t]
      BY <2>1 DEF Slots
    <3>. QED
      BY <2>1, <3>1, <3>2
  <2>3. slot[t] = MaxDevices => \A i \in Slots : i < slot[t] + 1
    BY SimulationAssumption DEF Slots
  <2>4. \A i \in stayed[t] : Active(i)
    BY DEF ListInv
  <2>. QED
    BY <1>0, <2>1, <2>2, <2>3, <2>4 DEF ListInv, Active
<1>3. CASE ClearActive(t)
  <2>1. /\ slot' = slot /\ listed' = listed
        /\ stayed' = [x \in Threads |-> stayed[x] \ {slot[t]}]
        /\ \A i \in Slots : i # slot[t] => SimDevices'[i] = SimDevices[i]
        /\ pc'[t] \in {"untrack", "closing"} /\ \A x \in Threads \ {t} : pc'[x] = pc[x]
    BY <1>0, <1>3 DEF ClearActive, Goto, localVars
  <2>. QED
    BY <1>0, <2>1 DEF ListInv, Active
<1>4. CASE SendList(t)
  <2>1. /\ SimDevices' = SimDevices /\ stayed' = [stayed EXCEPT ![t] = {}]
        /\ \A x \in Threads \ {t} : pc'[x] = pc[x] /\ slot'[x] = slot[x] /\ listed'[x] = listed[x]
        /\ pc'[t] = "serving"
    BY <1>0, <1>4 DEF SendList, ReturnFromHandler, Goto, sharedVars
  <2>. QED
    BY <1>0, <2>1 DEF ListInv, Active
<1>5. CASE /\ stayed' = stayed
           /\ \A i \in Slots : Active(i) => Active(i)'
           /\ \A x \in Threads \ {t} : pc'[x] = pc[x] /\ slot'[x] = slot[x] /\ listed'[x] = listed[x]
           /\ pc'[t] \notin {"list", "listed"}
  BY <1>0, <1>5 DEF ListInv
<1>6. CASE UNCHANGED SimDevices /\ ~BeginList(t) /\ ~ListSlot(t) /\ ~SendList(t) /\ ~ClearActive(t)
  <2>1. \A i \in Slots : Active(i) => Active(i)'
    BY <1>6 DEF Active
  <2>2. /\ stayed' = stayed
        /\ \A x \in Threads \ {t} : pc'[x] = pc[x] /\ slot'[x] = slot[x] /\ listed'[x] = listed[x]
        /\ pc'[t] \notin {"list", "listed"}
    BY <1>0, <1>6
    DEF Actions, BeginPlug, FindFree, Claim, LoadNext, StoreNext, AssignId, ReadBack, Track,
        BeginDetach, FindDevice, Untrack, Disconnect, UnplugOwned,
        ReturnFromHandler, NextSlot, Goto, localVars, historyVars
  <2>. QED
    BY <1>5, <2>1, <2>2
<1>7. CASE Claim(t) \/ AssignId(t)
  <2>1. \A i \in Slots : Active(i) => Active(i)'
    BY <1>0, <1>7 DEF Claim, AssignId, Active, Assigning
  <2>2. /\ stayed' = stayed
        /\ \A x \in Threads \ {t} : pc'[x] = pc[x] /\ slot'[x] = slot[x] /\ listed'[x] = listed[x]
        /\ pc'[t] \notin {"list", "listed"}
    BY <1>0, <1>7 DEF Claim, AssignId, Goto, localVars, historyVars
  <2>. QED
    BY <1>5, <2>1, <2>2
<1>. QED
  BY <1>1, <1>2, <1>3, <1>4, <1>6, <1>7
  DEF Actions, BeginPlug, FindFree, LoadNext, StoreNext, ReadBack, Track, BeginDetach, FindDevice,
      Untrack, Disconnect, UnplugOwned, sharedVars

----------------------------------------------------------------------------
(* Ids, as long as no two plugs overlap.                                   *)

\* The locals of the threads other than t stay.
Others(t) ==
    \A x \in Threads \ {t} : /\ pc'[x] = pc[x] /\ slot'[x] = slot[x] /\ loaded'[x] = loaded[x]
                             /\ current'[x] = current[x] /\ tracked'[x] = tracked[x]

\* A step of t leaves the locals of the other threads alone.
LEMMA OthersStay ==
    ASSUME Shape, NEW t \in Threads, Actions(t) PROVE Others(t)
BY DEF Shape, Actions, BeginPlug, FindFree, Claim, LoadNext, StoreNext, AssignId, ReadBack, Track,
       BeginDetach, FindDevice, ClearActive, Untrack, Disconnect, UnplugOwned, BeginList, ListSlot,
       SendList, ReturnFromHandler, NextSlot, Goto, localVars, Others

\* A step that writes no id and is not part of a plug.
LEMMA QuietPlug ==
    ASSUME Shape, PlugInv, ~clash, NEW t \in Threads, Others(t),
           pc[t] \notin {"load", "store", "assign"}, pc'[t] \notin Plugging,
           UNCHANGED NextSimDeviceId,
           \A i \in Slots : Id(i)' = Id(i) /\ (Active(i)' => Active(i))
    PROVE  PlugInv'
<1>0. OnePlug /\ IdsDrawn /\ UniqueIds
  BY DEF PlugInv
<1>1. pc'[t] \notin {"load", "store", "assign", "claim"}
  BY DEF Plugging
<1>2. \A i \in Slots : Unassigned(i)' <=> Unassigned(i)
  BY <1>1 DEF Unassigned, Others
<1>3. UniqueIds'
  BY <1>0, <1>2 DEF UniqueIds, Active, Id
<1>4. OnePlug'
  <2>1. \A x \in Threads : pc'[x] = "claim" => x # t /\ slot'[x] = slot[x] /\ pc[x] = "claim"
    BY <1>1 DEF Others
  <2>2. \A x \in Threads : pc[x] = "claim" => slot[x] \in Slots
    BY DEF Shape
  <2>3. \A x \in Threads : pc'[x] = "claim" => ~Active(slot[x])'
    <3> SUFFICES ASSUME NEW x \in Threads, pc'[x] = "claim" PROVE ~Active(slot[x])'
      OBVIOUS
    <3>1. slot'[x] = slot[x] /\ ~Active(slot[x]) /\ slot[x] \in Slots
      BY <1>0, <2>1, <2>2 DEF OnePlug
    <3>2. \A i \in Slots : i = slot[x] => ~Active(i)'
      BY <3>1
    <3>. QED
      BY <3>1, <3>2 DEF Active
  <2>4. \A x, y \in Threads : pc'[x] \in Plugging /\ pc'[y] \in Plugging => x = y
    BY <1>0 DEF OnePlug, Others
  <2>. QED
    BY <2>3, <2>4 DEF OnePlug
<1>5. IdsDrawn'
  <2>1. \A x \in Threads : pc'[x] \in {"store", "assign", "readback"} =>
            pc[x] = pc'[x] /\ loaded'[x] = loaded[x] /\ slot'[x] = slot[x]
    BY DEF Others, Plugging
  <2>2. \A i \in Slots : Id(i)' = Id(i)
    OBVIOUS
  <2>. QED
    BY <1>0, <2>1, <2>2 DEF IdsDrawn
<1>. QED
  BY <1>3, <1>4, <1>5 DEF PlugInv

\* The steps of a plug up to the id: as long as it is the only one, its id is new.
LEMMA PlugSteps ==
    ASSUME Shape, PlugInv, ~clash, NEW t \in Threads, Others(t),
           (BeginPlug(t) /\ ~clash') \/ FindFree(t) \/ Claim(t) \/ LoadNext(t) \/ StoreNext(t) \/ AssignId(t)
    PROVE  PlugInv'
<1>0. /\ OnePlug /\ IdsDrawn /\ UniqueIds
      /\ SimDevices \in [Slots -> [Active: BOOLEAN, DeviceId: Nat]] /\ NextSimDeviceId \in Nat
      /\ pc \in [Threads -> Places] /\ slot \in [Threads -> 1..(MaxDevices + 1)]
      /\ loaded \in [Threads -> Nat]
      /\ \A x \in Threads : pc[x] \in Assigning \cup {"claim"} => slot[x] \in Slots
  BY DEF PlugInv, Shape
<1>1. CASE (BeginPlug(t) /\ ~clash') \/ FindFree(t)
  <2>1. /\ UNCHANGED <<SimDevices, NextSimDeviceId>>
        /\ pc[t] \in {"serving", "scan"} /\ pc'[t] \in {"serving", "scan", "claim"}
        /\ pc'[t] = "claim" => slot'[t] \in Slots /\ ~Active(slot'[t])
    BY <1>0, <1>1 DEF BeginPlug, FindFree, ReturnFromHandler, Goto, NextSlot, sharedVars, localVars, Active
  <2>2. \A x \in Threads \ {t} : pc[x] \in Plugging => pc'[t] \notin Plugging
    <3>1. CASE BeginPlug(t) /\ ~clash'
      BY <3>1 DEF BeginPlug
    <3>2. CASE FindFree(t)
      BY <1>0, <3>2 DEF FindFree, OnePlug, Plugging
    <3>. QED
      BY <1>1, <3>1, <3>2
  <2>3. \A i \in Slots : Unassigned(i)' <=> Unassigned(i)
    BY <2>1 DEF Unassigned, Others
  <2>4. UniqueIds'
    BY <1>0, <2>1, <2>3 DEF UniqueIds
  <2>5. OnePlug'
    BY <1>0, <2>1, <2>2 DEF OnePlug, Others, Active
  <2>6. IdsDrawn'
    BY <1>0, <2>1 DEF IdsDrawn, Others, Id
  <2>. QED
    BY <2>4, <2>5, <2>6 DEF PlugInv
<1>2. CASE Claim(t)
  <2>1. /\ NextSimDeviceId' = NextSimDeviceId /\ slot' = slot /\ loaded' = loaded
        /\ pc[t] = "claim" /\ pc'[t] = "load" /\ slot[t] \in Slots
        /\ \A i \in Slots : /\ Id(i)' = Id(i)
                            /\ i # slot[t] => Active(i)' = Active(i)
    BY <1>0, <1>2 DEF Claim, Goto, localVars, Active, Id
  <2>2. \A i \in Slots : Unassigned(i)' <=> Unassigned(i) \/ i = slot[t]
    BY <2>1 DEF Unassigned, Others
  <2>3. UniqueIds'
    BY <1>0, <2>1, <2>2 DEF UniqueIds, Active, Id
  <2>4. OnePlug'
    BY <1>0, <2>1 DEF OnePlug, Others, Plugging
  <2>5. IdsDrawn'
    BY <1>0, <2>1 DEF IdsDrawn, Others
  <2>. QED
    BY <2>3, <2>4, <2>5 DEF PlugInv
<1>3. CASE LoadNext(t) \/ StoreNext(t)
  <2>1. /\ SimDevices' = SimDevices /\ slot' = slot
        /\ pc[t] \in {"load", "store"} /\ pc'[t] \in {"store", "assign"}
    BY <1>0, <1>3 DEF LoadNext, StoreNext, Goto, sharedVars, localVars
  <2>2. \A i \in Slots : Unassigned(i)' <=> Unassigned(i)
    BY <2>1 DEF Unassigned, Others
  <2>3. UniqueIds'
    BY <1>0, <2>1, <2>2 DEF UniqueIds
  <2>4. OnePlug'
    BY <1>0, <2>1 DEF OnePlug, Others, Plugging, Active
  <2>5. \A x \in Threads : pc'[x] \in {"store", "assign", "readback"} => x = t /\ pc'[x] # "readback"
    BY <1>0, <2>1 DEF OnePlug, Others, Plugging
  <2>6. CASE LoadNext(t)
    <3>1. loaded'[t] = NextSimDeviceId /\ NextSimDeviceId' = NextSimDeviceId /\ pc'[t] = "store"
      BY <1>0, <2>6 DEF LoadNext, Goto, sharedVars
    <3>2. IdsDrawn'
      BY <1>0, <2>1, <2>5, <3>1 DEF IdsDrawn, Id
    <3>. QED
      BY <2>3, <2>4, <3>2 DEF PlugInv
  <2>7. CASE StoreNext(t)
    <3>1. /\ loaded[t] = NextSimDeviceId /\ loaded' = loaded /\ NextSimDeviceId' = loaded[t] + 1
          /\ pc'[t] = "assign"
      BY <1>0, <2>7 DEF StoreNext, Goto, localVars, IdsDrawn
    <3>2. \A i \in Slots : Id(i) \in Nat /\ Id(i) <= NextSimDeviceId
      BY <1>0 DEF IdsDrawn, Id
    <3>3. \A i \in Slots : Id(i)' <= NextSimDeviceId' /\ Id(i)' <= loaded'[t]
      BY <1>0, <2>1, <3>1, <3>2 DEF Id
    <3>4. IdsDrawn'
      BY <2>5, <3>1, <3>3 DEF IdsDrawn
    <3>. QED
      BY <2>3, <2>4, <3>4 DEF PlugInv
  <2>. QED
    BY <1>3, <2>6, <2>7
<1>4. CASE AssignId(t)
  <2>1. /\ NextSimDeviceId' = NextSimDeviceId /\ slot' = slot /\ loaded' = loaded
        /\ pc[t] = "assign" /\ pc'[t] = "readback" /\ slot[t] \in Slots
        /\ \A i \in Slots : /\ Active(i)' = Active(i)
                            /\ Id(i)' = IF i = slot[t] THEN loaded[t] + 1 ELSE Id(i)
    BY <1>0, <1>4 DEF AssignId, Goto, localVars, Active, Id, Assigning
  <2>2. \A x \in Threads \ {t} : pc[x] \notin Plugging
    BY <1>0, <2>1 DEF OnePlug, Plugging
  <2>3. \A i \in Slots : ~Unassigned(i)'
    BY <2>1, <2>2 DEF Unassigned, Others, Plugging
  <2>4. \A i \in Slots : Unassigned(i) <=> i = slot[t]
    BY <2>1, <2>2 DEF Unassigned, Plugging
  <2>5. /\ loaded[t] + 1 = NextSimDeviceId /\ loaded[t] \in Nat
        /\ \A i \in Slots : Id(i) \in Nat /\ Id(i) <= loaded[t]
    BY <1>0, <2>1 DEF IdsDrawn, Id
  <2>6. \A i \in Slots : Id(i)' <= NextSimDeviceId /\ (i # slot[t] => Id(i)' # Id(slot[t])')
    <3>1. Id(slot[t])' = loaded[t] + 1
      BY <2>1 DEF Id
    <3>. QED
      BY <2>1, <2>5, <3>1
  <2>7. UniqueIds'
    <3> SUFFICES ASSUME NEW i \in Slots, NEW j \in Slots, Active(i)', Active(j)', Id(i)' = Id(j)'
                 PROVE  i = j
      BY DEF UniqueIds, Active, Id
    <3>1. i = slot[t] => j = slot[t]
      BY <2>1, <2>5
    <3>2. j = slot[t] => i = slot[t]
      BY <2>1, <2>5
    <3>3. CASE i # slot[t] /\ j # slot[t]
      BY <1>0, <2>1, <2>4, <3>3 DEF UniqueIds, Active, Id
    <3>. QED
      BY <3>1, <3>2, <3>3
  <2>8. OnePlug'
    BY <1>0, <2>1, <2>2 DEF OnePlug, Others, Plugging
  <2>9. IdsDrawn'
    BY <2>1, <2>2, <2>6 DEF IdsDrawn, Others, Plugging
  <2>. QED
    BY <2>7, <2>8, <2>9 DEF PlugInv
<1>. QED
  BY <1>1, <1>2, <1>3, <1>4

\* Every step keeps the ids apart, unless it makes two plugs overlap.
LEMMA PlugStep ==
    ASSUME Shape, PlugInv, NEW t \in Threads, Actions(t) PROVE PlugInv'
<1> SUFFICES ASSUME ~clash' PROVE PlugInv'
  BY DEF PlugInv
<1>0. Others(t) /\ pc \in [Threads -> Places]
  BY OthersStay DEF Shape
<1>1. ~clash
  BY DEF Actions, BeginPlug, FindFree, Claim, LoadNext, StoreNext, AssignId, ReadBack, Track,
         BeginDetach, FindDevice, ClearActive, Untrack, Disconnect, UnplugOwned, BeginList, ListSlot,
         SendList, historyVars
<1>2. CASE ClearActive(t)
  <2>1. /\ pc[t] \in {"clear", "clearlast"} /\ pc'[t] \in {"untrack", "closing"}
        /\ NextSimDeviceId' = NextSimDeviceId
    BY <1>0, <1>2 DEF ClearActive, Goto
  <2>2. \A i \in Slots : Id(i)' = Id(i) /\ (Active(i)' => Active(i))
    BY <1>2 DEF Shape, ClearActive, Active, Id
  <2>. QED
    BY <1>0, <1>1, <2>1, <2>2, QuietPlug DEF Plugging
<1>3. CASE /\ UNCHANGED sharedVars
           /\ pc[t] \notin {"load", "store", "assign"} /\ pc'[t] \notin Plugging
  <2>1. \A i \in Slots : Id(i)' = Id(i) /\ (Active(i)' => Active(i))
    BY <1>3 DEF Active, Id, sharedVars
  <2>. QED
    BY <1>0, <1>1, <1>3, <2>1, QuietPlug DEF sharedVars
<1>4. CASE ReadBack(t) \/ Track(t) \/ Untrack(t) \/ SendList(t)
  BY <1>0, <1>3, <1>4 DEF ReadBack, Track, Untrack, SendList, ReturnFromHandler, Goto, Plugging
<1>5. CASE (\E id \in 1..MaxPlugs : BeginDetach(t, id)) \/ FindDevice(t)
  BY <1>0, <1>3, <1>5 DEF BeginDetach, FindDevice, Goto, Plugging
<1>6. CASE Disconnect(t) \/ UnplugOwned(t) \/ BeginList(t) \/ ListSlot(t)
  BY <1>0, <1>3, <1>6 DEF Disconnect, UnplugOwned, BeginList, ListSlot, Goto, Plugging
<1>. QED
  BY <1>0, <1>1, <1>2, <1>4, <1>5, <1>6, PlugSteps DEF Actions

----------------------------------------------------------------------------
(* Ownership, as long as no two plugs overlap and no client detaches       *)
(* another's device.                                                       *)

\* What a thread owes is among its claims.
LEMMA OwesClaimed ==
    ASSUME NEW t \in Threads, NEW d, Owes(t, d) PROVE d \in Claims(t)
BY DEF Owes, Claims

\* Live devices have different ids.
LEMMA LiveUnique ==
    ASSUME UniqueIds, NEW i \in Slots, NEW j \in Slots, Live(i), Live(j), Id(i) = Id(j)
    PROVE  i = j
BY DEF UniqueIds, Live, Active, Id, Unassigned, Assigning

\* A step of t preserves ownership when it leaves the other threads' devices
\* alone, and what it owes follows the devices it adds to and takes from the array.
LEMMA OwnStep ==
    ASSUME Shape, PlugInv, OwnInv, ~clash, ~foreign, NEW t \in Threads, Others(t), Local(t)',
           \A i \in Slots : Active(i) /\ owner[i] # t =>
               /\ Active(i)' /\ Id(i)' = Id(i) /\ owner'[i] = owner[i]
               /\ Live(i) => Live(i)',
           NEW gained \in SUBSET Slots, NEW lost \in SUBSET Slots,
           \A i \in Slots : Live(i)' <=> (Live(i) /\ i \notin lost) \/ i \in gained,
           \A i \in Slots : Live(i) => Id(i)' = Id(i) /\ owner'[i] = owner[i],
           \A i \in lost : Live(i) /\ owner[i] = t,
           \A i \in gained : owner'[i] = t /\ \A j \in Slots : Id(j)' = Id(i)' => j = i,
           \A i \in Slots : Id(i)' # Id(i) => \A x \in Threads : ~Owes(x, Id(i)'),
           \A d : Owes(t, d)' <=> \/ Owes(t, d) /\ \A i \in lost : Id(i) # d
                                  \/ \E i \in gained : Id(i)' = d
    PROVE  OwnInv'
<1>0. /\ UniqueIds /\ LiveIsOwed /\ StaleNotOwed /\ \A x \in Threads : Local(x)
      /\ \A x \in Threads : \A d : Owes(x, d) =>
            \E i \in Slots : Live(i) /\ Id(i) = d /\ owner[i] = x
  BY OwesClaimed DEF PlugInv, OwnInv, OwedIsLive
<1>1. ASSUME NEW x \in Threads, x # t, NEW d PROVE Owes(x, d)' <=> Owes(x, d)
  BY <1>1 DEF Owes, Others
<1>2. \A i \in lost : \A j \in Slots : Live(j) /\ Id(j) = Id(i) => j = i
  BY <1>0, LiveUnique
<1>3. OwedIsLive'
  <2> SUFFICES ASSUME NEW x \in Threads, NEW d, Owes(x, d)'
               PROVE  \E i \in Slots : Live(i)' /\ Id(i)' = d /\ owner'[i] = x
    BY DEF OwedIsLive
  <2>1. CASE x # t
    <3>1. PICK i \in Slots : Live(i) /\ Id(i) = d /\ owner[i] = x
      BY <1>0, <1>1, <2>1
    <3>2. Active(i)
      BY <3>1 DEF Live
    <3>. QED
      BY <2>1, <3>1, <3>2
  <2>2. CASE x = t /\ Owes(t, d) /\ \A i \in lost : Id(i) # d
    <3>1. PICK i \in Slots : Live(i) /\ Id(i) = d /\ owner[i] = t
      BY <1>0, <2>2
    <3>. QED
      BY <2>2, <3>1
  <2>3. CASE x = t /\ \E i \in gained : Id(i)' = d
    BY <2>3
  <2>. QED
    BY <2>1, <2>2, <2>3
<1>4. LiveIsOwed'
  <2> SUFFICES ASSUME NEW i \in Slots, Live(i)'
               PROVE  \E x \in Threads : owner'[i] = x /\ Owes(x, Id(i))'
    BY DEF LiveIsOwed, Owes
  <2>1. CASE i \in gained
    <3>1. \A d : d = Id(i)' => Owes(t, d)'
      BY <2>1
    <3>. QED
      BY <2>1, <3>1 DEF Owes
  <2>2. CASE i \notin gained
    <3>1. Live(i) /\ i \notin lost /\ Id(i)' = Id(i) /\ owner'[i] = owner[i]
      BY <2>2
    <3>2. PICK x \in Threads : owner[i] = x /\ Owes(x, Id(i))
      BY <1>0, <3>1 DEF LiveIsOwed
    <3>3. \A d : d = Id(i) => Owes(x, d)'
      BY <1>1, <1>2, <3>1, <3>2
    <3>4. Owes(x, Id(i))'
      BY <3>1, <3>3 DEF Owes
    <3>. QED
      BY <3>1, <3>2, <3>4
  <2>. QED
    BY <2>1, <2>2
<1>5. StaleNotOwed'
  <2> SUFFICES ASSUME NEW x \in Threads, NEW i \in Slots, Owes(x, Id(i))' PROVE Live(i)'
    BY DEF StaleNotOwed
  <2>0. \A d : d = Id(i)' => Owes(x, d)'
    BY DEF Owes
  <2>1. CASE Id(i)' # Id(i)
    <3>1. ~Owes(x, Id(i)')
      BY <2>1
    <3>2. x = t /\ \E j \in gained : Id(j)' = Id(i)'
      BY <1>1, <2>0, <3>1
    <3>. QED
      BY <3>2
  <2>2. CASE Id(i)' = Id(i) /\ x # t
    <3>1. Owes(x, Id(i))
      BY <1>1, <2>0, <2>2
    <3>2. Live(i)
      BY <1>0, <3>1 DEF StaleNotOwed
    <3>3. owner[i] = x
      BY <1>0, <3>1, <3>2, LiveUnique
    <3>. QED
      BY <2>2, <3>2, <3>3
  <2>3. CASE Id(i)' = Id(i) /\ x = t
    <3>1. CASE \E j \in gained : Id(j)' = Id(i)'
      BY <3>1
    <3>2. CASE Owes(t, Id(i)) /\ \A j \in lost : Id(j) # Id(i)
      BY <1>0, <3>2 DEF StaleNotOwed
    <3>. QED
      BY <2>0, <2>3, <3>1, <3>2
  <2>. QED
    BY <2>1, <2>2, <2>3
<1>6. ASSUME NEW x \in Threads, x # t PROVE Local(x)'
  <2>0. /\ Local(x) /\ pc'[x] = pc[x] /\ slot'[x] = slot[x] /\ current'[x] = current[x]
        /\ tracked'[x] = tracked[x]
    BY <1>0, <1>6 DEF Others
  <2>1. ASSUME NEW i \in Slots, Active(i), owner[i] = x
        PROVE  Active(i)' /\ Id(i)' = Id(i) /\ owner'[i] = x /\ (Live(i) => Live(i)')
    BY <1>6, <2>1
  <2>2. pc[x] \in {"find", "findlast"} =>
            \E i \in Slots : i >= slot[x] /\ Live(i)' /\ Id(i)' = current[x] /\ owner'[i] = x
    BY <2>0, <2>1 DEF Local, Live
  <2>3. ASSUME slot[x] \in Slots
        PROVE  /\ pc[x] \in {"clear", "clearlast"} =>
                     Live(slot[x])' /\ Id(slot[x])' = current[x] /\ owner'[slot[x]] = x
               /\ pc[x] \in Assigning => Active(slot[x])' /\ owner'[slot[x]] = x
               /\ pc[x] = "readback" => Id(slot[x])' # 0
    <3>1. \A i \in Slots : i = slot[x] =>
            /\ pc[x] \in {"clear", "clearlast"} => Live(i)' /\ Id(i)' = current[x] /\ owner'[i] = x
            /\ pc[x] \in Assigning => Active(i)' /\ owner'[i] = x
            /\ pc[x] = "readback" => Id(i)' # 0
      BY <2>0, <2>1 DEF Local, Live, Assigning
    <3>. QED
      BY <2>0, <2>3, <3>1 DEF Live, Id, Active
  <2>4. pc[x] \in {"clear", "clearlast", "readback"} \cup Assigning => slot[x] \in Slots
    BY DEF Shape, Assigning
  <2>. QED
    BY <2>0, <2>2, <2>3, <2>4 DEF Local
<1>. QED
  BY <1>3, <1>4, <1>5, <1>6 DEF OwnInv

\* A step that writes nothing shared, outside a plug, and owes what it did.
LEMMA QuietOwn ==
    ASSUME Shape, PlugInv, OwnInv, ~clash, ~foreign, NEW t \in Threads, Others(t), Local(t)',
           UNCHANGED sharedVars, pc[t] \notin Assigning, pc'[t] \notin Assigning,
           \A d : Owes(t, d)' <=> Owes(t, d)
    PROVE  OwnInv'
<1>1. \A i \in Slots : /\ Active(i)' = Active(i) /\ Id(i)' = Id(i) /\ owner'[i] = owner[i]
  BY DEF Active, Id, sharedVars
<1>2. \A i \in Slots : Live(i)' <=> Live(i)
  BY <1>1 DEF Live, Others
<1> DEFINE none == {}
<1>3. none \in SUBSET Slots /\ \A i : i \notin none
  OBVIOUS
<1> HIDE DEF none
<1>. QED
  BY <1>1, <1>2, <1>3, OwnStep

\* The part of Local(t) that survives every step that leaves the entries alone.
LEMMA QuietLocal ==
    ASSUME NEW t \in Threads, Local(t), tracked'[t] = tracked[t],
           pc'[t] \in {"serving", "scan", "claim", "untrack", "closing", "freed", "list", "listed"}
    PROVE  Local(t)'
BY DEF Local, Assigning

\* Steps that touch neither entries nor current, or only reset current.
LEMMA IdleOwn ==
    ASSUME Shape, PlugInv, OwnInv, ~clash, ~foreign, NEW t \in Threads, Others(t),
           UNCHANGED <<sharedVars, tracked>>,
           pc[t] \in {"serving", "scan", "list", "listed"},
           pc'[t] \in {"serving", "scan", "claim", "closing", "list", "listed"}
    PROVE  OwnInv'
<1>1. Local(t) /\ tracked'[t] = tracked[t]
  BY DEF OwnInv
<1>2. Local(t)'
  BY <1>1, QuietLocal
<1>3. \A d : Owes(t, d)' <=> Owes(t, d)
  BY DEF Owes
<1>. QED
  BY <1>2, <1>3, QuietOwn DEF Assigning

\* The steps of a plug up to the id work on a slot that is not live.
LEMMA PlugOwn ==
    ASSUME Shape, PlugInv, OwnInv, ~clash, ~foreign, NEW t \in Threads, Others(t),
           Claim(t) \/ LoadNext(t) \/ StoreNext(t) \/ AssignId(t)
    PROVE  OwnInv'
<1>0. /\ SimDevices \in [Slots -> [Active: BOOLEAN, DeviceId: Nat]] /\ loaded \in [Threads -> Nat]
      /\ pc \in [Threads -> Places] /\ slot[t] \in Slots /\ owner \in [Slots -> 0..MaxThreads]
      /\ OnePlug /\ IdsDrawn /\ Local(t)
  BY DEF Shape, PlugInv, OwnInv, Claim, LoadNext, StoreNext, AssignId, Assigning
<1>1. /\ slot' = slot /\ current' = current /\ tracked' = tracked
      /\ pc[t] \in {"claim", "load", "store", "assign"} /\ pc'[t] \in Assigning
      /\ \A i \in Slots : i # slot[t] => SimDevices'[i] = SimDevices[i] /\ owner'[i] = owner[i]
  BY <1>0 DEF Claim, LoadNext, StoreNext, AssignId, Goto, localVars, sharedVars, Assigning
<1>2. ~Live(slot[t])
  BY <1>0, <1>1 DEF OnePlug, Live, Assigning
<1>3. \A i \in Slots : i # slot[t] => /\ Active(i)' = Active(i) /\ Id(i)' = Id(i) /\ owner'[i] = owner[i]
                                      /\ Live(i)' <=> Live(i)
  BY <1>1 DEF Active, Id, Live, Others
<1>4. \A i \in Slots : i = slot[t] => ~Live(i)'
  BY <1>1 DEF Live
<1>5. Active(slot[t]) => owner[slot[t]] = t
  BY <1>0, <1>1 DEF OnePlug, Local, Assigning
<1>6. \A d : Owes(t, d)' <=> Owes(t, d)
  BY <1>1 DEF Owes, Assigning
<1>7. \A i \in Slots : Id(i)' # Id(i) => \A x \in Threads : ~Owes(x, Id(i)')
  <2> SUFFICES ASSUME NEW i \in Slots, Id(i)' # Id(i), NEW x \in Threads, Owes(x, Id(i)') PROVE FALSE
    OBVIOUS
  <2>1. AssignId(t)
    BY <1>0 DEF Claim, LoadNext, StoreNext, Id, sharedVars
  <2>2. i = slot[t] /\ pc[t] = "assign"
    BY <1>3, <2>1 DEF AssignId
  <2>3. Id(i)' = loaded[t] + 1
    BY <1>0, <2>1, <2>2 DEF AssignId, Id
  <2>4. \E j \in Slots : Id(j) = loaded[t] + 1
    BY <2>3, OwesClaimed DEF OwnInv, OwedIsLive
  <2>5. \A j \in Slots : Id(j) \in Nat /\ Id(j) <= loaded[t] /\ loaded[t] \in Nat
    BY <1>0, <2>2 DEF IdsDrawn, Id
  <2>. QED
    BY <2>4, <2>5
<1>8. Local(t)'
  <2>1. Active(slot[t])' /\ owner'[slot[t]] = t
    BY <1>0, <1>1, <1>5 DEF Claim, LoadNext, StoreNext, AssignId, Active, sharedVars, Local, Assigning
  <2>2. pc'[t] = "readback" => Id(slot[t])' # 0
    <3>1. pc'[t] = "readback" => AssignId(t)
      BY <1>0 DEF Claim, LoadNext, StoreNext, Goto
    <3>2. AssignId(t) => Id(slot[t])' = loaded[t] + 1 /\ loaded[t] \in Nat
      BY <1>0, <1>1 DEF AssignId, Id
    <3>. QED
      BY <3>1, <3>2
  <2>3. owner'[slot'[t]] = t
    BY <1>1, <2>1
  <2>. QED
    BY <1>0, <1>1, <2>1, <2>2, <2>3 DEF Local, Assigning
<1> DEFINE none == {}
<1>9. none \in SUBSET Slots /\ \A i : i \notin none
  OBVIOUS
<1>10. \A i \in Slots : Live(i)' <=> Live(i)
  BY <1>2, <1>3, <1>4
<1>11. \A i \in Slots : Live(i) => i # slot[t]
  BY <1>2
<1>12. \A i \in Slots : Active(i) /\ owner[i] # t => i # slot[t]
  BY <1>5
<1> HIDE DEF none
<1>. QED
  BY <1>3, <1>6, <1>7, <1>8, <1>9, <1>10, <1>11, <1>12, OwnStep

\* ReadBack: the device becomes live and its id is owed.
LEMMA ReadBackOwn ==
    ASSUME Shape, PlugInv, OwnInv, ~clash, ~foreign, NEW t \in Threads, Others(t), ReadBack(t)
    PROVE  OwnInv'
<1>0. /\ pc \in [Threads -> Places] /\ slot[t] \in Slots /\ current \in [Threads -> Nat]
      /\ OnePlug /\ IdsDrawn /\ Local(t) /\ StaleNotOwed
  BY DEF Shape, PlugInv, OwnInv, ReadBack, Assigning
<1>1. /\ slot' = slot /\ tracked' = tracked /\ SimDevices' = SimDevices /\ owner' = owner
      /\ pc[t] = "readback" /\ pc'[t] = "track" /\ current'[t] = Id(slot[t])
  BY <1>0 DEF ReadBack, Goto, sharedVars, Id
<1> DEFINE one == {slot[t]}  none == {}
<1>2. Active(slot[t]) /\ owner[slot[t]] = t /\ Id(slot[t]) # 0
  BY <1>0, <1>1 DEF Local, Assigning
<1>3. \A x \in Threads \ {t} : pc[x] \notin Assigning /\ pc'[x] \notin Assigning
  BY <1>0, <1>1 DEF OnePlug, Others, Plugging, Assigning
<1>4. \A i \in Slots : /\ Live(i)' <=> Active(i)
                       /\ Live(i) <=> Active(i) /\ i # slot[t]
  BY <1>1, <1>3 DEF Live, Active, Assigning
<1>5. \A i \in Slots : Active(i)' = Active(i) /\ Id(i)' = Id(i) /\ owner'[i] = owner[i]
  BY <1>1 DEF Active, Id
<1>6. \A j \in Slots : Id(j) = Id(slot[t]) => j = slot[t]
  BY <1>0, <1>1 DEF IdsDrawn
<1>7. \A k \in Slots : tracked[t][k] # Id(slot[t])
  <2> SUFFICES ASSUME NEW k \in Slots, tracked[t][k] = Id(slot[t]) PROVE FALSE
    OBVIOUS
  <2>1. Owes(t, Id(slot[t]))
    BY <1>1, <1>2 DEF Owes
  <2>2. Live(slot[t])
    BY <1>0, <2>1 DEF StaleNotOwed
  <2>. QED
    BY <1>0, <1>4, <2>2
<1>8. Local(t)'
  BY <1>0, <1>1, <1>2, <1>7 DEF Local, Assigning
<1>9. \A d : Owes(t, d)' <=> Owes(t, d) \/ d = Id(slot[t])
  BY <1>1, <1>2 DEF Owes
<1>10. one \in SUBSET Slots /\ none \in SUBSET Slots /\ \A i : i \notin none /\ (i \in one <=> i = slot[t])
  BY <1>0
<1>11. /\ \A i \in one : owner'[i] = t /\ \A j \in Slots : Id(j)' = Id(i)' => j = i
       /\ \A d : (\E i \in one : Id(i)' = d) <=> d = Id(slot[t])
  BY <1>0, <1>1, <1>2, <1>5, <1>6
<1>12. \A i \in Slots : Live(i)' <=> Live(i) \/ i = slot[t]
  BY <1>2, <1>4
<1> HIDE DEF one, none
<1>13. \A i \in Slots : Live(i)' <=> (Live(i) /\ i \notin none) \/ i \in one
  BY <1>10, <1>12
<1>14. \A d : Owes(t, d)' <=> \/ Owes(t, d) /\ \A i \in none : Id(i) # d
                              \/ \E i \in one : Id(i)' = d
  BY <1>9, <1>10, <1>11
<1>. QED
  BY <1>5, <1>8, <1>10, <1>11, <1>12, <1>13, <1>14, OwnStep

\* The entries of a thread stand for different live devices, so an entry is free
\* when one more live device has to be tracked.
LEMMA FreeEntry ==
    ASSUME Shape, PlugInv, OwnInv, ~clash, ~foreign, NEW t \in Threads, pc[t] = "track"
    PROVE  \E k \in Slots : tracked[t][k] = 0
<1> SUFFICES ASSUME \A k \in Slots : tracked[t][k] # 0 PROVE FALSE
  OBVIOUS
<1>0. /\ Local(t)
      /\ \A d : Owes(t, d) => \E i \in Slots : Live(i) /\ Id(i) = d /\ owner[i] = t
  BY OwesClaimed DEF OwnInv, OwedIsLive
<1>1. \A k \in Slots : \E i \in Slots : Id(i) = tracked[t][k]
  BY <1>0 DEF Owes
<1>2. PICK c \in Slots : Id(c) = current[t]
  BY <1>0 DEF Owes
<1> DEFINE f == [k \in Slots |-> CHOOSE i \in Slots : Id(i) = tracked[t][k]]
           T == Slots \ {c}
<1>3. \A k \in Slots : f[k] \in Slots /\ Id(f[k]) = tracked[t][k]
  BY <1>1
<1>4. f \in [Slots -> T]
  <2>1. \A k \in Slots : f[k] # c
    BY <1>0, <1>2, <1>3 DEF Local
  <2>2. \A k \in Slots : f[k] \in T
    BY <1>3, <2>1
  <2>. QED
    BY <2>2
<1>5. IsFiniteSet(Slots) /\ Cardinality(Slots) \in Nat
  <2>1. 1 \in Int /\ MaxDevices \in Int
    BY SimulationAssumption
  <2>2. IsFiniteSet(1..MaxDevices)
    BY <2>1, FS_Interval
  <2>. QED
    BY <2>2, FS_CardinalityType DEF Slots
<1>6. IsFiniteSet(T) /\ Cardinality(T) = Cardinality(Slots) - 1
  BY <1>5, FS_RemoveElement
<1>7. Cardinality(T) < Cardinality(Slots)
  BY <1>5, <1>6
<1>8. \A j, k \in Slots : f[j] = f[k] => j = k
  BY <1>0, <1>3 DEF Local
<1> HIDE DEF f, T
<1>9. \E j, k \in Slots : j # k /\ f[j] = f[k]
  BY <1>4, <1>5, <1>6, <1>7, FS_PigeonHole
<1>. QED
  BY <1>8, <1>9

\* The id of a plug goes into a free entry.
LEMMA TrackOwn ==
    ASSUME Shape, PlugInv, OwnInv, ~clash, ~foreign, NEW t \in Threads, Others(t), Track(t)
    PROVE  OwnInv'
<1>0. /\ pc \in [Threads -> Places] /\ tracked \in [Threads -> [Slots -> Nat]] /\ Local(t)
  BY DEF Shape, OwnInv
<1>1. pc[t] = "track" /\ pc'[t] = "serving" /\ UNCHANGED sharedVars
  BY <1>0 DEF Track, ReturnFromHandler, Goto
<1>2. PICK k \in Slots : /\ tracked[t][k] = 0
                         /\ tracked' = [tracked EXCEPT ![t][k] = current[t]]
  BY <1>1, FreeEntry DEF Track
<1>3. \A j \in Slots : tracked'[t][j] = IF j = k THEN current[t] ELSE tracked[t][j]
  BY <1>0, <1>2
<1>4. current[t] # 0 /\ \A j \in Slots : tracked[t][j] # current[t]
  BY <1>0, <1>1 DEF Local
<1>5. \A d : Owes(t, d)' <=> Owes(t, d)
  BY <1>1, <1>2, <1>3, <1>4 DEF Owes
<1>6. Local(t)'
  BY <1>0, <1>1, <1>3, <1>4 DEF Local, Assigning
<1>. QED
  BY <1>1, <1>5, <1>6, QuietOwn DEF Assigning

\* A detach request for a device of the client's own.
LEMMA BeginDetachOwn ==
    ASSUME Shape, PlugInv, OwnInv, ~clash, ~foreign, NEW t \in Threads, Others(t),
           NEW id \in 1..MaxPlugs, BeginDetach(t, id), ~foreign'
    PROVE  OwnInv'
<1>0. /\ pc \in [Threads -> Places] /\ current \in [Threads -> Nat] /\ Local(t)
      /\ \A d : Owes(t, d) => \E i \in Slots : Live(i) /\ Id(i) = d /\ owner[i] = t
      /\ pc[t] = "serving" => slot[t] = 1
  BY OwesClaimed DEF Shape, OwnInv, OwedIsLive
<1>1. /\ pc[t] = "serving" /\ pc'[t] = "find" /\ current'[t] = id /\ id # 0
      /\ UNCHANGED <<sharedVars, slot, tracked>>
  BY <1>0 DEF BeginDetach, Goto
<1>2. \E k \in Slots : tracked[t][k] = id
  BY DEF BeginDetach
<1>3. PICK i \in Slots : Live(i) /\ Id(i) = id /\ owner[i] = t
  BY <1>0, <1>1, <1>2 DEF Owes
<1>4. \A d : Owes(t, d)' <=> Owes(t, d)
  BY <1>1 DEF Owes
<1>5. Live(i)' /\ Id(i)' = id /\ owner'[i] = t /\ i >= slot'[t]
  <2>1. i >= 1
    BY DEF Slots
  <2>2. Live(i)'
    BY <1>1, <1>3 DEF Live, Active, Others, Assigning, sharedVars
  <2>. QED
    BY <1>0, <1>1, <1>3, <2>1, <2>2 DEF Id, sharedVars
<1>6. Local(t)'
  BY <1>0, <1>1, <1>2, <1>5 DEF Local, Assigning
<1>. QED
  BY <1>1, <1>4, <1>6, QuietOwn DEF Assigning

\* The search of VusbServerUnplugDevice finds the client's own device.
LEMMA FindOwn ==
    ASSUME Shape, PlugInv, OwnInv, ~clash, ~foreign, NEW t \in Threads, Others(t), FindDevice(t)
    PROVE  OwnInv'
<1>0. /\ pc \in [Threads -> Places] /\ slot \in [Threads -> 1..(MaxDevices + 1)] /\ Local(t)
      /\ StaleNotOwed /\ UniqueIds
  BY DEF Shape, OwnInv, PlugInv
<1>1. /\ pc[t] \in {"find", "findlast"} /\ UNCHANGED <<sharedVars, current, tracked>>
  BY DEF FindDevice
<1>2. PICK i \in Slots : i >= slot[t] /\ Live(i) /\ Id(i) = current[t] /\ owner[i] = t
  BY <1>0, <1>1 DEF Local
<1>3. slot[t] \in Slots
  <2>1. slot[t] \in 1..(MaxDevices + 1) /\ slot[t] <= i
    BY <1>0, <1>2 DEF Slots
  <2>. QED
    BY <2>1, SimulationAssumption DEF Slots
<1>4. Owes(t, current[t])
  BY <1>0, <1>1 DEF Local, Owes
<1>5. \A j \in Slots : Active(j)' = Active(j) /\ Id(j)' = Id(j) /\ owner'[j] = owner[j]
  BY <1>1 DEF Active, Id, sharedVars
<1>6. CASE /\ SimDevices[slot[t]].Active /\ SimDevices[slot[t]].DeviceId = current[t]
           /\ Goto(t, IF pc[t] = "find" THEN "clear" ELSE "clearlast") /\ UNCHANGED slot
  <2>1. Id(slot[t]) = current[t] /\ Live(slot[t])
    BY <1>0, <1>3, <1>4, <1>6 DEF Id, StaleNotOwed
  <2>2. slot[t] = i
    BY <1>0, <1>2, <1>3, <2>1, LiveUnique
  <2>3. pc'[t] = IF pc[t] = "find" THEN "clear" ELSE "clearlast"
    BY <1>0, <1>6 DEF Goto
  <2>4. \A d : Owes(t, d)' <=> Owes(t, d)
    BY <1>1, <2>3 DEF Owes
  <2>5. \A j \in Slots : Live(j)' <=> Live(j)
    BY <1>1, <1>5, <2>3 DEF Live, Others, Assigning
  <2>6. Live(slot[t])' /\ Id(slot[t])' = current[t] /\ owner'[slot[t]] = t
    <3>1. Live(i)' /\ Id(i)' = current[t] /\ owner'[i] = t /\ slot'[t] = i
      BY <1>2, <1>5, <1>6, <2>2, <2>5
    <3>. QED
      BY <2>2, <3>1 DEF Live, Active, Id
  <2>7. Local(t)'
    BY <1>0, <1>1, <1>6, <2>3, <2>6 DEF Local, Assigning
  <2>. QED
    BY <1>1, <2>3, <2>4, <2>7, QuietOwn DEF Assigning
<1>7. CASE /\ ~(SimDevices[slot[t]].Active /\ SimDevices[slot[t]].DeviceId = current[t])
           /\ NextSlot(t) /\ UNCHANGED pc
  <2>1. i # slot[t]
    BY <1>2, <1>7 DEF Live, Active, Id
  <2>2. slot'[t] = slot[t] + 1 /\ i >= slot[t] + 1
    BY <1>0, <1>2, <1>3, <1>7, <2>1 DEF NextSlot, Slots
  <2>3. \A d : Owes(t, d)' <=> Owes(t, d)
    BY <1>1, <1>7 DEF Owes
  <2>4. \A j \in Slots : Live(j)' <=> Live(j)
    BY <1>1, <1>5, <1>7 DEF Live, Others, Assigning
  <2>5. i >= slot'[t] /\ Live(i)' /\ Id(i)' = current'[t] /\ owner'[i] = t
    BY <1>1, <1>2, <1>5, <2>2, <2>4
  <2>6. Local(t)'
    BY <1>0, <1>1, <1>7, <2>5 DEF Local, Assigning
  <2>. QED
    BY <1>1, <1>7, <2>3, <2>6, QuietOwn DEF Assigning
<1>. QED
  BY <1>3, <1>6, <1>7 DEF FindDevice

\* The slot that is cleared is the client's own; its id is owed no more.
LEMMA ClearOwn ==
    ASSUME Shape, PlugInv, OwnInv, ~clash, ~foreign, NEW t \in Threads, Others(t), ClearActive(t)
    PROVE  OwnInv'
<1>0. /\ pc \in [Threads -> Places] /\ slot[t] \in Slots /\ Local(t)
      /\ SimDevices \in [Slots -> [Active: BOOLEAN, DeviceId: Nat]]
  BY DEF Shape, OwnInv, ClearActive
<1>1. /\ pc[t] \in {"clear", "clearlast"} /\ pc'[t] = IF pc[t] = "clear" THEN "untrack" ELSE "closing"
      /\ owner' = owner /\ slot' = slot /\ current' = current /\ tracked' = tracked
      /\ \A i \in Slots : /\ Id(i)' = Id(i)
                          /\ i # slot[t] => Active(i)' = Active(i)
                          /\ i = slot[t] => ~Active(i)'
  BY <1>0 DEF ClearActive, Goto, localVars, Active, Id
<1>2. Live(slot[t]) /\ Id(slot[t]) = current[t] /\ owner[slot[t]] = t
  BY <1>0, <1>1 DEF Local
<1>3. \A i \in Slots : Live(i)' <=> Live(i) /\ i # slot[t]
  BY <1>1 DEF Live, Others, Assigning
<1>4. \A d : Owes(t, d)' <=> Owes(t, d) /\ d # Id(slot[t])
  BY <1>0, <1>1, <1>2 DEF Owes, Local
<1>5. Local(t)'
  BY <1>0, <1>1, QuietLocal
<1> DEFINE one == {slot[t]}  none == {}
<1>6. one \in SUBSET Slots /\ none \in SUBSET Slots /\ \A i : i \notin none /\ (i \in one <=> i = slot[t])
  BY <1>0
<1>7. \A i \in Slots : Active(i) /\ owner[i] # t => i # slot[t]
  BY <1>2
<1> HIDE DEF one, none
<1>8. \A i \in Slots : Live(i)' <=> (Live(i) /\ i \notin one) \/ i \in none
  BY <1>3, <1>6
<1>9. \A d : Owes(t, d)' <=> \/ Owes(t, d) /\ \A i \in one : Id(i) # d
                             \/ \E i \in none : Id(i)' = d
  BY <1>0, <1>4, <1>6
<1>. QED
  BY <1>1, <1>2, <1>3, <1>5, <1>6, <1>7, <1>8, <1>9, OwnStep

\* The entry of a device that has been cleared goes.
LEMMA UntrackOwn ==
    ASSUME Shape, PlugInv, OwnInv, ~clash, ~foreign, NEW t \in Threads, Others(t), Untrack(t)
    PROVE  OwnInv'
<1>0. /\ pc \in [Threads -> Places] /\ tracked \in [Threads -> [Slots -> Nat]] /\ Local(t)
  BY DEF Shape, OwnInv
<1>1. pc[t] = "untrack" /\ pc'[t] = "serving" /\ UNCHANGED sharedVars
  BY <1>0 DEF Untrack, ReturnFromHandler, Goto
<1>2. \A j \in Slots : tracked'[t][j] = IF tracked[t][j] = current[t] THEN 0 ELSE tracked[t][j]
  <2>1. ASSUME NEW k \in Slots, tracked[t][k] = current[t],
               tracked' = [tracked EXCEPT ![t][k] = 0]
        PROVE  <1>2!:
    <3>1. \A j \in Slots : tracked'[t][j] = IF j = k THEN 0 ELSE tracked[t][j]
      BY <1>0, <2>1
    <3>2. \A j \in Slots : tracked[t][j] = current[t] => j = k \/ tracked[t][j] = 0
      BY <1>0, <2>1 DEF Local
    <3>. QED
      BY <2>1, <3>1, <3>2
  <2>2. CASE tracked' = tracked /\ \A k \in Slots : tracked[t][k] # current[t]
    BY <2>2
  <2>. QED
    BY <2>1, <2>2 DEF Untrack
<1>3. \A d : Owes(t, d)' <=> Owes(t, d)
  BY <1>1, <1>2 DEF Owes
<1>4. Local(t)'
  BY <1>0, <1>1, <1>2 DEF Local, Assigning
<1>. QED
  BY <1>1, <1>3, <1>4, QuietOwn DEF Assigning

\* The disconnect takes the next entry, or is done.
LEMMA UnplugOwnedOwn ==
    ASSUME Shape, PlugInv, OwnInv, ~clash, ~foreign, NEW t \in Threads, Others(t), UnplugOwned(t)
    PROVE  OwnInv'
<1>0. /\ pc \in [Threads -> Places] /\ tracked \in [Threads -> [Slots -> Nat]] /\ Local(t)
      /\ current \in [Threads -> Nat] /\ slot \in [Threads -> 1..(MaxDevices + 1)]
      /\ \A d : Owes(t, d) => \E i \in Slots : Live(i) /\ Id(i) = d /\ owner[i] = t
  BY OwesClaimed DEF Shape, OwnInv, OwedIsLive
<1>1. pc[t] = "closing" /\ UNCHANGED sharedVars
  BY DEF UnplugOwned
<1>2. ASSUME NEW k \in Slots, tracked[t][k] # 0, current' = [current EXCEPT ![t] = tracked[t][k]],
             tracked' = [tracked EXCEPT ![t][k] = 0], slot' = [slot EXCEPT ![t] = 1],
             Goto(t, "findlast")
      PROVE  OwnInv'
  <2>1. /\ pc'[t] = "findlast" /\ current'[t] = tracked[t][k] /\ slot'[t] = 1
        /\ \A j \in Slots : tracked'[t][j] = IF j = k THEN 0 ELSE tracked[t][j]
    BY <1>0, <1>2 DEF Goto
  <2>2. \A j \in Slots : tracked[t][j] = tracked[t][k] => j = k
    BY <1>0, <1>2 DEF Local
  <2>3. \A d : Owes(t, d)' <=> Owes(t, d)
    BY <1>1, <1>2, <2>1, <2>2 DEF Owes
  <2>4. PICK i \in Slots : Live(i) /\ Id(i) = tracked[t][k] /\ owner[i] = t
    BY <1>0, <1>1, <1>2 DEF Owes
  <2>5. Live(i)' /\ Id(i)' = current'[t] /\ owner'[i] = t
    BY <1>1, <2>1, <2>4 DEF Live, Active, Id, Others, Assigning, sharedVars
  <2>6. i >= slot'[t]
    BY <2>1 DEF Slots
  <2>7. Local(t)'
    BY <1>0, <1>2, <2>1, <2>2, <2>5, <2>6 DEF Local, Assigning
  <2>. QED
    BY <1>1, <2>1, <2>3, <2>7, QuietOwn DEF Assigning
<1>3. CASE tracked' = tracked /\ Goto(t, "freed")
  <2>1. pc'[t] = "freed"
    BY <1>0, <1>3 DEF Goto
  <2>2. \A d : Owes(t, d)' <=> Owes(t, d)
    BY <1>1, <1>3, <2>1 DEF Owes
  <2>3. Local(t)'
    BY <1>0, <1>3, <2>1, QuietLocal
  <2>. QED
    BY <1>1, <2>1, <2>2, <2>3, QuietOwn DEF Assigning
<1>. QED
  BY <1>2, <1>3 DEF UnplugOwned

\* Every step keeps ownership, unless it makes two plugs overlap or detaches
\* another client's device.
LEMMA OwnStepAll ==
    ASSUME Shape, PlugInv, OwnInv, NEW t \in Threads, Actions(t) PROVE OwnInv'
<1> SUFFICES ASSUME ~clash', ~foreign' PROVE OwnInv'
  BY DEF OwnInv
<1>0. Others(t) /\ pc \in [Threads -> Places]
  BY OthersStay DEF Shape
<1>1. ~clash /\ ~foreign
  <2>1. CASE UNCHANGED <<clash, foreign>>
    BY <2>1
  <2>2. CASE BeginPlug(t)
    BY <2>2 DEF BeginPlug
  <2>3. CASE \E id \in 1..MaxPlugs : BeginDetach(t, id)
    <3>1. PICK id \in 1..MaxPlugs : BeginDetach(t, id)
      BY <2>3
    <3>2. foreign' = (foreign \/ \A k \in Slots : tracked[t][k] # id) /\ clash' = clash
      BY <3>1 DEF BeginDetach
    <3>. QED
      BY <3>2, Zenon
  <2>. QED
    BY <2>1, <2>2, <2>3
       DEF Actions, FindFree, Claim, LoadNext, StoreNext, AssignId, ReadBack, Track, FindDevice,
           ClearActive, Untrack, Disconnect, UnplugOwned, BeginList, ListSlot, SendList, historyVars
<1>2. CASE BeginPlug(t) \/ FindFree(t) \/ Disconnect(t) \/ BeginList(t) \/ ListSlot(t) \/ SendList(t)
  <2>1. /\ UNCHANGED <<sharedVars, tracked>>
        /\ pc[t] \in {"serving", "scan", "list", "listed"}
        /\ pc'[t] \in {"serving", "scan", "claim", "closing", "list", "listed"}
    BY <1>0, <1>2 DEF BeginPlug, FindFree, Disconnect, BeginList, ListSlot, SendList,
                      ReturnFromHandler, Goto, localVars
  <2>. QED
    BY <1>0, <1>1, <2>1, IdleOwn
<1>3. CASE Claim(t) \/ LoadNext(t) \/ StoreNext(t) \/ AssignId(t)
  BY <1>0, <1>1, <1>3, PlugOwn
<1>4. CASE \E id \in 1..MaxPlugs : BeginDetach(t, id)
  BY <1>0, <1>1, <1>4, BeginDetachOwn
<1>5. CASE ReadBack(t) \/ Track(t) \/ FindDevice(t) \/ ClearActive(t) \/ Untrack(t) \/ UnplugOwned(t)
  BY <1>0, <1>1, <1>5, ReadBackOwn, TrackOwn, FindOwn, ClearOwn, UntrackOwn, UnplugOwnedOwn
<1>. QED
  BY <1>2, <1>3, <1>4, <1>5 DEF Actions

----------------------------------------------------------------------------
(* The theorems.                                                           *)

\* An array of empty slots and threads that serve satisfy the invariant.
LEMMA InitIInv == ASSUME Init PROVE IInv
<1>0. \A i \in Slots : ~Active(i) /\ Id(i) = 0
  BY DEF Init, Active, Id
<1>1. Shape
  <2>1. 0 \in Nat /\ 0 \in 0..MaxThreads /\ 1 \in 1..(MaxDevices + 1)
    BY SimulationAssumption
  <2>2. clash \in BOOLEAN /\ foreign \in BOOLEAN
    BY DEF Init
  <2>3. SimDevices \in [Slots -> [Active: BOOLEAN, DeviceId: Nat]]
    BY <2>1 DEF Init
  <2>. QED
    BY <2>1, <2>2, <2>3 DEF Init, Shape, Places, Assigning
<1>2. ListInv
  BY DEF Init, ListInv
<1>3. PlugInv
  BY <1>0 DEF Init, PlugInv, OnePlug, IdsDrawn, UniqueIds, Plugging, Active
<1>4. \A t \in Threads : \A d : ~Owes(t, d)
  BY DEF Init, Owes
<1>5. OwnInv
  <2>1. \A i \in Slots : ~Live(i)
    BY <1>0 DEF Live
  <2>2. \A t \in Threads : Local(t)
    BY DEF Init, Local, Assigning
  <2>. QED
    BY <1>4, <2>1, <2>2 DEF OwnInv, OwedIsLive, LiveIsOwed, StaleNotOwed
<1>. QED
  BY <1>1, <1>2, <1>3, <1>5 DEF IInv

\* Nothing in the invariant depends on more than the variables.
LEMMA StutterIInv == ASSUME IInv, UNCHANGED vars PROVE IInv'
<1>1. /\ \A i \in Slots : Active(i)' = Active(i) /\ Id(i)' = Id(i)
      /\ \A t \in Threads : \A d : Owes(t, d)' <=> Owes(t, d)
  BY DEF vars, sharedVars, localVars, Active, Id, Owes
<1>2. Shape' /\ ListInv'
  BY DEF IInv, Shape, ListInv, vars, sharedVars, localVars, historyVars, Active
<1>3. PlugInv'
  BY DEF IInv, PlugInv, OnePlug, IdsDrawn, UniqueIds, Unassigned, vars, sharedVars, localVars,
         historyVars, Active, Id
<1>4. OwnInv'
  BY DEF IInv, OwnInv, OwedIsLive, LiveIsOwed, StaleNotOwed, Local, Live, Owes, Claims, vars, sharedVars,
         localVars, historyVars, Active, Id
<1>. QED
  BY <1>2, <1>3, <1>4 DEF IInv

(***************************************************************************)
(* The inductive invariant: types, lists, ids and ownership.               *)
(***************************************************************************)
THEOREM SimulationInductive == Spec => []IInv
<1>1. ASSUME IInv, [Next]_vars PROVE IInv'
  <2>1. ASSUME NEW t \in Threads, Actions(t) PROVE IInv'
    BY <1>1, <2>1, ShapeStep, ListStep, PlugStep, OwnStepAll DEF IInv
  <2>2. Next => \E t \in Threads : Actions(t)
    BY DEF Next, Actions
  <2>. QED
    BY <1>1, <2>1, <2>2, StutterIInv
<1>. QED
  BY <1>1, InitIInv, PTL DEF Spec

(***************************************************************************)
(* Ids are unique as long as no two plugs have overlapped, whatever        *)
(* detaches, disconnects and lists run at the same time (++NextSimDeviceId *)
(* is a load and a store in VusbServerPluginDevice).                       *)
(***************************************************************************)
THEOREM SimulationUniqueIds == Spec => []UniqueUnlessClash
<1>1. IInv => UniqueUnlessClash
  BY DEF IInv, PlugInv, UniqueUnlessClash
<1>. QED
  BY <1>1, SimulationInductive, PTL

(***************************************************************************)
(* As long as no two plugs have overlapped and no client has detached      *)
(* another's device, every active device is claimed by the thread that     *)
(* plugged it, and a thread clears the slot it looked up although others   *)
(* ran between the two steps of VusbServerUnplugDevice.                    *)
(***************************************************************************)
THEOREM SimulationActiveIsClaimed == Spec => []ActiveIsClaimed
<1>1. ASSUME IInv PROVE ActiveIsClaimed
  <2> SUFFICES ASSUME ~clash, ~foreign
               PROVE  /\ \A i \in Slots : SimDevices[i].Active =>
                            \/ \E t \in Threads : t = owner[i] /\ slot[t] = i /\ pc[t] \in Plugging
                            \/ SimDevices[i].DeviceId \in Claims(owner[i])
                      /\ \A t \in Threads : pc[t] \in {"clear", "clearlast"} =>
                            /\ SimDevices[slot[t]] = [Active |-> TRUE, DeviceId |-> current[t]]
                            /\ owner[slot[t]] = t
    BY DEF ActiveIsClaimed
  <2>0. LiveIsOwed /\ \A t \in Threads : Local(t)
    BY <1>1 DEF IInv, OwnInv
  <2>1. ASSUME NEW i \in Slots, SimDevices[i].Active
        PROVE  \/ \E t \in Threads : t = owner[i] /\ slot[t] = i /\ pc[t] \in Plugging
               \/ SimDevices[i].DeviceId \in Claims(owner[i])
    <3>1. CASE Live(i)
      <4>1. owner[i] \in Threads /\ Owes(owner[i], Id(i))
        BY <2>0, <3>1 DEF LiveIsOwed
      <4>. QED
        BY <4>1, OwesClaimed DEF Id
    <3>2. CASE ~Live(i)
      <4>1. PICK t \in Threads : slot[t] = i /\ pc[t] \in Assigning
        BY <2>1, <3>2 DEF Live, Active
      <4>. QED
        BY <2>0, <4>1 DEF Local, Assigning, Plugging
    <3>. QED
      BY <3>1, <3>2
  <2>2. ASSUME NEW t \in Threads, pc[t] \in {"clear", "clearlast"}
        PROVE  /\ SimDevices[slot[t]] = [Active |-> TRUE, DeviceId |-> current[t]]
               /\ owner[slot[t]] = t
    <3>1. slot[t] \in Slots /\ SimDevices \in [Slots -> [Active: BOOLEAN, DeviceId: Nat]]
      BY <1>1, <2>2 DEF IInv, Shape
    <3>2. Active(slot[t]) /\ Id(slot[t]) = current[t] /\ owner[slot[t]] = t
      BY <2>0, <2>2 DEF Local, Live
    <3>. QED
      BY <3>1, <3>2 DEF Active, Id
  <2>. QED
    BY <2>1, <2>2
<1>. QED
  BY <1>1, SimulationInductive, PTL

(***************************************************************************)
(* VusbServerHandleDeviceList looks at the slots one by one without a      *)
(* lock, and every device that was there all the time is on the list.      *)
(***************************************************************************)
THEOREM SimulationListComplete == Spec => []ListComplete
<1>1. IInv => ListComplete
  BY DEF IInv, ListInv, ListComplete
<1>. QED
  BY <1>1, SimulationInductive, PTL

=============================================================================

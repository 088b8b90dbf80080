--------------------------- MODULE VusbSimulation ---------------------------
(***************************************************************************)
(* The network server without the driver (server/vusb_server.c, simulation *)
(* mode): client threads plug, unplug and list devices in the array        *)
(* SimDevices and draw ids from NextSimDeviceId, all without a lock.  Every *)
(* read or write of shared memory is a step; ++NextSimDeviceId is a load   *)
(* and a store.                                                            *)
(*                                                                         *)
(* Each thread serves one client that is connected at the start; accepting *)
(* clients and the client array are in VusbServer.                         *)
(***************************************************************************)
EXTENDS Naturals, FiniteSets

CONSTANTS MaxDevices,  \* VUSB_MAX_DEVICES
          MaxThreads,  \* client threads
          MaxPlugs,    \* bound of the model: plug attempts
          MaxLists     \* bound of the model: list requests

ASSUME SimulationAssumption == /\ MaxDevices \in Nat \ {0}
                               /\ {MaxThreads, MaxPlugs, MaxLists} \subseteq Nat

VARIABLES SimDevices,       \* ctx->SimDevices[]: Active and DeviceId
          NextSimDeviceId,  \* ctx->NextSimDeviceId
          pc,               \* where each thread is
          slot,             \* its loop index over SimDevices
          loaded,           \* its copy of NextSimDeviceId
          current,          \* its local deviceId
          tracked,          \* client->Devices[]: DeviceId, or 0 when not Active
          listed,           \* the slots it has put into its device list
          plugs, lists,     \* history: plug and list requests so far
          owner,            \* history: the thread that made a slot Active last
          stayed,           \* history: slots Active since the thread's list began
          clash,            \* history: two threads have been plugging at once
          foreign           \* history: a client has detached another's device

sharedVars == <<SimDevices, NextSimDeviceId, owner>>
localVars == <<slot, loaded, current, tracked, listed>>
historyVars == <<plugs, lists, stayed, clash, foreign>>
vars == <<sharedVars, pc, localVars, historyVars>>

Slots == 1..MaxDevices
Threads == 1..MaxThreads

Plugging == {"scan", "claim", "load", "store", "assign", "readback"}

Init ==
    /\ SimDevices = [i \in Slots |-> [Active |-> FALSE, DeviceId |-> 0]]
    /\ NextSimDeviceId = 0
    /\ pc = [t \in Threads |-> "serving"]
    /\ slot = [t \in Threads |-> 1]
    /\ loaded = [t \in Threads |-> 0]
    /\ current = [t \in Threads |-> 0]
    /\ tracked = [t \in Threads |-> [k \in Slots |-> 0]]
    /\ listed = [t \in Threads |-> {}]
    /\ owner = [i \in Slots |-> 0]
    /\ stayed = [t \in Threads |-> {}]
    /\ plugs = 0 /\ lists = 0
    /\ clash = FALSE /\ foreign = FALSE

Goto(t, where) == pc' = [pc EXCEPT ![t] = where]

\* A handler returns to the receive loop; its locals are gone.
ReturnFromHandler(t) ==
    /\ Goto(t, "serving")
    /\ slot' = [slot EXCEPT ![t] = 1]
    /\ loaded' = [loaded EXCEPT ![t] = 0]
    /\ current' = [current EXCEPT ![t] = 0]
    /\ listed' = [listed EXCEPT ![t] = {}]

\* The body of a loop over the array: on to the next slot.
NextSlot(t) == slot' = [slot EXCEPT ![t] = @ + 1]

----------------------------------------------------------------------------
(* VusbServerHandleDeviceAttach and VusbServerPluginDevice.                *)

BeginPlug(t) ==
    /\ pc[t] = "serving"
    /\ plugs < MaxPlugs
    /\ plugs' = plugs + 1
    /\ clash' = (clash \/ \E x \in Threads \ {t} : pc[x] \in Plugging)
    /\ Goto(t, "scan")
    /\ UNCHANGED <<sharedVars, localVars, lists, stayed, foreign>>

\* "find free slot"; without one the attach fails.
FindFree(t) ==
    /\ pc[t] = "scan"
    /\ \/ slot[t] \notin Slots /\ ReturnFromHandler(t)
       \/ /\ slot[t] \in Slots
          /\ \/ ~SimDevices[slot[t]].Active /\ Goto(t, "claim") /\ UNCHANGED slot
             \/ SimDevices[slot[t]].Active /\ NextSlot(t) /\ UNCHANGED pc
          /\ UNCHANGED <<loaded, current, listed>>
    /\ UNCHANGED <<sharedVars, tracked, historyVars>>

Claim(t) ==
    /\ pc[t] = "claim"
    /\ SimDevices' = [SimDevices EXCEPT ![slot[t]].Active = TRUE]
    /\ owner' = [owner EXCEPT ![slot[t]] = t]
    /\ Goto(t, "load")
    /\ UNCHANGED <<NextSimDeviceId, localVars, historyVars>>

LoadNext(t) ==
    /\ pc[t] = "load"
    /\ loaded' = [loaded EXCEPT ![t] = NextSimDeviceId]
    /\ Goto(t, "store")
    /\ UNCHANGED <<sharedVars, slot, current, tracked, listed, historyVars>>

\* A faulty variant: NextSimDeviceId + 1 in place of ++NextSimDeviceId.
StoreNothing(t) ==
    /\ pc[t] = "store"
    /\ Goto(t, "assign")
    /\ UNCHANGED <<sharedVars, localVars, historyVars>>

StoreNext(t) ==
    /\ pc[t] = "store"
    /\ NextSimDeviceId' = loaded[t] + 1
    /\ Goto(t, "assign")
    /\ UNCHANGED <<SimDevices, owner, localVars, historyVars>>

AssignId(t) ==
    /\ pc[t] = "assign"
    /\ SimDevices' = [SimDevices EXCEPT ![slot[t]].DeviceId = loaded[t] + 1]
    /\ Goto(t, "readback")
    /\ UNCHANGED <<NextSimDeviceId, owner, localVars, historyVars>>

\* The id of the response is read from the slot again.
ReadBack(t) ==
    /\ pc[t] = "readback"
    /\ current' = [current EXCEPT ![t] = SimDevices[slot[t]].DeviceId]
    /\ Goto(t, "track")
    /\ UNCHANGED <<sharedVars, slot, loaded, tracked, listed, historyVars>>

\* "Track device for this client", in the first entry that is free.
Track(t) ==
    LET free == {k \in Slots : tracked[t][k] = 0}
    IN /\ pc[t] = "track"
       /\ \/ \E k \in free :
                /\ \A j \in free : k <= j
                /\ tracked' = [tracked EXCEPT ![t][k] = current[t]]
          \/ free = {} /\ UNCHANGED tracked
       /\ ReturnFromHandler(t)
       /\ UNCHANGED <<sharedVars, historyVars>>

----------------------------------------------------------------------------
(* VusbServerHandleDeviceDetach, VusbServerDisconnectClient and            *)
(* VusbServerUnplugDevice.                                                 *)

\* A detach request names an id the client was given, or another's.
BeginDetach(t, id) ==
    /\ pc[t] = "serving"
    /\ current' = [current EXCEPT ![t] = id]
    /\ foreign' = (foreign \/ \A k \in Slots : tracked[t][k] # id)
    /\ Goto(t, "find")
    /\ UNCHANGED <<sharedVars, slot, loaded, tracked, listed, plugs, lists, stayed, clash>>

\* A faulty variant: DeviceId is not compared.
FindActive(t) ==
    /\ pc[t] \in {"find", "findlast"}
    /\ \/ slot[t] \notin Slots /\ Goto(t, IF pc[t] = "find" THEN "untrack" ELSE "closing") /\ UNCHANGED slot
       \/ /\ slot[t] \in Slots
          /\ \/ SimDevices[slot[t]].Active /\ Goto(t, IF pc[t] = "find" THEN "clear" ELSE "clearlast")
                /\ UNCHANGED slot
             \/ ~SimDevices[slot[t]].Active /\ NextSlot(t) /\ UNCHANGED pc
    /\ UNCHANGED <<sharedVars, loaded, current, tracked, listed, historyVars>>

\* "find and remove device": the first slot that is Active with this id.
FindDevice(t) ==
    LET Matches == SimDevices[slot[t]].Active /\ SimDevices[slot[t]].DeviceId = current[t]
    IN /\ pc[t] \in {"find", "findlast"}
       /\ \/ slot[t] \notin Slots /\ Goto(t, IF pc[t] = "find" THEN "untrack" ELSE "closing") /\ UNCHANGED slot
          \/ /\ slot[t] \in Slots
             /\ \/ Matches /\ Goto(t, IF pc[t] = "find" THEN "clear" ELSE "clearlast") /\ UNCHANGED slot
                \/ ~Matches /\ NextSlot(t) /\ UNCHANGED pc
       /\ UNCHANGED <<sharedVars, loaded, current, tracked, listed, historyVars>>

ClearActive(t) ==
    /\ pc[t] \in {"clear", "clearlast"}
    /\ SimDevices' = [SimDevices EXCEPT ![slot[t]].Active = FALSE]
    /\ stayed' = [x \in Threads |-> stayed[x] \ {slot[t]}]
    /\ Goto(t, IF pc[t] = "clear" THEN "untrack" ELSE "closing")
    /\ UNCHANGED <<NextSimDeviceId, owner, localVars, plugs, lists, clash, foreign>>

\* "Remove from client tracking": the first entry with this id.
Untrack(t) ==
    LET match == {k \in Slots : tracked[t][k] = current[t]}
    IN /\ pc[t] = "untrack"
       /\ \/ \E k \in match :
                /\ \A j \in match : k <= j
                /\ tracked' = [tracked EXCEPT ![t][k] = 0]
          \/ match = {} /\ UNCHANGED tracked
       /\ ReturnFromHandler(t)
       /\ UNCHANGED <<sharedVars, historyVars>>

\* The client leaves the array; nobody else looks at its entries any more.
Disconnect(t) ==
    /\ pc[t] = "serving"
    /\ Goto(t, "closing")
    /\ UNCHANGED <<sharedVars, localVars, historyVars>>

\* "Unplug all devices owned by this client", entry by entry; then it is freed.
UnplugOwned(t) ==
    /\ pc[t] = "closing"
    /\ \/ \E k \in Slots :
             /\ tracked[t][k] # 0
             /\ \A j \in Slots : tracked[t][j] # 0 => k <= j
             /\ current' = [current EXCEPT ![t] = tracked[t][k]]
             /\ tracked' = [tracked EXCEPT ![t][k] = 0]
             /\ slot' = [slot EXCEPT ![t] = 1]
             /\ Goto(t, "findlast")
       \/ /\ \A k \in Slots : tracked[t][k] = 0
          /\ Goto(t, "freed")
          /\ current' = [current EXCEPT ![t] = 0]
          /\ slot' = [slot EXCEPT ![t] = 1]
          /\ UNCHANGED tracked
    /\ UNCHANGED <<sharedVars, loaded, listed, historyVars>>

----------------------------------------------------------------------------
(* VusbServerHandleDeviceList.                                             *)

BeginList(t) ==
    /\ pc[t] = "serving"
    /\ lists < MaxLists
    /\ lists' = lists + 1
    /\ stayed' = [stayed EXCEPT ![t] = {i \in Slots : SimDevices[i].Active}]
    /\ Goto(t, "list")
    /\ UNCHANGED <<sharedVars, localVars, plugs, clash, foreign>>

\* A faulty variant: the last slot is left out.
ListButLast(t) ==
    /\ pc[t] = "list"
    /\ slot[t] < MaxDevices
    /\ listed' = [listed EXCEPT ![t] = IF SimDevices[slot[t]].Active THEN @ \cup {slot[t]} ELSE @]
    /\ NextSlot(t)
    /\ Goto(t, IF slot[t] + 1 = MaxDevices THEN "listed" ELSE "list")
    /\ UNCHANGED <<sharedVars, loaded, current, tracked, historyVars>>

ListSlot(t) ==
    /\ pc[t] = "list"
    /\ listed' = [listed EXCEPT ![t] = IF SimDevices[slot[t]].Active THEN @ \cup {slot[t]} ELSE @]
    /\ NextSlot(t)
    /\ Goto(t, IF slot[t] = MaxDevices THEN "listed" ELSE "list")
    /\ UNCHANGED <<sharedVars, loaded, current, tracked, historyVars>>

\* The response and one DEVICE_INFO per entry are sent.
SendList(t) ==
    /\ pc[t] = "listed"
    /\ ReturnFromHandler(t)
    /\ stayed' = [stayed EXCEPT ![t] = {}]
    /\ UNCHANGED <<sharedVars, tracked, plugs, lists, clash, foreign>>

----------------------------------------------------------------------------
Next ==
    \E t \in Threads :
        \/ BeginPlug(t) \/ FindFree(t) \/ Claim(t) \/ LoadNext(t) \/ StoreNext(t)
        \/ AssignId(t) \/ ReadBack(t) \/ Track(t)
        \/ \E id \in 1..MaxPlugs : BeginDetach(t, id)
        \/ FindDevice(t) \/ ClearActive(t) \/ Untrack(t)
        \/ Disconnect(t) \/ UnplugOwned(t)
        \/ BeginList(t) \/ ListSlot(t) \/ SendList(t)

Spec == Init /\ [][Next]_vars

----------------------------------------------------------------------------
(* Properties.                                                             *)

\* Types of all variables; ids are never larger than the number of plugs.
TypeOK ==
    /\ SimDevices \in [Slots -> [Active: BOOLEAN, DeviceId: 0..MaxPlugs]]
    /\ NextSimDeviceId \in 0..plugs
    /\ pc \in [Threads -> Plugging \cup {"serving", "track", "find", "clear", "untrack", "findlast",
                                         "clearlast", "closing", "freed", "list", "listed"}]
    /\ slot \in [Threads -> 1..(MaxDevices + 1)]
    /\ loaded \in [Threads -> 0..MaxPlugs]
    /\ current \in [Threads -> 0..MaxPlugs]
    /\ tracked \in [Threads -> [Slots -> 0..MaxPlugs]]
    /\ listed \in [Threads -> SUBSET Slots]
    /\ owner \in [Slots -> 0..MaxThreads]
    /\ {clash, foreign} \subseteq BOOLEAN

\* A plug has claimed the slot and not assigned its id yet.
Unassigned(i) == \E t \in Threads : slot[t] = i /\ pc[t] \in {"load", "store", "assign"}

(***************************************************************************)
(* vusb_protocol.h:142 "Unique device identifier".  Stated and not claimed *)
(* of simulation mode: the README says how it fails.                       *)
(***************************************************************************)
UniqueIds ==
    \A i, j \in Slots :
        /\ SimDevices[i].Active /\ ~Unassigned(i)
        /\ SimDevices[j].Active /\ ~Unassigned(j)
        /\ SimDevices[i].DeviceId = SimDevices[j].DeviceId
        => i = j

(***************************************************************************)
(* vusb_protocol.h:142 "Unique device identifier": as long as no two plugs *)
(* have overlapped, active devices have different ids, whatever detaches,  *)
(* disconnects and lists run at the same time.  (When they overlap it      *)
(* fails: see UniqueIds.)                                                  *)
(***************************************************************************)
UniqueUnlessClash == ~clash => UniqueIds

\* The ids thread t is responsible for.
Claims(t) ==
    {tracked[t][k] : k \in {k \in Slots : tracked[t][k] # 0}}
        \cup (IF pc[t] \in {"track", "findlast", "clearlast"} THEN {current[t]} ELSE {})

(***************************************************************************)
(* As long as no two plugs have overlapped and no client has detached      *)
(* another's device, nothing is orphaned and nobody unplugs what is not    *)
(* his: every active device is claimed by the thread that plugged it (or   *)
(* that is plugging it), and the slot a thread is about to clear is still  *)
(* the one it looked up.  Holds although the lookup and the clearing are   *)
(* separate steps and other threads plug, unplug and disconnect meanwhile. *)
(***************************************************************************)
ActiveIsClaimed ==
    ~clash /\ ~foreign =>
        /\ \A i \in Slots : SimDevices[i].Active =>
              \/ \E t \in Threads : t = owner[i] /\ slot[t] = i /\ pc[t] \in Plugging
              \/ SimDevices[i].DeviceId \in Claims(owner[i])
        /\ \A t \in Threads : pc[t] \in {"clear", "clearlast"} =>
              /\ SimDevices[slot[t]] = [Active |-> TRUE, DeviceId |-> current[t]]
              /\ owner[slot[t]] = t

(***************************************************************************)
(* The list is put together slot by slot while devices come and go, and    *)
(* still every device that was there all the time is on it.                *)
(***************************************************************************)
ListComplete == \A t \in Threads : pc[t] = "listed" => stayed[t] \subseteq listed[t]

=============================================================================

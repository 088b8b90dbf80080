--------------------------- MODULE VusbUserspace ---------------------------
(***************************************************************************)
(* The userspace server (userspace/vusb_userspace.c): devices, clients and *)
(* pending URBs in one process.  DeviceLock guards the table of devices,   *)
(* ClientLock the array of clients and each device's UrbLock its list.     *)
(* Device ids are never reused, the slots of the table are.                *)
(*                                                                         *)
(* Threads: the accept loop (VusbUsRun), one ClientThread per session, the *)
(* callers of the URB functions (the API has no caller of its own here)    *)
(* and whoever calls VusbUsStop.  A step is a critical section, or the     *)
(* unlocked part of a handler that another thread can get in front of.     *)
(***************************************************************************)
EXTENDS Naturals, FiniteSets, Sequences, SequencesExt

CONSTANTS MaxDevices,         \* VUSB_US_MAX_DEVICES
          MaxClients,         \* VUSB_US_MAX_CLIENTS
          MaxSessions,        \* bound of the model: connections
          MaxCreates,         \* bound of the model: devices created
          MaxUrbs,            \* bound of the model: URBs submitted
          MaxOwnUrbs,         \* bound of the model: the last of them not from a callback
          SharedRemoteIds     \* do clients number their devices independently?

ASSUME UserspaceAssumption ==
    /\ {MaxDevices, MaxClients} \subseteq Nat \ {0}
    /\ {MaxSessions, MaxCreates, MaxUrbs} \subseteq Nat /\ MaxOwnUrbs \in 0..MaxUrbs
    /\ SharedRemoteIds \in BOOLEAN

VARIABLES dev,            \* ctx->Devices[]
          NextDeviceId,   \* ctx->NextDeviceId
          Clients,        \* ctx->Clients[]: a session, or 0 for NULL
          ClientCount,    \* ctx->ClientCount
          NextSessionId,  \* ctx->NextSessionId
          phase,          \* what the thread of each session is doing
          DeviceIds,      \* client->DeviceIds[0 .. DeviceCount - 1]
          attaching,      \* the device between the two halves of an attach
          told,           \* sessions whose Connected the shutdown cleared
          urb,            \* the URBs, and (history) what became of each
          nextUrb,        \* history: URBs submitted so far
          found,          \* VusbUsSubmitUrb between lookup and UrbLock
          Running,        \* ctx->Running
          runpc,          \* where VusbUsRun, and main() after it, are
          waitSlot,       \* loop index of the shutdown loop
          creator         \* history: the session that created each device

deviceVars == <<dev, NextDeviceId, creator>>
clientVars == <<Clients, ClientCount, NextSessionId, phase, DeviceIds, attaching, told>>
urbVars == <<urb, nextUrb, found>>
runVars == <<Running, runpc, waitSlot>>
vars == <<deviceVars, clientVars, urbVars, runVars>>

Slots == 1..MaxDevices
Sessions == 1..MaxSessions
Ids == 1..MaxCreates
Urbs == 1..MaxUrbs

\* A slot after InitializeDevice.  DeviceId 0 stands for Active = FALSE: the
\* other ids of an inactive slot are never read.
NoDevice == [DeviceId |-> 0, OwnerClient |-> 0, RemoteDeviceId |-> 0,
             PendingUrbs |-> <<>>, PendingUrbCount |-> 0, NextUrbId |-> 0]

\* late: history, the device it was meant for had gone when it was inserted.
\* stray: history, the message of another client than the device's completed it.
NoUrb == [device |-> 0, UrbId |-> 0, status |-> "none", late |-> FALSE, stray |-> FALSE]

NoLookup == [urb |-> 0, slot |-> 0]

Active(i) == dev[i].DeviceId # 0

Init ==
    /\ dev = [i \in Slots |-> NoDevice]
    /\ NextDeviceId = 0
    /\ creator = [id \in Ids |-> 0]
    /\ Clients = [i \in 1..MaxClients |-> 0]
    /\ ClientCount = 0
    /\ NextSessionId = 0
    /\ phase = [s \in Sessions |-> "none"]
    /\ DeviceIds = [s \in Sessions |-> <<>>]
    /\ attaching = [s \in Sessions |-> 0]
    /\ told = {}
    /\ urb = [u \in Urbs |-> NoUrb]
    /\ nextUrb = 0
    /\ found = NoLookup
    /\ Running = TRUE
    /\ runpc = "accept"
    /\ waitSlot = 1

\* The process has neither finished VusbUsCleanup nor crashed.
Alive == runpc \notin {"cleaned", "crashed"}

----------------------------------------------------------------------------
(* Client threads.                                                         *)

\* One pass of the accept loop: first NULL slot under ClientLock, then the
\* thread (or, when CreateThread fails, out of the array again).  The store of
\* client->Thread may come when the thread has freed the client; left out.
AcceptClient ==
    LET s == NextSessionId + 1
    IN /\ Alive
       /\ runpc = "accept"
       /\ Running
       /\ s \in Sessions
       /\ NextSessionId' = s
       /\ \/ /\ \E i \in 1..MaxClients :
                   /\ Clients[i] = 0
                   /\ \A j \in 1..MaxClients : Clients[j] = 0 => i <= j
                   /\ Clients' = [Clients EXCEPT ![i] = s]
             /\ ClientCount' = ClientCount + 1
             /\ phase' = [phase EXCEPT ![s] = "serving"]
          \/ \* "Server full", or CreateThread failed
             /\ phase' = [phase EXCEPT ![s] = "freed"]
             /\ UNCHANGED <<Clients, ClientCount>>
       /\ UNCHANGED <<deviceVars, DeviceIds, attaching, told, urbVars, runVars>>

\* The loop condition of ClientThread, after a message: back into recv() or out.
AfterMessage(s) == IF Running /\ s \notin told THEN "serving" ELSE "leaving"

\* What is known of a URB that has ended.
Ended(status, late, stray) ==
    [NoUrb EXCEPT !.status = status, !.late = late, !.stray = stray]

\* The URBs on the lists of these slots end with this status.
EndListed(slots, status) ==
    [u \in Urbs |-> IF \E i \in slots : u \in ToSet(dev[i].PendingUrbs)
                    THEN Ended(status, urb[u].late, FALSE)
                    ELSE urb[u]]

\* The remote id of an attach: the client's own number for the device.
RemoteIds(s) ==
    IF SharedRemoteIds
    THEN {r \in Slots : \A i \in Slots : dev[i].OwnerClient = s => dev[i].RemoteDeviceId # r}
    ELSE {attaching[s]}

(***************************************************************************)
(* HandleDeviceAttach as far as VusbUsCreateDevice: first inactive slot,   *)
(* under DeviceLock.  InitializeDevice zeroes it: a URB that a late insert *)
(* had left on its list is lost.  A full table fails and changes nothing.  *)
(***************************************************************************)
VusbUsCreateDevice(s) ==
    LET id == NextDeviceId + 1
    IN /\ Alive
       /\ phase[s] = "serving"
       /\ id \in Ids
       /\ \E i \in Slots :
             /\ ~Active(i)
             /\ \A j \in Slots : ~Active(j) => i <= j
             /\ dev' = [dev EXCEPT ![i] = [NoDevice EXCEPT !.DeviceId = id]]
             /\ urb' = EndListed({i}, "lost")
       /\ NextDeviceId' = id
       /\ creator' = [creator EXCEPT ![id] = s]
       /\ attaching' = [attaching EXCEPT ![s] = id]
       /\ phase' = [phase EXCEPT ![s] = "created"]
       /\ UNCHANGED <<Clients, ClientCount, NextSessionId, DeviceIds, told, nextUrb, found,
                      runVars>>

(***************************************************************************)
(* ... "Track device ownership" and "Track in client", without a lock.     *)
(***************************************************************************)
TrackDevice(s) ==
    LET id == attaching[s]
    IN /\ Alive
       /\ phase[s] = "created"
       /\ \E r \in RemoteIds(s) :
             dev' = [i \in Slots |->
                        IF dev[i].DeviceId = id
                        THEN [dev[i] EXCEPT !.OwnerClient = s, !.RemoteDeviceId = r]
                        ELSE dev[i]]
       /\ DeviceIds' = IF Len(DeviceIds[s]) < MaxDevices
                       THEN [DeviceIds EXCEPT ![s] = Append(@, id)]
                       ELSE DeviceIds
       /\ attaching' = [attaching EXCEPT ![s] = 0]
       /\ phase' = [phase EXCEPT ![s] = AfterMessage(s)]
       /\ UNCHANGED <<NextDeviceId, creator, Clients, ClientCount, NextSessionId, told,
                      urbVars, runVars>>

\* A faulty variant: the list head is not reset.
CleanupKeepsList(slots) ==
    /\ dev' = [i \in Slots |->
                  IF i \in slots
                  THEN [NoDevice EXCEPT !.PendingUrbs = dev[i].PendingUrbs,
                                        !.PendingUrbCount = dev[i].PendingUrbCount,
                                        !.NextUrbId = dev[i].NextUrbId]
                  ELSE dev[i]]
    /\ urb' = EndListed(slots, "freed")

(***************************************************************************)
(* CleanupDevice: the URBs on the list are freed without a status, an      *)
(* event or a callback, and the slot becomes inactive; NextUrbId stays.    *)
(* Active is cleared last, but whoever finds the device in between goes on *)
(* as one who found it just before and was delayed: see SubmitInsert.      *)
(***************************************************************************)
CleanupDevices(slots) ==
    /\ dev' = [i \in Slots |-> IF i \in slots THEN [NoDevice EXCEPT !.NextUrbId = dev[i].NextUrbId]
                               ELSE dev[i]]
    /\ urb' = EndListed(slots, "freed")

\* A faulty variant: DeviceCount-- instead of --DeviceCount, which copies the
\* unused entry behind the last one.
SwapPostDecrement(seq, i) == SubSeq([seq EXCEPT ![i] = 0], 1, Len(seq) - 1)

\* client->DeviceIds[i] = client->DeviceIds[--client->DeviceCount]
SwapRemove(seq, i) == SubSeq([seq EXCEPT ![i] = seq[Len(seq)]], 1, Len(seq) - 1)

\* A faulty variant: without "Verify ownership".
DetachUnverified(s, slot) ==
    /\ Alive
    /\ phase[s] = "serving"
    /\ Active(slot)
    /\ CleanupDevices({slot})
    /\ DeviceIds' = [DeviceIds EXCEPT ![s] = SelectSeq(@, LAMBDA id : id # dev[slot].DeviceId)]
    /\ phase' = [phase EXCEPT ![s] = AfterMessage(s)]
    /\ UNCHANGED <<NextDeviceId, creator, Clients, ClientCount, NextSessionId, attaching,
                   told, nextUrb, found, runVars>>

(***************************************************************************)
(* HandleDeviceDetach, for a device this client owns; any other id is      *)
(* acknowledged and changes nothing.                                       *)
(***************************************************************************)
HandleDeviceDetach(s, slot) ==
    /\ Alive
    /\ phase[s] = "serving"
    /\ Active(slot)
    /\ dev[slot].OwnerClient = s
    /\ CleanupDevices({slot})
    /\ \E i \in DOMAIN DeviceIds[s] :
          /\ DeviceIds[s][i] = dev[slot].DeviceId
          /\ DeviceIds' = [DeviceIds EXCEPT ![s] = SwapRemove(@, i)]
    /\ phase' = [phase EXCEPT ![s] = AfterMessage(s)]
    /\ UNCHANGED <<NextDeviceId, creator, Clients, ClientCount, NextSessionId, attaching,
                   told, nextUrb, found, runVars>>

\* The receive loop ends: DISCONNECT, a closed socket, a bad message.
LeaveLoop(s) ==
    /\ Alive
    /\ phase[s] = "serving"
    /\ phase' = [phase EXCEPT ![s] = "leaving"]
    /\ UNCHANGED <<deviceVars, Clients, ClientCount, NextSessionId, DeviceIds, attaching,
                   told, urbVars, runVars>>

\* "Cleanup client devices", under DeviceLock.
CleanupClientDevices(s) ==
    /\ Alive
    /\ phase[s] = "leaving"
    /\ CleanupDevices({i \in Slots : Active(i) /\ dev[i].DeviceId \in ToSet(DeviceIds[s])})
    /\ phase' = [phase EXCEPT ![s] = "closing"]
    /\ UNCHANGED <<NextDeviceId, creator, Clients, ClientCount, NextSessionId, DeviceIds,
                   attaching, told, nextUrb, found, runVars>>

\* A faulty variant: the slot keeps its pointer.
FreeWithoutRemoval(s) ==
    /\ Alive
    /\ phase[s] = "closing"
    /\ ClientCount' = ClientCount - 1
    /\ phase' = [phase EXCEPT ![s] = "freed"]
    /\ UNCHANGED <<deviceVars, Clients, NextSessionId, DeviceIds, attaching, told, urbVars, runVars>>

\* "Remove from client list", under ClientLock, then free(client).
RemoveClient(s) ==
    /\ Alive
    /\ phase[s] = "closing"
    /\ Clients' = [i \in 1..MaxClients |-> IF Clients[i] = s THEN 0 ELSE Clients[i]]
    /\ ClientCount' = ClientCount - 1
    /\ phase' = [phase EXCEPT ![s] = "freed"]
    /\ UNCHANGED <<deviceVars, NextSessionId, DeviceIds, attaching, told, urbVars, runVars>>

----------------------------------------------------------------------------
(* URBs.                                                                   *)

\* VusbUsSubmitUrb looks the device up without DeviceLock ...
SubmitLookup(slot) ==
    /\ Alive
    /\ found = NoLookup
    /\ nextUrb < MaxOwnUrbs
    /\ Active(slot)
    /\ nextUrb' = nextUrb + 1
    /\ found' = [urb |-> nextUrb + 1, slot |-> slot]
    /\ urb' = [urb EXCEPT ![nextUrb + 1].device = dev[slot].DeviceId]
    /\ UNCHANGED <<deviceVars, clientVars, runVars>>

\* Push URB u on the list of slot i, as record d of the slot.
Push(d, u) == [d EXCEPT !.PendingUrbs = <<u>> \o @, !.PendingUrbCount = @ + 1,
                        !.NextUrbId = @ + 1]

(***************************************************************************)
(* ... and inserts under the UrbLock of whatever is in the slot by then:   *)
(* the device that was found, one created there since, or none.  In the    *)
(* last case UrbLock has been deleted (see UseDeletedLock) and the URB is  *)
(* pushed on the list of an inactive slot.                                 *)
(***************************************************************************)
SubmitInsert ==
    LET i == found.slot
        u == found.urb
    IN /\ Alive
       /\ found # NoLookup
       /\ found' = NoLookup
       /\ dev' = [dev EXCEPT ![i] = Push(@, u)]
       /\ urb' = [urb EXCEPT ![u].status = "pending",
                             ![u].UrbId = dev[i].NextUrbId + 1,
                             ![u].late = ~(Active(i) /\ dev[i].DeviceId = urb[u].device)]
       /\ UNCHANGED <<NextDeviceId, creator, clientVars, nextUrb, runVars>>

(***************************************************************************)
(* Entering a deleted UrbLock is undefined: the caller may pass it, as in  *)
(* SubmitInsert and VusbUsCancelUrb, stay there for ever, or crash.        *)
(***************************************************************************)
UseDeletedLock ==
    /\ Alive
    /\ \E i \in Slots : ~Active(i) /\ (found.slot = i \/ dev[i].NextUrbId # 0)
    /\ runpc' = "crashed"
    /\ UNCHANGED <<deviceVars, clientVars, urbVars, Running, waitSlot>>

\* The URB u after its completion by session s, or by an API call (s = 0).
Completed(u, s) == Ended("completed", urb[u].late, s # 0 /\ s # creator[urb[u].device])

\* A faulty variant: the count is not decremented.
CompleteWithoutCount(slot, k, by) ==
    LET u == dev[slot].PendingUrbs[k]
    IN /\ dev' = [dev EXCEPT ![slot].PendingUrbs = RemoveAt(@, k)]
       /\ urb' = [urb EXCEPT ![u] = Completed(u, by)]
       /\ UNCHANGED nextUrb

\* VusbUsCompleteUrb for the k-th URB of a list, whose callback, if any, does
\* not submit a URB.
CompleteUrb(slot, k, by) ==
    LET u == dev[slot].PendingUrbs[k]
    IN /\ dev' = [dev EXCEPT ![slot].PendingUrbs = RemoveAt(@, k),
                             ![slot].PendingUrbCount = @ - 1]
       /\ urb' = [urb EXCEPT ![u] = Completed(u, by)]
       /\ UNCHANGED nextUrb

(***************************************************************************)
(* The callback runs under the lock, before the URB is unlinked.  When it  *)
(* submits the next URB and the completed one was the head, pUrb is the    *)
(* head pointer and "*pUrb = urb->Next" drops the new URB.                 *)
(***************************************************************************)
CompleteAndResubmit(slot, k, by) ==
    LET u == dev[slot].PendingUrbs[k]
        new == nextUrb + 1
        rest == RemoveAt(dev[slot].PendingUrbs, k)
    IN /\ Active(slot)
       /\ nextUrb < MaxUrbs
       /\ dev' = [dev EXCEPT ![slot].PendingUrbs = IF k = 1 THEN rest ELSE <<new>> \o rest,
                             ![slot].NextUrbId = @ + 1]
       /\ urb' = [urb EXCEPT ![u] = Completed(u, by),
                             ![new] = [NoUrb EXCEPT !.device = dev[slot].DeviceId,
                                                    !.UrbId = dev[slot].NextUrbId + 1,
                                                    !.status = IF k = 1 THEN "dropped" ELSE "pending"]]
       /\ nextUrb' = new

VusbUsCompleteUrb(slot, k, by) == CompleteUrb(slot, k, by) \/ CompleteAndResubmit(slot, k, by)

(***************************************************************************)
(* HandleUrbComplete: the first active device with the remote id of the    *)
(* message, whoever owns it; then the URB with the id of the message.  A   *)
(* client answers for a device of its own.                                 *)
(***************************************************************************)
HandleUrbComplete(s, own, urbId) ==
    LET remote == dev[own].RemoteDeviceId
        match == {i \in Slots : Active(i) /\ dev[i].RemoteDeviceId = remote}
    IN /\ Alive
       /\ phase[s] = "serving"
       /\ Active(own)
       /\ dev[own].OwnerClient = s
       /\ \E i \in match :
             /\ \A j \in match : i <= j
             /\ \E k \in DOMAIN dev[i].PendingUrbs :
                   /\ urb[dev[i].PendingUrbs[k]].UrbId = urbId
                   /\ VusbUsCompleteUrb(i, k, s)
       /\ phase' = [phase EXCEPT ![s] = AfterMessage(s)]
       /\ UNCHANGED <<NextDeviceId, creator, Clients, ClientCount, NextSessionId, DeviceIds,
                      attaching, told, found, runVars>>

\* VusbUsCancelUrb, an API call: completion with VUSB_STATUS_CANCELED.  It finds
\* the device without a lock, so the slot may be inactive by now.
VusbUsCancelUrb(slot, k) ==
    /\ Alive
    /\ k \in DOMAIN dev[slot].PendingUrbs
    /\ VusbUsCompleteUrb(slot, k, 0)
    /\ UNCHANGED <<NextDeviceId, creator, clientVars, found, runVars>>

----------------------------------------------------------------------------
(* Shutdown.                                                               *)

VusbUsStop ==
    /\ Alive
    /\ Running
    /\ Running' = FALSE
    /\ UNCHANGED <<deviceVars, clientVars, urbVars, runpc, waitSlot>>

\* select() times out after a second at most and the loop sees Running = FALSE.
LeaveAcceptLoop ==
    /\ runpc = "accept"
    /\ ~Running
    /\ runpc' = "check"
    /\ UNCHANGED <<deviceVars, clientVars, urbVars, Running, waitSlot>>

\* One round of the shutdown loop under ClientLock: Connected = FALSE, and the
\* lock is released to wait.
CheckClient ==
    /\ runpc = "check"
    /\ waitSlot <= MaxClients
    /\ \/ /\ Clients[waitSlot] = 0
          /\ waitSlot' = waitSlot + 1
          /\ UNCHANGED <<told, runpc>>
       \/ /\ Clients[waitSlot] # 0
          /\ told' = told \cup {Clients[waitSlot]}
          /\ runpc' = "wait"
          /\ UNCHANGED waitSlot
    /\ UNCHANGED <<deviceVars, Clients, ClientCount, NextSessionId, phase, DeviceIds,
                   attaching, urbVars, Running>>

\* A faulty variant: WaitForSingleObject(..., INFINITE).
WaitInfinitely ==
    /\ runpc = "wait"
    /\ \/ /\ Clients[waitSlot] # 0
          /\ phase[Clients[waitSlot]] = "freed"
          /\ runpc' = "check"
          /\ waitSlot' = waitSlot + 1
       \/ /\ Clients[waitSlot] = 0
          /\ runpc' = "crashed"
          /\ UNCHANGED waitSlot
    /\ UNCHANGED <<deviceVars, clientVars, urbVars, Running>>

\* WaitForSingleObject(ctx->Clients[i]->Thread, 5000): the slot is read again
\* without the lock; when the client has gone it holds NULL.
WaitForThread ==
    /\ runpc = "wait"
    /\ \/ /\ Clients[waitSlot] # 0
          /\ runpc' = "check"
          /\ waitSlot' = waitSlot + 1
       \/ /\ Clients[waitSlot] = 0
          /\ runpc' = "crashed"
          /\ UNCHANGED waitSlot
    /\ UNCHANGED <<deviceVars, clientVars, urbVars, Running>>

\* VusbUsRun returns and main() calls VusbUsCleanup, which deletes the locks.
VusbUsCleanup ==
    /\ runpc = "check"
    /\ waitSlot > MaxClients
    /\ CleanupDevices({i \in Slots : Active(i)})
    /\ runpc' = "cleaned"
    /\ UNCHANGED <<NextDeviceId, creator, clientVars, nextUrb, found, Running, waitSlot>>

----------------------------------------------------------------------------
Next ==
    \/ AcceptClient
    \/ \E s \in Sessions :
          \/ VusbUsCreateDevice(s) \/ TrackDevice(s)
          \/ \E slot \in Slots : HandleDeviceDetach(s, slot)
          \/ LeaveLoop(s) \/ CleanupClientDevices(s) \/ RemoveClient(s)
          \/ \E own \in Slots, urbId \in Urbs : HandleUrbComplete(s, own, urbId)
    \/ \E slot \in Slots :
          \/ SubmitLookup(slot)
          \/ \E k \in Urbs : VusbUsCancelUrb(slot, k)
    \/ SubmitInsert \/ UseDeletedLock
    \/ VusbUsStop \/ LeaveAcceptLoop \/ CheckClient \/ WaitForThread \/ VusbUsCleanup

Spec == Init /\ [][Next]_vars

(***************************************************************************)
(* The shutdown path runs on: every wait in it has a timeout (select 1 s,  *)
(* 5 s per thread) and ClientLock is never held across a blocking call.    *)
(* Client threads may stay in recv() for ever.                             *)
(***************************************************************************)
Shutdown == LeaveAcceptLoop \/ CheckClient \/ WaitForThread \/ VusbUsCleanup

FairSpec == Spec /\ WF_vars(Shutdown)

----------------------------------------------------------------------------
(* Properties.                                                             *)

DeviceType == [DeviceId: 0..MaxCreates, OwnerClient: 0..MaxSessions, RemoteDeviceId: Nat,
               PendingUrbs: Seq(Urbs), PendingUrbCount: 0..MaxUrbs, NextUrbId: 0..MaxUrbs]

UrbType == [device: 0..MaxCreates, UrbId: 0..MaxUrbs, late: BOOLEAN, stray: BOOLEAN,
            status: {"none", "pending", "completed", "freed", "lost", "dropped"}]

\* Types of all variables.
TypeOK ==
    /\ dev \in [Slots -> DeviceType]
    /\ NextDeviceId \in 0..MaxCreates
    /\ creator \in [Ids -> 0..MaxSessions]
    /\ Clients \in [1..MaxClients -> 0..MaxSessions]
    /\ ClientCount \in 0..MaxClients
    /\ NextSessionId \in 0..MaxSessions
    /\ phase \in [Sessions -> {"none", "serving", "created", "leaving", "closing", "freed"}]
    /\ DeviceIds \in [Sessions -> Seq(Ids)]
    /\ attaching \in [Sessions -> 0..MaxCreates]
    /\ told \subseteq Sessions
    /\ urb \in [Urbs -> UrbType]
    /\ nextUrb \in 0..MaxUrbs
    /\ found \in [urb: 0..MaxUrbs, slot: 0..MaxDevices]
    /\ Running \in BOOLEAN
    /\ runpc \in {"accept", "check", "wait", "cleaned", "crashed"}
    /\ waitSlot \in 1..(MaxClients + 1)

(***************************************************************************)
(* ctx->Clients points to the live connections only, each once, and        *)
(* ClientCount counts them: neither an early exit of a thread nor a        *)
(* rejected connection leaves a stale pointer behind.                      *)
(***************************************************************************)
ArrayHoldsLiveClients ==
    LET live == {s \in Sessions : phase[s] \notin {"none", "freed"}}
    IN /\ \A s \in Sessions : s \in live <=> \E i \in 1..MaxClients : Clients[i] = s
       /\ \A i, j \in 1..MaxClients : Clients[i] = Clients[j] /\ Clients[i] # 0 => i = j
       /\ ClientCount = Cardinality(live)

\* Sessions responsible for device id: they track it, or are attaching it.
Responsible(id) ==
    {s \in Sessions : phase[s] \notin {"closing", "freed"} /\
                         (id \in ToSet(DeviceIds[s]) \/ attaching[s] = id)}

(***************************************************************************)
(* An active device belongs to the session that created it, which tracks   *)
(* it (once) or is about to, and a session tracks only active devices.  So *)
(* a client that goes away at any point leaves no device behind, and the   *)
(* ownership check of HandleDeviceDetach lets a client remove its own      *)
(* devices only.                                                           *)
(***************************************************************************)
OneOwner ==
    Alive =>
        /\ \A i \in Slots : Active(i) => Responsible(dev[i].DeviceId) = {creator[dev[i].DeviceId]}
        /\ \A s \in Sessions : phase[s] \in {"serving", "created", "leaving"} =>
              /\ IsInjective(DeviceIds[s])
              /\ \A id \in ToSet(DeviceIds[s]) :
                    \E i \in Slots : dev[i].DeviceId = id /\ dev[i].OwnerClient = s

\* No callback has submitted a URB that its own completion dropped.
NoneDropped == \A u \in Urbs : urb[u].status # "dropped"

(***************************************************************************)
(* VusbUsSubmitUrb, VusbUsCompleteUrb and CleanupDevice of                 *)
(* vusb_userspace.c share the lists, which hold exactly the pending URBs,  *)
(* those of a slot under different UrbIds.  A pending URB is on the list   *)
(* of the active device it was submitted to, and none is lost, unless it   *)
(* was inserted late, after that device had gone.  Until a callback's URB  *)
(* is dropped (see CompleteAndResubmit), PendingUrbCount is the length of  *)
(* the list, in inactive slots too.                                        *)
(***************************************************************************)
PendingListSound ==
    /\ \A i \in Slots :
          /\ NoneDropped => dev[i].PendingUrbCount = Len(dev[i].PendingUrbs)
          /\ \A k, l \in DOMAIN dev[i].PendingUrbs :
                urb[dev[i].PendingUrbs[k]].UrbId = urb[dev[i].PendingUrbs[l]].UrbId => k = l
    /\ \A u \in Urbs :
          /\ urb[u].status = "pending" <=> \E i \in Slots : u \in ToSet(dev[i].PendingUrbs)
          /\ urb[u].late \/
                /\ urb[u].status # "lost"
                /\ \A i \in Slots : u \in ToSet(dev[i].PendingUrbs) =>
                      Active(i) /\ dev[i].DeviceId = urb[u].device

\* One pair for every URB that some PendingUrbCount counts: there are as many as
\* the counts of all slots add up to.
Counted == UNION {{i} \X (1..dev[i].PendingUrbCount) : i \in Slots}

\* The lists of all slots as one abstract queue.
UrbQueue == INSTANCE VusbUrbQueue WITH
                Urb <- Urbs,
                pending <- UNION {ToSet(dev[i].PendingUrbs) : i \in Slots},
                out <- {},
                ended <- {u \in Urbs : urb[u].status \in {"completed", "freed", "lost"}},
                count <- Cardinality(Counted)

(***************************************************************************)
(* Until a callback's URB is dropped, the userspace server implements      *)
(* VusbUrbQueue although the device of a URB is looked up without a lock,  *)
(* slots are reused and devices are torn down with their lists: no URB is  *)
(* listed twice or completed after it has ended, and one that a late       *)
(* insert leaves on the list of an inactive slot stays counted there until *)
(* the slot is initialised again, which ends it.                           *)
(***************************************************************************)
ImplementsUrbQueue ==
    UrbQueue!Init /\ [][NoneDropped' => UrbQueue!Next]_(UrbQueue!vars)

(***************************************************************************)
(* After VusbUsStop, VusbUsRun returns and the process cleans up, although *)
(* clients may keep their connections open for ever (or it crashes, see    *)
(* WaitForThread and UseDeletedLock).                                      *)
(***************************************************************************)
StopTerminates == ~Running ~> ~Alive

(***************************************************************************)
(* vusb_userspace.c:1150 "Wait for client threads": the shutdown loop      *)
(* waits for the thread of a client, never for one behind a NULL slot.     *)
(***************************************************************************)
WaitsForClient == runpc = "wait" => Clients[waitSlot] # 0

(***************************************************************************)
(* vusb_userspace.c:1150 "Wait for client threads": when VusbUsCleanup has *)
(* deleted the locks no client thread is left to use them.                 *)
(***************************************************************************)
ThreadsEndBeforeCleanup ==
    runpc = "cleaned" => \A s \in Sessions : phase[s] \in {"none", "freed"}

(***************************************************************************)
(* vusb_userspace.h:318, VusbUsSubmitUrb "@deviceId: Target device": a URB *)
(* is pending with the device it was submitted to.                         *)
(***************************************************************************)
SubmittedToTarget ==
    \A i \in Slots : \A u \in ToSet(dev[i].PendingUrbs) : urb[u].device = dev[i].DeviceId

(***************************************************************************)
(* vusb_userspace.c:76 "Cancel all pending URBs": a URB of a device that   *)
(* goes away is cancelled, as by VusbUsCancelUrb, which reports it to its  *)
(* submitter; it is not merely freed.                                      *)
(***************************************************************************)
CancelledNotFreed == \A u \in Urbs : urb[u].status # "freed"

(***************************************************************************)
(* vusb_userspace.c:542 "Find device by remote ID and complete URB": a     *)
(* client's completion reaches the URB of that client's device.            *)
(***************************************************************************)
CompletedByOwner == \A u \in Urbs : ~urb[u].stray

=============================================================================

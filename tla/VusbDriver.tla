----------------------------- MODULE VusbDriver -----------------------------
(***************************************************************************)
(* The kernel driver (driver/vusb_device.c, vusb_ioctl.c, vusb_urb.c,      *)
(* vusb_driver.c): the device table, the list of pending URBs and the life *)
(* of every URB.                                                           *)
(*                                                                         *)
(* Two kinds of callers interleave.  The USB stack (external) creates URB  *)
(* entries and queues them, from any thread: VusbUrbCreate and             *)
(* VusbQueueUrb take UrbQueueLock separately, so entries can be queued in  *)
(* another order than their ids.  User mode sends IOCTLs; the default I/O  *)
(* queue is sequential (vusb_driver.c:193), so one handler runs at a time. *)
(* The handler of GET_PENDING_URB takes UrbQueueLock twice when the        *)
(* caller's buffer is too small, and the stack can run in between: it is   *)
(* two steps here.  Every other handler is one critical section (or works  *)
(* on an entry nobody else can reach) and is one step.                     *)
(***************************************************************************)
EXTENDS VusbDeviceTable, Sequences, SequencesExt

CONSTANTS MaxUrbs,      \* bound of the model: URBs the stack creates
          MaxRequeues,  \* bound of the model: re-queues after a short buffer
          MaxParked     \* bound of the model: parked GET_PENDING_URB requests

ASSUME DriverAssumption == MaxUrbs \in Nat /\ MaxRequeues \in Nat /\ MaxParked \in Nat

VARIABLES PendingUrbList,   \* the list, as a sequence of UrbIds
          PendingUrbCount,  \* its length as the driver counts it
          NextUrbId,        \* last UrbId assigned
          Statistics,       \* DeviceContext->Statistics, the URB counters
          urb,              \* the URB entries, and (history) how each ended
          held,             \* GET_PENDING_URB in progress: the entry it took off, or 0
          room,             \* ... and whether the caller's buffer fits OUT data
          parked,           \* requests forwarded to the manual PendingUrbQueue
          requeues,         \* history: re-queues so far
          plugReply,        \* last VUSB_PLUGIN_RESPONSE sent
          unloaded          \* EvtDeviceContextCleanup has run

driverVars == <<PendingUrbList, PendingUrbCount, NextUrbId, Statistics, urb,
                held, room, parked, requeues, plugReply, unloaded>>
vars == <<tableVars, driverVars>>

UrbIds == 1..MaxUrbs

Finished == {"completed", "failed", "canceled"}
UrbStatus == {"none", "created", "pending", "held", "fetched"} \cup Finished

\* large: an OUT transfer whose data a small output buffer cannot hold.
\* plug: history, the device the URB was created for.
NoUrb == [DeviceId |-> 0, plug |-> 0, large |-> FALSE, status |-> "none"]
UrbType == [DeviceId: 0..MaxDevices, plug: Nat, large: BOOLEAN, status: UrbStatus]

StatisticsType == [TotalUrbsSubmitted: Nat, TotalUrbsCompleted: Nat,
                   TotalUrbsCanceled: Nat, TotalErrors: Nat]

With(status) == {u \in UrbIds : urb[u].status = status}

Init ==
    /\ TableInit
    /\ PendingUrbList = <<>>
    /\ PendingUrbCount = 0
    /\ NextUrbId = 0
    /\ Statistics = [TotalUrbsSubmitted |-> 0, TotalUrbsCompleted |-> 0,
                     TotalUrbsCanceled |-> 0, TotalErrors |-> 0]
    /\ urb = [u \in UrbIds |-> NoUrb]
    /\ held = 0
    /\ room = FALSE
    /\ parked = 0
    /\ requeues = 0
    /\ plugReply = [Status |-> "none", DeviceId |-> 0]
    /\ unloaded = FALSE

\* No IOCTL handler is running, so the next one may start.
IoctlIdle == held = 0 /\ ~unloaded

----------------------------------------------------------------------------
(* The USB stack.                                                          *)

(***************************************************************************)
(* VusbUrbCreate: the entry gets the next UrbId and belongs to the calling *)
(* thread.  SequenceNumber is assigned with it and is never compared.      *)
(* Present(d) is not a test of the code: the stack creates URBs for the    *)
(* devices it sees.                                                        *)
(***************************************************************************)
VusbUrbCreate(d, large) ==
    /\ ~unloaded
    /\ NextUrbId < MaxUrbs
    /\ Present(d)
    /\ NextUrbId' = NextUrbId + 1
    /\ urb' = [urb EXCEPT ![NextUrbId + 1] =
                   [DeviceId |-> d, plug |-> Devices[d].plug, large |-> large,
                    status |-> "created"]]
    /\ UNCHANGED <<tableVars, PendingUrbList, PendingUrbCount, Statistics, held,
                   room, parked, requeues, plugReply, unloaded>>

\* InsertTailList and both counters, under UrbQueueLock.  A request parked in
\* PendingUrbQueue is NOT completed here.
InsertTail(u) ==
    /\ PendingUrbList' = Append(PendingUrbList, u)
    /\ PendingUrbCount' = PendingUrbCount + 1
    /\ Statistics' = [Statistics EXCEPT !.TotalUrbsSubmitted = @ + 1]
    /\ urb' = [urb EXCEPT ![u].status = "pending"]

(***************************************************************************)
(* VusbQueueUrb, called with a fresh entry.                                *)
(***************************************************************************)
VusbQueueUrb(u) ==
    /\ ~unloaded
    /\ urb[u].status = "created"
    /\ InsertTail(u)
    /\ UNCHANGED <<tableVars, NextUrbId, held, room, parked, requeues, plugReply, unloaded>>

----------------------------------------------------------------------------
(* IOCTLs on devices.                                                      *)

(***************************************************************************)
(* VusbHandlePluginDevice.  The status of VusbCreateVirtualDevice is       *)
(* overwritten by that of WdfRequestRetrieveOutputBuffer before it is      *)
(* looked at, so the response says SUCCESS for every outcome.  A request   *)
(* without room for the response destroys the device again and is left     *)
(* out: the handler is alone in the queue, and the table ends as it began. *)
(***************************************************************************)
VusbHandlePluginDevice ==
    /\ IoctlIdle
    /\ \E id \in 0..MaxDevices :
          /\ VusbCreateVirtualDevice(id)
          /\ plugReply' = [Status |-> "SUCCESS", DeviceId |-> id]
    /\ UNCHANGED <<PendingUrbList, PendingUrbCount, NextUrbId, Statistics, urb,
                   held, room, parked, requeues, unloaded>>

(***************************************************************************)
(* VusbHandleUnplugDevice.  URBs of the device stay where they are.        *)
(***************************************************************************)
VusbHandleUnplugDevice(id) ==
    /\ IoctlIdle
    /\ VusbDestroyVirtualDevice(id)
    /\ UNCHANGED driverVars

(***************************************************************************)
(* VusbHandleResetDevice; the configuration fields it clears are never set.*)
(***************************************************************************)
VusbHandleResetDevice(id) ==
    /\ IoctlIdle
    /\ Present(id)
    /\ Devices' = [Devices EXCEPT ![id].State = "DEFAULT"]
    /\ UNCHANGED <<DeviceCount, plugs, driverVars>>

----------------------------------------------------------------------------
(* IOCTLs on URBs.                                                         *)

\* A faulty variant: the head is read and stays on the list.
PeekUrb(r) ==
    /\ IoctlIdle
    /\ PendingUrbList # <<>>
    /\ held' = Head(PendingUrbList)
    /\ room' = r
    /\ urb' = [urb EXCEPT ![Head(PendingUrbList)].status = "held"]
    /\ UNCHANGED <<tableVars, PendingUrbList, PendingUrbCount, NextUrbId, Statistics,
                   parked, requeues, plugReply, unloaded>>

(***************************************************************************)
(* VusbHandleGetPendingUrb, first lock section: VusbDequeueUrb takes the   *)
(* head of the list.                                                       *)
(***************************************************************************)
VusbDequeueUrb(r) ==
    /\ IoctlIdle
    /\ PendingUrbList # <<>>
    /\ PendingUrbList' = Tail(PendingUrbList)
    /\ PendingUrbCount' = PendingUrbCount - 1
    /\ held' = Head(PendingUrbList)
    /\ room' = r
    /\ urb' = [urb EXCEPT ![Head(PendingUrbList)].status = "held"]
    /\ UNCHANGED <<tableVars, NextUrbId, Statistics, parked, requeues, plugReply, unloaded>>

(***************************************************************************)
(* ... with an empty list: the request is forwarded to PendingUrbQueue and *)
(* STATUS_PENDING is returned.                                             *)
(***************************************************************************)
GetPendingUrbPark ==
    /\ IoctlIdle
    /\ PendingUrbList = <<>>
    /\ parked < MaxParked
    /\ parked' = parked + 1
    /\ UNCHANGED <<tableVars, PendingUrbList, PendingUrbCount, NextUrbId, Statistics,
                   urb, held, room, requeues, plugReply, unloaded>>

\* OutputBufferLength < requiredSize; or the buffer cannot be retrieved, which
\* takes the same way out.
BufferTooSmall == urb[held].large /\ ~room

(***************************************************************************)
(* ... the buffer is large enough: the URB is copied out.  The entry is    *)
(* not put back on the list.                                               *)
(***************************************************************************)
GetPendingUrbDeliver ==
    /\ held # 0
    /\ ~BufferTooSmall
    /\ urb' = [urb EXCEPT ![held].status = "fetched"]
    /\ held' = 0
    /\ room' = FALSE
    /\ UNCHANGED <<tableVars, PendingUrbList, PendingUrbCount, NextUrbId, Statistics,
                   parked, requeues, plugReply, unloaded>>

\* A faulty variant: no return behind VusbQueueUrb, the URB is copied out too.
RequeueAndDeliver ==
    /\ held # 0
    /\ BufferTooSmall
    /\ PendingUrbList' = Append(PendingUrbList, held)
    /\ PendingUrbCount' = PendingUrbCount + 1
    /\ Statistics' = [Statistics EXCEPT !.TotalUrbsSubmitted = @ + 1]
    /\ urb' = [urb EXCEPT ![held].status = "fetched"]
    /\ held' = 0
    /\ room' = FALSE
    /\ requeues' = requeues + 1
    /\ UNCHANGED <<tableVars, NextUrbId, parked, plugReply, unloaded>>

(***************************************************************************)
(* ... the buffer is too small: VusbQueueUrb again, at the tail.           *)
(***************************************************************************)
GetPendingUrbRequeue ==
    /\ held # 0
    /\ BufferTooSmall
    /\ InsertTail(held)
    /\ held' = 0
    /\ room' = FALSE
    /\ requeues' = requeues + 1
    /\ UNCHANGED <<tableVars, NextUrbId, parked, plugReply, unloaded>>

\* Faulty variants: the entry stays linked; the count is not decremented.
FindUrbWithoutUnlink(u) ==
    /\ \E i \in DOMAIN PendingUrbList : PendingUrbList[i] = u
    /\ UNCHANGED <<PendingUrbList, PendingUrbCount>>
FindUrbWithoutCount(u) ==
    /\ \E i \in DOMAIN PendingUrbList : PendingUrbList[i] = u /\ PendingUrbList' = RemoveAt(PendingUrbList, i)
    /\ UNCHANGED PendingUrbCount

(***************************************************************************)
(* VusbFindUrb: the first entry with this id leaves the list.              *)
(***************************************************************************)
VusbFindUrb(u) ==
    \E i \in DOMAIN PendingUrbList :
        /\ PendingUrbList[i] = u
        /\ \A j \in DOMAIN PendingUrbList : j < i => PendingUrbList[j] # u
        /\ PendingUrbList' = RemoveAt(PendingUrbList, i)
        /\ PendingUrbCount' = PendingUrbCount - 1

Increment(condition) == IF condition THEN 1 ELSE 0

\* A faulty variant: a cancellation is not counted as an error.
CompleteWithoutCancelError(u, result) ==
    /\ Statistics' = [Statistics EXCEPT
           !.TotalUrbsCompleted = @ + Increment(result = "completed"),
           !.TotalUrbsCanceled  = @ + Increment(result = "canceled"),
           !.TotalErrors        = @ + Increment(result = "failed")]
    /\ urb' = [urb EXCEPT ![u].status = result]
    /\ UNCHANGED Devices

(***************************************************************************)
(* VusbCompleteUrb: global statistics, statistics of whatever device now   *)
(* has the URB's DeviceId, completion of the Request; the entry is freed.  *)
(***************************************************************************)
VusbCompleteUrb(u, result) ==
    LET d  == urb[u].DeviceId
        ok == result = "completed"
    IN /\ Statistics' = [Statistics EXCEPT
              !.TotalUrbsCompleted = @ + Increment(ok),
              !.TotalUrbsCanceled  = @ + Increment(result = "canceled"),
              !.TotalErrors        = @ + Increment(~ok)]
       /\ Devices' = IF Present(d)
                     THEN [Devices EXCEPT ![d].UrbsCompleted = @ + Increment(ok),
                                          ![d].UrbsError     = @ + Increment(~ok)]
                     ELSE Devices
       /\ urb' = [urb EXCEPT ![u].status = result]

(***************************************************************************)
(* VusbHandleCompleteUrb, with the URB found; STATUS_NOT_FOUND changes     *)
(* nothing.  Any status but VUSB_STATUS_SUCCESS completes with an error.   *)
(***************************************************************************)
VusbHandleCompleteUrb(u, result) ==
    /\ IoctlIdle
    /\ result \in {"completed", "failed"}
    /\ VusbFindUrb(u)
    /\ VusbCompleteUrb(u, result)
    /\ UNCHANGED <<DeviceCount, plugs, NextUrbId, held, room, parked, requeues,
                   plugReply, unloaded>>

(***************************************************************************)
(* VusbHandleCancelUrb -> VusbCancelUrb, with the URB found; a cancelled   *)
(* URB is counted as an error as well.                                     *)
(***************************************************************************)
VusbHandleCancelUrb(u) ==
    /\ IoctlIdle
    /\ VusbFindUrb(u)
    /\ VusbCompleteUrb(u, "canceled")
    /\ UNCHANGED <<DeviceCount, plugs, NextUrbId, held, room, parked, requeues,
                   plugReply, unloaded>>

----------------------------------------------------------------------------
(* The framework (external).                                               *)

\* CancelIoEx on a parked request: the manual queue completes it as cancelled.
CancelParked ==
    /\ parked > 0
    /\ parked' = parked - 1
    /\ UNCHANGED <<tableVars, PendingUrbList, PendingUrbCount, NextUrbId, Statistics,
                   urb, held, room, requeues, plugReply, unloaded>>

(***************************************************************************)
(* VusbEvtDeviceContextCleanup: the devices go; the framework has purged   *)
(* its queues, so no request is parked.  Pending entries are not touched.  *)
(***************************************************************************)
VusbEvtDeviceContextCleanup ==
    /\ IoctlIdle
    /\ VusbCleanupAllDevices
    /\ parked' = 0
    /\ unloaded' = TRUE
    /\ UNCHANGED <<PendingUrbList, PendingUrbCount, NextUrbId, Statistics, urb, held,
                   room, requeues, plugReply>>

----------------------------------------------------------------------------
Next ==
    \/ \E d \in DeviceIds, large \in BOOLEAN : VusbUrbCreate(d, large)
    \/ \E u \in UrbIds : VusbQueueUrb(u)
    \/ VusbHandlePluginDevice
    \/ \E id \in 0..(MaxDevices + 1) : VusbHandleUnplugDevice(id)
    \/ \E id \in DeviceIds : VusbHandleResetDevice(id)
    \/ \E r \in BOOLEAN : (requeues < MaxRequeues \/ r) /\ VusbDequeueUrb(r)
    \/ GetPendingUrbPark
    \/ GetPendingUrbDeliver
    \/ GetPendingUrbRequeue
    \/ \E u \in UrbIds, result \in {"completed", "failed"} : VusbHandleCompleteUrb(u, result)
    \/ \E u \in UrbIds : VusbHandleCancelUrb(u)
    \/ CancelParked
    \/ VusbEvtDeviceContextCleanup

Spec == Init /\ [][Next]_vars

(***************************************************************************)
(* Driver code that has been entered runs on: a handler that holds an      *)
(* entry finishes, and a created entry is queued by its thread.            *)
(***************************************************************************)
DriverFairness ==
    /\ WF_vars(GetPendingUrbDeliver)
    /\ WF_vars(GetPendingUrbRequeue)
    /\ \A u \in UrbIds : WF_vars(VusbQueueUrb(u))

FairSpec == Spec /\ DriverFairness

----------------------------------------------------------------------------
(* Properties.                                                             *)

\* Types of all variables.
TypeOK ==
    /\ TableTypeOK
    /\ PendingUrbList \in Seq(UrbIds)
    /\ PendingUrbCount \in Nat
    /\ NextUrbId \in 0..MaxUrbs
    /\ Statistics \in StatisticsType
    /\ urb \in [UrbIds -> UrbType]
    /\ held \in 0..MaxUrbs
    /\ room \in BOOLEAN
    /\ parked \in Nat
    /\ requeues \in Nat
    /\ plugReply \in [Status: {"none", "SUCCESS"}, DeviceId: 0..MaxDevices]
    /\ unloaded \in BOOLEAN

(***************************************************************************)
(* PendingUrbCount, which GET_STATISTICS reports, is decremented in two    *)
(* functions and incremented in one; it always equals the length of the    *)
(* list, so it never wraps below zero.                                     *)
(***************************************************************************)
CountMatchesList == PendingUrbCount = Len(PendingUrbList)

\* An entry is linked on the list exactly while it is pending.
ListedIffPending ==
    \A u \in UrbIds : urb[u].status = "pending" <=> \E i \in DOMAIN PendingUrbList :
                                                        PendingUrbList[i] = u

\* No entry is linked twice.
ListedOnce ==
    \A i, j \in DOMAIN PendingUrbList : PendingUrbList[i] = PendingUrbList[j] => i = j

\* The handler of GET_PENDING_URB owns exactly the entry it has taken off.
HeldByHandler == \A u \in UrbIds : urb[u].status = "held" <=> held = u

\* Ids above NextUrbId are not in use.
FreshIds == \A u \in UrbIds : u > NextUrbId <=> urb[u].status = "none"

(***************************************************************************)
(* An entry is in one place only: with the thread that created it, on the  *)
(* list (once), with the handler of GET_PENDING_URB, or gone.  An entry    *)
(* VusbCompleteUrb has freed is never reachable from the list, whatever    *)
(* the order in which the stack queues and user mode fetches, re-queues,   *)
(* completes and cancels.                                                  *)
(***************************************************************************)
EntryInOnePlace == ListedIffPending /\ ListedOnce /\ HeldByHandler /\ FreshIds

(***************************************************************************)
(* The Request behind a URB is completed at most once: completion and      *)
(* cancellation of one URB exclude each other (VusbCompleteUrb frees the   *)
(* entry, so a second completion would use freed memory).                  *)
(***************************************************************************)
CompletesOnce ==
    [][\A u \in UrbIds : urb[u].status \in Finished => urb'[u] = urb[u]]_vars

(***************************************************************************)
(* What GET_STATISTICS reports accounts for every URB: completions and     *)
(* errors are the URBs that ended, cancellations are errors too, and the   *)
(* submissions are the URBs ever queued plus one for each re-queue.        *)
(***************************************************************************)
StatisticsAgree ==
    /\ Statistics.TotalUrbsCompleted = Cardinality(With("completed"))
    /\ Statistics.TotalUrbsCanceled = Cardinality(With("canceled"))
    /\ Statistics.TotalErrors = Cardinality(With("failed")) + Cardinality(With("canceled"))
    /\ Statistics.TotalUrbsSubmitted =
           requeues + Cardinality(UrbIds \ (With("none") \cup With("created")))

\* The driver's list as an abstract queue: dequeued entries are handed out,
\* re-queued ones given back.
UrbQueue == INSTANCE VusbUrbQueue WITH
                Urb <- UrbIds,
                pending <- ToSet(PendingUrbList),
                out <- With("held") \cup With("fetched"),
                ended <- {u \in UrbIds : urb[u].status \in Finished},
                count <- PendingUrbCount

(***************************************************************************)
(* The driver implements VusbUrbQueue: although ids are assigned, entries  *)
(* queued and fetches finished under separate acquisitions of              *)
(* UrbQueueLock, every step is one operation of an abstract queue or       *)
(* leaves it alone.  So a URB is queued once, completes or is cancelled    *)
(* only from the list, and never after it has ended.                       *)
(***************************************************************************)
ImplementsUrbQueue == UrbQueue!Spec

(***************************************************************************)
(* vusb_ioctl.c:290 "URB entry is kept pending until completion": a URB    *)
(* handed to user mode can still be found by VusbHandleCompleteUrb.        *)
(***************************************************************************)
FetchedKeptPending ==
    \A u \in UrbIds : urb[u].status = "fetched" => \E i \in DOMAIN PendingUrbList :
                                                      PendingUrbList[i] = u

(***************************************************************************)
(* vusb_driver.h:64, the DeviceId of an entry is its "Target device": the  *)
(* device that has this id while the URB is pending is the one the URB was *)
(* created for.                                                            *)
(***************************************************************************)
TargetIsOriginal ==
    \A u \in UrbIds : urb[u].status = "pending" /\ Present(urb[u].DeviceId)
                         => Devices[urb[u].DeviceId].plug = urb[u].plug

(***************************************************************************)
(* docs/DEVELOPER.md "Device Not Appearing ... Verify plugin IOCTL         *)
(* succeeded": a plugin response of SUCCESS means a device was created.    *)
(***************************************************************************)
PluginSuccessMeansDevice == plugReply.Status = "SUCCESS" => plugReply.DeviceId # 0

(***************************************************************************)
(* vusb_driver.c:342 "Request will be completed later": a GET_PENDING_URB  *)
(* parked for lack of a URB does not stay parked next to a URB.            *)
(***************************************************************************)
ParkedRequestServed ==
    (parked > 0 /\ PendingUrbList # <<>>) ~> (parked = 0 \/ PendingUrbList = <<>>)

=============================================================================

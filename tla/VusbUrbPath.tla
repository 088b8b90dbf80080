---------------------------- MODULE VusbUrbPath ----------------------------
(***************************************************************************)
(* The path of a URB: USB stack -> driver -> URB forwarder -> client and   *)
(* back.  It composes the driver (VusbDriver) and the server (VusbServer), *)
(* which share the device table, with the forwarder of                     *)
(* server/vusb_server_urb.c and the completion handler of vusb_server.c.   *)
(*                                                                         *)
(* The forwarder is one thread.  It polls IOCTL_VUSB_GET_PENDING_URB; a    *)
(* request the driver parks is cancelled after 100 ms and issued again.    *)
(* It looks the client up under ClientLock, but uses the pointer after the *)
(* lock is released, so lookup, tracking and send() are separate steps.    *)
(* main() does not start the forwarder yet; the model starts it with the   *)
(* server, as ServerUrbStart would after VusbServerOpenDriver.  A large    *)
(* URB is an OUT transfer that does not fit the forwarder's buffer.        *)
(***************************************************************************)
EXTENDS Naturals, FiniteSets, Sequences, SequencesExt

CONSTANTS MaxDevices, MaxPlugs,               \* see VusbDeviceTable
          MaxUrbs, MaxRequeues, MaxParked,    \* see VusbDriver
          MaxClients, MaxSessions, ForeignDetach  \* see VusbServer

\* What the two components assume of their constants.
ASSUME UrbPathAssumption ==
    /\ {MaxDevices, MaxClients} \subseteq Nat \ {0}
    /\ {MaxPlugs, MaxUrbs, MaxRequeues, MaxParked, MaxSessions} \subseteq Nat
    /\ ForeignDetach \in BOOLEAN

VARIABLES Devices, DeviceCount, plugs,
          PendingUrbList, PendingUrbCount, NextUrbId, Statistics, urb, held,
          room, parked, requeues, plugReply, unloaded,
          Clients, ClientCount, NextSessionId, phase, tracked, current, next, owner, foreign,
          Running,       \* ctx->Running of the forwarder
          fpc,           \* where UrbForwarderThread is
          fwd,           \* the URB it is forwarding, or 0
          fclient,       \* the client ServerUrbFindClientForDevice returned, or 0
          PendingList,   \* ctx->PendingList, newest first, as UrbIds
          PendingCount,  \* ctx->PendingCount
          untracked,     \* history: URBs whose tracking entry could not be allocated
          wire,          \* SUBMIT_URB messages with a client: <<session, UrbId>>
          sends,         \* history: how often each URB was sent to a client
          answered       \* history: URBs whose client sent URB_COMPLETE

D == INSTANCE VusbDriver
S == INSTANCE VusbServer

driverVars == <<PendingUrbList, PendingUrbCount, NextUrbId, Statistics, urb,
                held, room, parked, requeues, plugReply, unloaded>>
driverAll == <<Devices, DeviceCount, plugs, driverVars>>
serverVars == <<Clients, ClientCount, NextSessionId, phase, tracked, current, next, owner, foreign>>
forwarderVars == <<Running, fpc, fwd, fclient, PendingList, PendingCount, untracked,
                   wire, sends, answered>>
vars == <<driverAll, serverVars, forwarderVars>>

\* The thread has started, or has ended because malloc() failed.
Init ==
    /\ D!Init
    /\ S!Init
    /\ Running = TRUE
    /\ fpc \in {"get", "ended"}
    /\ fwd = 0
    /\ fclient = 0
    /\ PendingList = <<>>
    /\ PendingCount = 0
    /\ untracked = {}
    /\ wire = {}
    /\ sends = [u \in D!UrbIds |-> 0]
    /\ answered = {}

----------------------------------------------------------------------------
(* The USB stack and the client threads, as in the two components.  An     *)
(* IOCTL of a client thread waits for the driver's sequential queue.       *)

Stack ==
    /\ \/ \E d \in D!DeviceIds, large \in BOOLEAN : D!VusbUrbCreate(d, large)
       \/ \E u \in D!UrbIds : D!VusbQueueUrb(u)
    /\ UNCHANGED <<serverVars, forwarderVars>>

ClientThreads ==
    /\ \/ S!VusbServerAcceptClient
       \/ \E s \in S!Sessions :
             \/ S!StartThread(s) \/ S!LeaveLoop(s)
             \/ S!TrackDevice(s) \/ S!UntrackDevice(s)
             \/ S!RemoveFromArray(s) \/ S!FreeClient(s)
             \/ /\ D!IoctlIdle
                /\ \/ S!VusbServerPluginDevice(s)
                   \/ \E id \in D!DeviceIds : S!VusbServerUnplugDevice(s, id)
                   \/ S!UnplugOwned(s)
    /\ UNCHANGED <<driverVars, forwarderVars>>

----------------------------------------------------------------------------
(* UrbForwarderThread.                                                     *)

\* GET_PENDING_URB with a URB waiting and a buffer of VUSB_MAX_PACKET_SIZE.
GetPendingUrb ==
    /\ fpc = "get"
    /\ Running
    /\ D!VusbDequeueUrb(FALSE)
    /\ fpc' = "deliver"
    /\ UNCHANGED <<serverVars, Running, fwd, fclient, PendingList, PendingCount,
                   untracked, wire, sends, answered>>

(***************************************************************************)
(* ... and its completion, which hands the URB to the thread; or, when the *)
(* request was pending for 100 ms by then, CancelIoEx comes too late and   *)
(* the buffer is discarded with the URB in it.                             *)
(***************************************************************************)
PendingUrbReturned ==
    /\ fpc = "deliver"
    /\ D!GetPendingUrbDeliver
    /\ \/ fwd' = held /\ fpc' = "find"
       \/ fwd' = 0 /\ fpc' = "get"
    /\ UNCHANGED <<serverVars, Running, fclient, PendingList, PendingCount,
                   untracked, wire, sends, answered>>

\* The driver's re-queue once MaxRequeues have been counted: the counters stay.
RequeueUncounted ==
    /\ held # 0
    /\ D!BufferTooSmall
    /\ PendingUrbList' = Append(PendingUrbList, held)
    /\ PendingUrbCount' = PendingUrbCount + 1
    /\ urb' = [urb EXCEPT ![held].status = "pending"]
    /\ held' = 0
    /\ room' = FALSE
    /\ UNCHANGED <<Devices, DeviceCount, plugs, NextUrbId, Statistics, parked, requeues,
                   plugReply, unloaded>>

\* ... or STATUS_BUFFER_TOO_SMALL, the URB goes back to the tail: Sleep(100).
PendingUrbTooLarge ==
    /\ fpc = "deliver"
    /\ IF requeues < MaxRequeues THEN D!GetPendingUrbRequeue ELSE RequeueUncounted
    /\ fpc' = "get"
    /\ UNCHANGED <<serverVars, Running, fwd, fclient, PendingList, PendingCount,
                   untracked, wire, sends, answered>>

\* ... with none waiting: ERROR_IO_PENDING, the thread waits for the event.
WaitForUrb ==
    /\ fpc = "get"
    /\ Running
    /\ D!GetPendingUrbPark
    /\ fpc' = "wait"
    /\ UNCHANGED <<serverVars, Running, fwd, fclient, PendingList, PendingCount,
                   untracked, wire, sends, answered>>

\* A faulty variant: WaitForSingleObject(..., INFINITE).
WaitForever == fpc = "wait" /\ UNCHANGED vars

\* "Timeout - cancel and retry".  The driver never completes a parked request
\* with a URB, so the event is never set.
TimeoutAndRetry ==
    /\ fpc = "wait"
    /\ D!CancelParked
    /\ fpc' = "get"
    /\ UNCHANGED <<serverVars, Running, fwd, fclient, PendingList, PendingCount,
                   untracked, wire, sends, answered>>

\* IOCTL_VUSB_COMPLETE_URB; an id the driver does not find changes nothing.
CompleteToDriver(u, result) ==
    /\ D!IoctlIdle
    /\ IF \E i \in DOMAIN PendingUrbList : PendingUrbList[i] = u
       THEN D!VusbHandleCompleteUrb(u, result)
       ELSE UNCHANGED driverAll

\* A connected client in slot i tracks device d.
Serves(i, d) ==
    LET s == Clients[i]
    IN /\ s # 0
       /\ S!Connected(s)
       /\ \E k \in D!DeviceIds : tracked[s][k] = d

(***************************************************************************)
(* ServerUrbFindClientForDevice, under ClientLock: the first slot whose    *)
(* client tracks the device.                                               *)
(***************************************************************************)
ServerUrbFindClientForDevice ==
    LET d == urb[fwd].DeviceId
    IN /\ fpc = "find"
       /\ \E i \in S!Slots :
             /\ Serves(i, d)
             /\ \A j \in S!Slots : j < i => ~Serves(j, d)
             /\ fclient' = Clients[i]
       /\ fpc' = "track"
       /\ UNCHANGED <<driverAll, serverVars, Running, fwd, PendingList, PendingCount,
                      untracked, wire, sends, answered>>

\* "No client for device": "Complete URB with error" VUSB_STATUS_NO_DEVICE.
NoClientForDevice ==
    /\ fpc = "find"
    /\ \A i \in S!Slots : ~Serves(i, urb[fwd].DeviceId)
    /\ CompleteToDriver(fwd, "failed")
    /\ fpc' = "get"
    /\ fwd' = 0
    /\ UNCHANGED <<serverVars, Running, fclient, PendingList, PendingCount,
                   untracked, wire, sends, answered>>

\* A faulty variant: the message goes out before the entry is made.
SendBeforeTracking ==
    /\ fpc = "track"
    /\ wire' = wire \cup {<<fclient, fwd>>}
    /\ fpc' = "send"
    /\ UNCHANGED <<driverAll, serverVars, Running, fwd, fclient, PendingList, PendingCount,
                   untracked, sends, answered>>

(***************************************************************************)
(* "Track pending URB", under PendingLock; a failed allocation of the      *)
(* entry is ignored, one of the send buffer gives the URB up.              *)
(***************************************************************************)
TrackUrb ==
    /\ fpc = "track"
    /\ \/ /\ PendingList' = <<fwd>> \o PendingList
          /\ PendingCount' = PendingCount + 1
          /\ fpc' = "send"
          /\ UNCHANGED <<fwd, fclient, untracked>>
       \/ /\ untracked' = untracked \cup {fwd}
          /\ fpc' = "send"
          /\ UNCHANGED <<fwd, fclient, PendingList, PendingCount>>
       \/ /\ fpc' = "get"
          /\ fwd' = 0
          /\ fclient' = 0
          /\ UNCHANGED <<PendingList, PendingCount, untracked>>
    /\ UNCHANGED <<driverAll, serverVars, Running, wire, sends, answered>>

(***************************************************************************)
(* "Send to client": to the client looked up before, or, when that object  *)
(* has been freed meanwhile, to whichever client now has its memory.  A    *)
(* failing send() loses the URB; its tracking entry stays.                 *)
(***************************************************************************)
SendToClient ==
    /\ fpc = "send"
    /\ \/ \E s \in IF phase[fclient] = "freed" THEN {t \in S!Sessions : S!InArray(t)}
                                               ELSE {fclient} :
             /\ wire' = wire \cup {<<s, fwd>>}
             /\ sends' = [sends EXCEPT ![fwd] = @ + 1]
       \/ UNCHANGED <<wire, sends>>
    /\ fpc' = "get"
    /\ fwd' = 0
    /\ fclient' = 0
    /\ UNCHANGED <<driverAll, serverVars, Running, PendingList, PendingCount,
                   untracked, answered>>

ThreadEnds ==
    /\ fpc = "get"
    /\ ~Running
    /\ fpc' = "ended"
    /\ UNCHANGED <<driverAll, serverVars, Running, fwd, fclient, PendingList, PendingCount,
                   untracked, wire, sends, answered>>

\* The steps of the thread except the blocking send().
Polling ==
    \/ GetPendingUrb \/ PendingUrbReturned \/ PendingUrbTooLarge \/ WaitForUrb \/ TimeoutAndRetry
    \/ ServerUrbFindClientForDevice \/ NoClientForDevice
    \/ TrackUrb \/ ThreadEnds

Forwarder == Polling \/ SendToClient

----------------------------------------------------------------------------
(* ServerUrbStop.                                                          *)

StopForwarder ==
    /\ Running
    /\ Running' = FALSE
    /\ UNCHANGED <<driverAll, serverVars, fpc, fwd, fclient, PendingList, PendingCount,
                   untracked, wire, sends, answered>>

\* "Free pending URBs", once the thread has ended or, after 5 s, while it is
\* blocked in send().  PendingCount is not reset.
FreePendingUrbs ==
    /\ ~Running
    /\ fpc \in {"ended", "send"}
    /\ PendingList # <<>>
    /\ PendingList' = <<>>
    /\ UNCHANGED <<driverAll, serverVars, Running, fpc, fwd, fclient, PendingCount,
                   untracked, wire, sends, answered>>

----------------------------------------------------------------------------
(* Completions.  A client answers each SUBMIT_URB once (client code), with *)
(* the URB's id and data; `number' is the URB id that the first four bytes *)
(* of the data happen to spell, 0 when they spell none.                    *)

Answer(s, u) ==
    /\ phase[s] = "serving"
    /\ <<s, u>> \in wire
    /\ wire' = wire \ {<<s, u>>}
    /\ answered' = answered \cup {u}

(***************************************************************************)
(* VusbServerHandleUrbComplete.  The payload starts behind the header, and *)
(* is read as a VUSB_URB_COMPLETE that starts with one: the field UrbId    *)
(* falls on the first bytes of the data and Status on the next ones.       *)
(***************************************************************************)
VusbServerHandleUrbComplete(s, u, number, result) ==
    /\ Answer(s, u)
    /\ CompleteToDriver(number, result)
    /\ UNCHANGED <<serverVars, Running, fpc, fwd, fclient, PendingList, PendingCount,
                   untracked, sends>>

\* A faulty variant: the entry stays linked.
UrbCompleteWithoutUnlink(s, u, result) ==
    /\ Running
    /\ Answer(s, u)
    /\ PendingCount' = PendingCount - Cardinality({u} \cap ToSet(PendingList))
    /\ CompleteToDriver(u, result)
    /\ UNCHANGED <<serverVars, Running, fpc, fwd, fclient, PendingList, untracked, sends>>

(***************************************************************************)
(* ServerUrbComplete, the forwarder's own handler for the same message: it *)
(* unlinks the entry under PendingLock and then completes the URB, unless  *)
(* malloc() fails; without an entry it does nothing.  The entry is its own *)
(* once unlinked, so the IOCTL may as well follow at once.                 *)
(***************************************************************************)
ServerUrbComplete(s, u, result) ==
    /\ Running
    /\ Answer(s, u)
    /\ \/ \E i \in DOMAIN PendingList :
             /\ PendingList[i] = u
             /\ \A j \in 1..(i - 1) : PendingList[j] # u
             /\ PendingList' = RemoveAt(PendingList, i)
             /\ PendingCount' = PendingCount - 1
             /\ CompleteToDriver(u, result) \/ UNCHANGED driverAll
       \/ /\ u \notin ToSet(PendingList)
          /\ UNCHANGED <<driverAll, PendingList, PendingCount>>
    /\ UNCHANGED <<serverVars, Running, fpc, fwd, fclient, untracked, sends>>

Completion ==
    \E s \in S!Sessions, u \in D!UrbIds, result \in {"completed", "failed"} :
        \/ \E number \in 0..MaxUrbs : VusbServerHandleUrbComplete(s, u, number, result)
        \/ ServerUrbComplete(s, u, result)

----------------------------------------------------------------------------
Next == Stack \/ ClientThreads \/ Forwarder \/ StopForwarder \/ FreePendingUrbs \/ Completion

Spec == Init /\ [][Next]_vars

\* The forwarder thread runs on: its waits end after 100 ms.  Its send() may
\* block for ever, when a client does not read its socket.
FairSpec == Spec /\ WF_vars(Polling)

----------------------------------------------------------------------------
(* Properties.                                                             *)

\* Types of the forwarder's variables.
TypeOK ==
    /\ Running \in BOOLEAN
    /\ fpc \in {"get", "deliver", "wait", "find", "track", "send", "ended"}
    /\ fwd \in 0..MaxUrbs
    /\ fclient \in 0..MaxSessions
    /\ PendingList \in Seq(D!UrbIds)
    /\ PendingCount \in Nat
    /\ untracked \subseteq D!UrbIds
    /\ wire \subseteq S!Sessions \X D!UrbIds
    /\ sends \in [D!UrbIds -> Nat]
    /\ answered \subseteq D!UrbIds

(***************************************************************************)
(* ServerUrbForward enters a URB in the list before it sends it: however   *)
(* fast the client answers, ServerUrbComplete finds the entry (unless it   *)
(* could not be allocated).                                                *)
(***************************************************************************)
AnswerFindsEntry ==
    Running => \A s \in S!Sessions, u \in D!UrbIds :
        <<s, u>> \in wire => u \in ToSet(PendingList) \cup untracked

(***************************************************************************)
(* A transfer reaches the hardware at most once: no URB is sent to clients *)
(* twice, although requests are cancelled and issued again.                *)
(***************************************************************************)
SubmittedOnce == \A u \in D!UrbIds : sends[u] <= 1

(***************************************************************************)
(* While the forwarder runs, PendingCount counts the list, and no URB is   *)
(* in it twice (a stale entry would swallow the completion of a later one).*)
(***************************************************************************)
PendingListSound ==
    Running => PendingCount = Cardinality(ToSet(PendingList)) /\ IsInjective(PendingList)

(***************************************************************************)
(* The timeout in UrbForwarderThread makes up for the driver, which parks  *)
(* a request and never completes it: unless a send() to a client blocks    *)
(* for ever, a queued URB that fits the buffer is fetched (or completed    *)
(* otherwise) while the thread runs, although URBs that do not fit keep    *)
(* coming back to the list.  Those are never fetched.                      *)
(***************************************************************************)
UrbFetched ==
    []<>(fpc # "send") =>
        \A u \in D!UrbIds :
            (urb[u].status = "pending" /\ ~urb[u].large /\ fpc # "ended")
                ~> (urb[u].status \notin {"pending", "held"} \/ ~Running)

(***************************************************************************)
(* README.md:264 "Routes URB to correct client via device ID": the client  *)
(* chosen for a URB is the one that attached the URB's device (unless that *)
(* device is gone).                                                        *)
(***************************************************************************)
RoutedToOwner ==
    fpc = "track" =>
        LET d == urb[fwd].DeviceId
        IN Devices[d].plug = urb[fwd].plug => owner[d] = fclient

(***************************************************************************)
(* vusb_protocol.h:225, the UrbId of a completion is the "Matching URB     *)
(* identifier": a URB the driver completes successfully is one that a      *)
(* client has answered.                                                    *)
(***************************************************************************)
CompletedWasAnswered ==
    \A u \in D!UrbIds : urb[u].status = "completed" => u \in answered

=============================================================================

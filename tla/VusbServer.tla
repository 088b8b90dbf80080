----------------------------- MODULE VusbServer -----------------------------
(***************************************************************************)
(* The network server (server/vusb_server.c) in front of the driver: the   *)
(* accept loop, one thread per client, and the devices each client has     *)
(* attached.  A connection object is named by its SessionId.               *)
(*                                                                         *)
(* ClientLock protects the array Clients only.  A client's tracking array  *)
(* is touched by its own thread, and the plug and unplug IOCTLs of         *)
(* different threads interleave, so attach, detach and disconnect are one  *)
(* step per IOCTL and one for the tracking that follows it.  The driver's  *)
(* table is VusbDeviceTable: an unplugged id is handed out again at once.  *)
(*                                                                         *)
(* Messages that change neither connections nor devices (CONNECT, PING,    *)
(* DEVICE_LIST, malformed requests) are not steps.  VusbServerCleanup      *)
(* never meets a client: Running is cleared nowhere else, so VusbServerRun *)
(* returns only when bind() or listen() fails.                             *)
(***************************************************************************)
EXTENDS VusbDeviceTable

CONSTANTS MaxClients,    \* Config.MaxClients
          MaxSessions,   \* bound of the model: connections accepted
          ForeignDetach  \* may clients name any id in a detach request, or
                         \* only ids the server gave them?

ASSUME ServerAssumption == /\ MaxClients \in Nat \ {0}
                           /\ MaxSessions \in Nat
                           /\ ForeignDetach \in BOOLEAN

VARIABLES Clients,        \* ctx->Clients[]: a session, or 0 for NULL
          ClientCount,    \* ctx->ClientCount
          NextSessionId,  \* ctx->NextSessionId
          phase,          \* what the thread of each connection is doing
          tracked,        \* client->Devices[]: DeviceId, or 0 when not Active
          current,        \* the local deviceId of an attach or a detach
          next,           \* the loop index of VusbServerDisconnectClient
          owner,          \* history: the session that attached each device
          foreign         \* history: a client has detached another's device

connVars == <<Clients, ClientCount, NextSessionId, phase, tracked, current, next>>
serverVars == <<connVars, owner, foreign>>
vars == <<tableVars, serverVars>>

Sessions == 1..MaxSessions
Slots == 1..MaxClients

\* accepted: in the array, no thread yet; serving: in recv(); plugged and
\* unplugged: the IOCTL of an attach or a detach is done, the tracking is not;
\* leaving: Connected = FALSE; closing: out of the array; freed: free(client).
Phases == {"none", "accepted", "serving", "plugged", "unplugged", "leaving",
           "closing", "freed"}

Connected(s) == phase[s] \in {"accepted", "serving", "plugged", "unplugged"}
InArray(s) == Connected(s) \/ phase[s] = "leaving"

Init ==
    /\ TableInit
    /\ Clients = [i \in Slots |-> 0]
    /\ ClientCount = 0
    /\ NextSessionId = 0
    /\ phase = [s \in Sessions |-> "none"]
    /\ tracked = [s \in Sessions |-> [k \in DeviceIds |-> 0]]
    /\ current = [s \in Sessions |-> 0]
    /\ next = [s \in Sessions |-> 1]
    /\ owner = [id \in DeviceIds |-> 0]
    /\ foreign = FALSE

----------------------------------------------------------------------------
(* The accept loop of VusbServerRun.                                       *)

(***************************************************************************)
(* VusbServerAcceptClient: first NULL slot, under ClientLock.  A full      *)
(* array or a failed calloc closes the socket and changes nothing.         *)
(***************************************************************************)
VusbServerAcceptClient ==
    LET s == NextSessionId + 1
    IN /\ s \in Sessions
       /\ \A other \in Sessions : phase[other] # "accepted"
       /\ \E i \in Slots :
             /\ Clients[i] = 0
             /\ \A j \in Slots : Clients[j] = 0 => i <= j
             /\ Clients' = [Clients EXCEPT ![i] = s]
       /\ ClientCount' = ClientCount + 1
       /\ NextSessionId' = s
       /\ phase' = [phase EXCEPT ![s] = "accepted"]
       /\ UNCHANGED <<tableVars, tracked, current, next, owner, foreign>>

\* CreateThread succeeds: VusbClientThread enters its receive loop.  The store
\* of client->Thread, which may come when the thread has freed the client
\* already, is left out: nothing reads the field afterwards.
StartThread(s) ==
    /\ phase[s] = "accepted"
    /\ phase' = [phase EXCEPT ![s] = "serving"]
    /\ UNCHANGED <<tableVars, Clients, ClientCount, NextSessionId, tracked, current, next, owner, foreign>>

----------------------------------------------------------------------------
(* VusbClientThread and the handlers it calls.                             *)

(***************************************************************************)
(* The receive loop ends: a DISCONNECT message, a closed or failing        *)
(* socket, a bad header, an oversized or short payload, or no buffer.      *)
(***************************************************************************)
LeaveLoop(s) ==
    /\ phase[s] = "serving"
    /\ phase' = [phase EXCEPT ![s] = "leaving"]
    /\ UNCHANGED <<tableVars, Clients, ClientCount, NextSessionId, tracked, current, next, owner, foreign>>

(***************************************************************************)
(* VusbServerHandleDeviceAttach as far as VusbServerPluginDevice.  Nothing *)
(* is tracked when the plug failed (or succeeded with id 0).  The IOCTL is *)
(* taken to be complete when DeviceIoControl returns, although the handle  *)
(* is overlapped and no OVERLAPPED is passed.                              *)
(***************************************************************************)
VusbServerPluginDevice(s) ==
    /\ phase[s] = "serving"
    /\ \E id \in DeviceIds :
          /\ VusbCreateVirtualDevice(id)
          /\ current' = [current EXCEPT ![s] = id]
          /\ owner' = [owner EXCEPT ![id] = s]
    /\ phase' = [phase EXCEPT ![s] = "plugged"]
    /\ UNCHANGED <<Clients, ClientCount, NextSessionId, tracked, next, foreign>>

\* A faulty variant: the device is recorded in slot 1, whatever is there.
TrackInFirstSlot(s) ==
    /\ phase[s] = "plugged"
    /\ tracked' = [tracked EXCEPT ![s][1] = current[s]]
    /\ current' = [current EXCEPT ![s] = 0]
    /\ phase' = [phase EXCEPT ![s] = "serving"]
    /\ UNCHANGED <<tableVars, Clients, ClientCount, NextSessionId, next, owner, foreign>>

(***************************************************************************)
(* ... "Track device for this client": the first entry that is not Active; *)
(* when there is none the device is not tracked.  Then the response.       *)
(* Active is set before DeviceId; a forwarder that looks in between sees   *)
(* the id the entry had before, as it does while UntrackDevice is due.     *)
(***************************************************************************)
TrackDevice(s) ==
    LET free == {k \in DeviceIds : tracked[s][k] = 0}
    IN /\ phase[s] = "plugged"
       /\ \/ \E k \in free :
                /\ \A j \in free : k <= j
                /\ tracked' = [tracked EXCEPT ![s][k] = current[s]]
          \/ free = {} /\ UNCHANGED tracked
       /\ current' = [current EXCEPT ![s] = 0]
       /\ phase' = [phase EXCEPT ![s] = "serving"]
       /\ UNCHANGED <<tableVars, Clients, ClientCount, NextSessionId, next, owner, foreign>>

(***************************************************************************)
(* VusbServerHandleDeviceDetach as far as VusbServerUnplugDevice.  The id  *)
(* of the request is not checked against the client's own devices.         *)
(***************************************************************************)
VusbServerUnplugDevice(s, id) ==
    /\ phase[s] = "serving"
    /\ \/ /\ \E k \in DeviceIds : tracked[s][k] = id
          /\ UNCHANGED foreign
       \/ /\ ForeignDetach
          /\ \A k \in DeviceIds : tracked[s][k] # id
          /\ foreign' = (foreign \/ Present(id))
    /\ VusbDestroyVirtualDevice(id)
    /\ current' = [current EXCEPT ![s] = id]
    /\ phase' = [phase EXCEPT ![s] = "unplugged"]
    /\ UNCHANGED <<Clients, ClientCount, NextSessionId, tracked, next, owner>>

\* A faulty variant: the entry is left Active.
KeepTracked(s) ==
    /\ phase[s] = "unplugged"
    /\ current' = [current EXCEPT ![s] = 0]
    /\ phase' = [phase EXCEPT ![s] = "serving"]
    /\ UNCHANGED <<tableVars, Clients, ClientCount, NextSessionId, tracked, next, owner, foreign>>

(***************************************************************************)
(* ... "Remove from client tracking": the first entry with this id.        *)
(***************************************************************************)
UntrackDevice(s) ==
    LET match == {k \in DeviceIds : tracked[s][k] = current[s]}
    IN /\ phase[s] = "unplugged"
       /\ \/ \E k \in match :
                /\ \A j \in match : k <= j
                /\ tracked' = [tracked EXCEPT ![s][k] = 0]
          \/ match = {} /\ UNCHANGED tracked
       /\ current' = [current EXCEPT ![s] = 0]
       /\ phase' = [phase EXCEPT ![s] = "serving"]
       /\ UNCHANGED <<tableVars, Clients, ClientCount, NextSessionId, next, owner, foreign>>

----------------------------------------------------------------------------
(* VusbServerDisconnectClient, called by the client's thread, or by the    *)
(* accept loop when CreateThread fails.                                    *)

\* A faulty variant: the slot is cleared and the count is kept.
RemoveWithoutCount(s) ==
    /\ phase[s] \in {"accepted", "leaving"}
    /\ Clients' = [i \in Slots |-> IF Clients[i] = s THEN 0 ELSE Clients[i]]
    /\ phase' = [phase EXCEPT ![s] = "closing"]
    /\ UNCHANGED <<tableVars, ClientCount, NextSessionId, tracked, current, next, owner, foreign>>

(***************************************************************************)
(* "Remove from client array", under ClientLock.                           *)
(***************************************************************************)
RemoveFromArray(s) ==
    /\ phase[s] \in {"accepted", "leaving"}
    /\ \E i \in Slots : /\ Clients[i] = s
                        /\ Clients' = [Clients EXCEPT ![i] = 0]
    /\ ClientCount' = ClientCount - 1
    /\ phase' = [phase EXCEPT ![s] = "closing"]
    /\ UNCHANGED <<tableVars, NextSessionId, tracked, current, next, owner, foreign>>

\* Entries the loop has still to visit.
Remaining(s) == {k \in DeviceIds : k >= next[s] /\ tracked[s][k] # 0}

(***************************************************************************)
(* "Unplug all devices owned by this client": one IOCTL per Active entry.  *)
(***************************************************************************)
UnplugOwned(s) ==
    /\ phase[s] = "closing"
    /\ \E k \in Remaining(s) :
          /\ \A j \in Remaining(s) : k <= j
          /\ VusbDestroyVirtualDevice(tracked[s][k])
          /\ next' = [next EXCEPT ![s] = k + 1]
    /\ UNCHANGED <<Clients, ClientCount, NextSessionId, phase, tracked, current, owner, foreign>>

\* closesocket() and free(client).
FreeClient(s) ==
    /\ phase[s] = "closing"
    /\ Remaining(s) = {}
    /\ phase' = [phase EXCEPT ![s] = "freed"]
    /\ UNCHANGED <<tableVars, Clients, ClientCount, NextSessionId, tracked, current, next, owner, foreign>>

----------------------------------------------------------------------------
Next ==
    \/ VusbServerAcceptClient
    \/ \E s \in Sessions :
          \/ StartThread(s)
          \/ LeaveLoop(s)
          \/ VusbServerPluginDevice(s)
          \/ TrackDevice(s)
          \/ \E id \in DeviceIds : VusbServerUnplugDevice(s, id)
          \/ UntrackDevice(s)
          \/ RemoveFromArray(s)
          \/ UnplugOwned(s)
          \/ FreeClient(s)

Spec == Init /\ [][Next]_vars

(***************************************************************************)
(* A thread that is not waiting in recv() runs on: its locks are held for  *)
(* bounded loops and the IOCTLs it issues complete synchronously.  Nothing *)
(* forces a client to send or to disconnect.                               *)
(***************************************************************************)
ThreadStep(s) == \/ TrackDevice(s)     \/ UntrackDevice(s)
                 \/ RemoveFromArray(s) \/ UnplugOwned(s)   \/ FreeClient(s)

FairSpec == Spec /\ \A s \in Sessions : WF_vars(ThreadStep(s))

----------------------------------------------------------------------------
(* Properties.                                                             *)

\* Types of all variables.
TypeOK ==
    /\ TableTypeOK
    /\ Clients \in [Slots -> 0..MaxSessions]
    /\ ClientCount \in 0..MaxClients
    /\ NextSessionId \in 0..MaxSessions
    /\ phase \in [Sessions -> Phases]
    /\ tracked \in [Sessions -> [DeviceIds -> 0..MaxDevices]]
    /\ current \in [Sessions -> 0..MaxDevices]
    /\ next \in [Sessions -> 1..(MaxDevices + 1)]
    /\ owner \in [DeviceIds -> 0..MaxSessions]
    /\ foreign \in BOOLEAN

(***************************************************************************)
(* ctx->Clients never points to a connection that has been freed or is on  *)
(* its way out (the URB forwarder walks it), a live connection is in it    *)
(* exactly once, and ClientCount is the number of entries.                 *)
(***************************************************************************)
ArrayHoldsLiveClients ==
    /\ \A i \in Slots : Clients[i] # 0 => InArray(Clients[i])
    /\ \A s \in Sessions : InArray(s) => \E i \in Slots :
           Clients[i] = s /\ \A j \in Slots : Clients[j] = s => j = i
    /\ ClientCount = Cardinality({i \in Slots : Clients[i] # 0})

\* The devices session s is responsible for: the ones it tracks, less the one
\* it has just unplugged, plus the one it has just plugged.
Claims(s) ==
    LET entries == CASE phase[s] = "freed" -> {}
                     [] phase[s] = "closing" -> Remaining(s)
                     [] OTHER -> {k \in DeviceIds : tracked[s][k] # 0}
        ids == {tracked[s][k] : k \in entries}
    IN CASE phase[s] = "plugged" -> ids \cup {current[s]}
         [] phase[s] = "unplugged" -> ids \ {current[s]}
         [] OTHER -> ids

(***************************************************************************)
(* Until a client detaches another's device: a device is in the driver's   *)
(* table exactly while one session, the one that attached it, is           *)
(* responsible for it.  So no device leaks when its client goes away at    *)
(* any point, no client unplugs another's device although ids are reused   *)
(* between its two steps, and the tracking array cannot overflow.          *)
(***************************************************************************)
OneOwner ==
    ~foreign => /\ \A s \in Sessions : \A id \in Claims(s) : Present(id) /\ owner[id] = s
                /\ \A id \in Occupied : id \in Claims(owner[id])

(***************************************************************************)
(* vusb_server.c, VusbServerDisconnectClient: "Unplug all devices owned by *)
(* this client".  The devices the loop is still going to unplug are        *)
(* devices this client attached.                                           *)
(***************************************************************************)
UnplugsOnlyOwned ==
    \A s \in Sessions : phase[s] = "closing" =>
        \A k \in Remaining(s) : Present(tracked[s][k]) => owner[tracked[s][k]] = s

(***************************************************************************)
(* Once a client is leaving, every device it attached goes away (as long   *)
(* as no client detaches another's: stale entries can fill the tracking    *)
(* array, and a device that finds no room in it is never unplugged).       *)
(***************************************************************************)
DisconnectReleases ==
    \A s \in Sessions : phase[s] = "leaving" ~>
        \/ \A id \in DeviceIds : ~(Present(id) /\ owner[id] = s)
        \/ foreign

=============================================================================

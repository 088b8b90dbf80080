# TLA+ models of usb-over-ip

This directory holds TLA+ specifications of the virtual USB system in this
repository: a Windows kernel driver that presents virtual USB devices, a network
server in front of it, a second server that does everything in user space, and
clients on Windows, Android and macOS that own the real devices. The modules are
checked with TLC on small instances; every safety property and refinement that TLC
checks there is also proved with TLAPS, for every size of the tables and any number of
URBs, clients and devices. Liveness is model-checked only.

`PROJECT.json` maps every definition to the source lines it stands for and lists
the runs, the faulty variants used to test the properties, the findings, the
hazards and the theorems.

## 1. The system

### Components, state, operations

| Component | State | Operations | Interacts with |
|---|---|---|---|
| Driver, device table (`driver/vusb_device.c`) | `Devices[16]`, `DeviceCount`, guarded by `DeviceListLock` | create (first free slot), destroy, cleanup | IOCTL handlers |
| Driver, URBs (`driver/vusb_ioctl.c`, `vusb_device.c`, `vusb_urb.c`, `vusb_driver.c`) | `PendingUrbList`, `PendingUrbCount`, `NextUrbId`, `Statistics` under `UrbQueueLock`; the manual queue `PendingUrbQueue` | create, queue, dequeue, find, complete, cancel; plug, unplug, reset, get-pending, statistics | USB stack above, server below, framework (queues, cancellation, unload) |
| Server, connections (`server/vusb_server.c`) | `Clients[]`, `ClientCount`, `NextSessionId` under `ClientLock`; each client's `Devices[]` | accept, client thread, attach, detach, URB completion, disconnect | driver by IOCTL, clients by TCP |
| Server, URB forwarder (`server/vusb_server_urb.c`) | `PendingList`, `PendingCount` under `PendingLock`, `Running` | fetch with a 100 ms timeout, look up the client, track, send; complete; stop | driver, the client array of the server, clients |
| Server, simulation mode (`server/vusb_server.c`) | `SimDevices[]`, `NextSimDeviceId`, no lock | plug, unplug, list, disconnect | client threads of the server |
| Userspace server (`userspace/vusb_userspace.c`) | devices, clients, per-device URB lists with a lock each, `Running` | attach, detach, submit, complete, cancel, endpoint buffers, standard requests, shutdown | clients by TCP, callers of the API, callbacks |
| Userspace server, process (`userspace/vusb_userspace_main.c`) | `Running`, `ListenSocket`, `ShutdownEvent`, the locks, the capture file | init, run, console commands, Ctrl+C, cleanup | main, console and Ctrl+C threads |
| Windows clients (`client/vusb_client*.c`) | socket, attached devices | connect, attach, detach, ping, serve URBs | server; capture |
| Capture of real devices (`client/vusb_capture.c`) | `Devices[]`, `DeviceCount`, `NextLocalId`, handles and descriptors | enumerate, refresh, open, read and parse descriptors, transfer | both threads of the client; WinUSB |
| Android client (`android/`) | connection state, receive loop, keepalive, attached devices, pollers | connect, attach, detach, reset, forward, poll, stop | server; Android USB host |
| macOS client (`macos/`) | as the Android client | as the Android client | server; IOKit |
| Protocol (`protocol/`) | none | message layouts, IOCTL structures | all |
| Tools (`tools/`) | none | driver installation, manual test program | driver |

### What is hard in this code

* **Reuse of ids.** A device id of the driver is its slot number plus one. URBs,
  the tracking arrays of the server and messages under way keep ids of devices
  that are gone, and the next plug hands the id out again.
* **Two-step operations.** Attach is an IOCTL followed by tracking, detach an
  IOCTL followed by untracking, disconnect a loop of IOCTLs after the client left
  the array; no lock spans them. In the userspace server the lookup of a device
  and the insertion of a URB are separate.
* **Entries between two lists.** A URB entry moves between its creator, the
  pending list, a handler that may put it back, and completion, which frees it.
* **Several callers of one teardown.** `disconnect()` of the Android client is
  called by the service, by the receive loop and by a failing `connect()`;
  `VusbUsStop` by Ctrl+C, by the console and by cleanup.
* **Shared memory without a lock.** Simulation mode, and `Running` and the listening
  socket of the userspace server.
* **Waiting.** `GET_PENDING_URB` parks a request that nothing completes; the
  forwarder polls with a timeout. Shutdown waits for threads blocked in `recv()`.
  The Android receive loop holds the client's monitor while it waits for data, and
  every sender while it writes, with no timeout.
* **Callbacks** in the middle of a list operation.

The list with line numbers and covering properties is `hazards` in
`PROJECT.json`.

### What makes each component correct

* Device table: the count and the array agree, so the limit check and the slot
  search never disagree.
* Driver URBs: every entry is in exactly one place, its request is completed at
  most once, and the counters account for every URB; a parked request is served;
  a URB keeps addressing the device it was created for.
* Server: the client array holds live connections only; every device has exactly
  one responsible client; disconnecting releases the client's devices and no
  others.
* Forwarder: a URB is fetched, goes to the client that owns the device, at most
  once, and its answer finds the tracking entry.
* Simulation mode: ids are unique; every active device is claimed by the thread that
  plugged it, and a thread clears the slot it looked up; a list misses no device.
* Userspace server: the same ownership and list properties; shutdown terminates
  and leaves no thread behind.
* Its process: a stop request ends it, every way out of `main()` releases what was
  acquired, and nothing is used after it was released.
* Windows client: a command gets the response to its own request, a URB is answered
  at most once, a transfer works on an open device, a lost connection ends the client.
* Capture: one slot per real device, the parsed tables are what the device's
  configuration says, an attach carries all descriptors, and the search on the other
  side finds the one asked for.
* Android client: a connection is torn down and reported once whoever calls
  `disconnect()`; no socket is left open; a poller can be stopped; a disconnect ends
  and a lost connection is noticed; a stop closes the devices.

## 2. Modules

| Module | Models | Built on |
|---|---|---|
| `VusbDeviceTable` | the driver's table of devices | |
| `VusbUrbQueue` | abstract: what a list of pending URBs promises | |
| `VusbDriver` | the whole driver: table, URBs, IOCTL handlers, unload | extends `VusbDeviceTable`; implements `VusbUrbQueue` |
| `VusbServer` | accept loop, client threads, attach, detach, disconnect | extends `VusbDeviceTable` |
| `VusbUrbPath` | forwarder and completion handlers | instantiates `VusbDriver` and `VusbServer` over shared variables |
| `VusbSimulation` | the server without the driver: threads and an unlocked array | |
| `VusbUserspace` | the userspace server | implements `VusbUrbQueue` |
| `VusbUserspaceMain` | the process of the userspace server: main, console, Ctrl+C | |
| `VusbClient` | the Windows client with capture: two threads, one socket | |
| `VusbDescriptors` | a device's descriptors from the real device to GET_DESCRIPTOR | |
| `VusbMobileClient` | the Android client: connection, service, devices, pollers | |
| `MCDescriptors` | the configurations the real devices have in the model | extends `VusbDescriptors` |
| `VusbDriverProofs`, `VusbServerProofs`, `VusbUrbPathProofs`, `VusbUserspaceProofs`, `VusbSimulationProofs`, `VusbUserspaceMainProofs`, `VusbMobileClientProofs` | proofs | extend the modules they are about |
| `VusbWindowsClientProofs` | proofs about `VusbDescriptors` and `VusbClient` | extends both |

Actions have the names of the functions they model; where one function is
several steps (because another thread can run in between), the steps are named
after what the code's comments call them. Definitions introduced by "A faulty
variant" are not part of any specification: they are plausible mistakes in the
operation that follows them, used to see that the properties notice.

**VusbDeviceTable.** `Devices` is indexed by id. A failed allocation or a full
table is the alternative with id 0. `plugs` is a history variable that numbers
the devices ever created, so that a property can distinguish two devices which
had the same id.

**VusbUrbQueue.** The promise both URB lists have in common: a URB is submitted
once, may be handed out and given back, ends once, alone or with others, and the
reported number is the number of pending URBs. `VusbDriver!UrbQueue` maps dequeued
entries (`held`, `fetched`) to `out`; `VusbUserspace!UrbQueue` maps the lists of all
slots, active or not, to one queue, whose number is that of the pairs of a slot and a
place its `PendingUrbCount` counts, and hands nothing out. The URB that a callback submits
while another is completed makes one operation, `EndAndSubmit`. `ImplementsUrbQueue` is the abstract
specification as a property of each.

**VusbDriver.** The default queue is sequential, so IOCTL handlers do not overlap
(`IoctlIdle`); the USB stack, which creates and queues URBs, runs at any time.
`GET_PENDING_URB` is two steps, since it takes `UrbQueueLock` twice when the
caller's buffer is too small and the entry goes back. The only caller passes a
buffer of `VUSB_MAX_PACKET_SIZE`, so a buffer too small for the header does not
occur; too small for the data of an OUT transfer (`large`) does, and stands for a
response buffer that cannot be retrieved too, which takes the same way out. A plug
whose response cannot be written undoes itself within its handler and is left out.
URBs are created for devices that are present: that is what the USB stack sees. The status
`fetched` is the state of a URB after it was copied out: the code keeps no
pointer to its entry. Byte counters, transfer data and descriptors are left out,
and so are GET_VERSION, GET_DEVICE_LIST and GET_STATISTICS, which change nothing.

**VusbServer.** One thread per connection; `phase` is where it stands.
`ForeignDetach` says whether clients may name ids they were not given in a detach
request (the server accepts them). `owner` and `foreign` are history: who plugged
the device that has an id, and whether a client has ever detached a device it does
not track. `OneOwner` and `DisconnectReleases` are claims about the behaviours in
which that has not happened, checked in a run where it may, so that the claims
about the client array hold for all clients. `VusbServerCleanup` never
meets a client: nothing but itself clears `Running`, so `VusbServerRun` returns
only when it could not listen. Simulation mode is `VusbSimulation`. Two things are
taken as the code means them: the IOCTLs are complete when `DeviceIoControl` returns,
although the handle is opened overlapped (`vusb_server.c:126`) and no `OVERLAPPED` is
passed; and the store of `client->Thread` after `CreateThread` (`vusb_server.c:222`,
`vusb_userspace.c:1129`), which can come after the thread has freed the client, is left
out, since nothing reads what it stores in this server and the shutdown of the other
finds the field through a live client only.

**VusbSimulation.** The handlers of `VusbServer` when there is no driver. Every read
or write of `SimDevices` and `NextSimDeviceId` is a step, `++NextSimDeviceId` a load
and a store, since all client threads do this without a lock. Clients are connected at
the start; the client array is in `VusbServer`. `clash` records that two plugs
overlapped, `foreign` that a client detached another's device, `owner` and `stayed`
who plugged a slot and which slots were active since a list began.

**VusbUrbPath.** The driver and the server with the forwarder between them; the
device table is shared. `main()` of the server does not start the forwarder at
present; the model does, as `vusb_server_urb.h` describes. Both handlers of a
completion message are modelled. The one in `vusb_server.c` reads `UrbId` at an
offset that falls into the transfer data; `number` is the id those bytes happen to
spell. `SendToClient` uses the pointer found before the lock was released; when
that client has been freed, what the memory holds is a nondeterministic choice
among the live clients, or a failing `send()`. A URB whose data do not fit the
forwarder's buffer goes back to the tail of the driver's list at every poll
(`PendingUrbTooLarge`); after `MaxRequeues` of these the model goes on re-queueing and
stops counting (`RequeueUncounted`), so that the poll never ends for want of a bound.
A GET_PENDING_URB that waited in the driver's sequential queue for 100 ms is cancelled
too late: the URB it returns is discarded with the buffer (an alternative of
`PendingUrbReturned`). The thread may also fail to start.

**VusbUserspace.** A step is a critical section or an unlocked part another thread
can precede. `SharedRemoteIds` says whether clients number their devices
independently of one another (the bundled clients do). `VusbUsSubmitUrb` looks the device
up without a lock and inserts later, into whatever the slot is by then: the URB goes to
the list of the device that was found, of one created there since, or of a slot that is
inactive, where it counts and stays (`late`) until the next `InitializeDevice` zeroes
the list (`lost`) or a cancellation finds it. `UrbLock` has been deleted then: whoever
enters it may pass, not come back, or crash the process (`UseDeletedLock`). A completion
callback may submit the next URB, as the API allows (`CompleteAndResubmit`); when the
completed URB was the head of the list, `*pUrb = urb->Next` unlinks the new one with it
and it is `dropped`. Endpoint buffers and standard requests do not
touch this state; console, Ctrl+C and capture file are in `VusbUserspaceMain`.

**VusbUserspaceMain.** `main()` from `VusbUsInit` to `VusbUsCleanup`, with every way
it can fail; the console thread; and a thread for each Ctrl+C. `VusbUsStop` is five
steps (clear `Running`, set the event, test, close and reset the socket), because
three kinds of thread run it at once. A connection is a step that changes
nothing here. `timedOut` records that `main()` gave up waiting for the console after
its second, `misused` what was used after it had been deleted or closed. The console
holds its lock from one step to the next, as it prints while it holds `ClientLock`.

**VusbClient.** What the server sends is a sequence of units of 8 bytes, each with
its message and its place in it, because the two threads call `recv()` for
different amounts on the same socket and one may take part of the other's message.
A `recv()` with `MSG_WAITALL` takes its units at once: interleaving within one call
would tear messages further, and no property that holds depends on it. A header is
recognised by its magic, that is, where a message starts. The receive thread reads
the fields of a SUBMIT_URB at the offsets of a structure that begins with a second
header, so the device it works on is any choice, and the URB id of the answer is
left out. Opening a device is two steps (`CreateFileW`, `WinUsb_Initialize`), since
both threads do it without the capture lock. `ctx->Sequence`, which both threads
increment, is not modelled: no receiver looks at it. The receive thread may be absent
from the start: `CreateThread` is not checked, and a thread that gets no buffer returns
and leaves `Connected` set. The interactive loop tests its condition and then waits in
`fgets()` (`typing`), for ever if nobody types.

**VusbDescriptors.** Real devices come and go on the bus while the interactive thread
scans, shows and attaches them and the receive thread opens them. Scanning is the
enumeration of interfaces followed by a loop over the slots that opens each device it
does not know; reading is two calls either of which fails; parsing is a walk over the
configuration that fills the interface table; the attach request carries what
`UsbCaptureGetDescriptors` puts together. Opening is one step here (`VusbClient` takes
it apart). The two loops over descriptors are functions of the number of rounds, with
the body of the loop as an operator. `Configs` is any set of sequences of descriptors;
`MCDescriptors` gives TLC four that differ in what parsing has to get right:
alternate settings, class descriptors, more endpoints than the table holds, an
interface number beyond it. The two searches for a descriptor, `HandleStandardRequest` of the
userspace server and `VusbProcessStandardRequest` of the driver, are operators on what
the attach request carried; neither has a caller at present, and `AnsweredFromStore`
compares the first with a reference definition and the second with the first, for every
type, index and length of a small set. Lengths above 65535 are in it: `wLength` keeps
their lower 16 bits, so the search returns fewer bytes than the driver, which goes by
the length of the transfer; `SameDescriptor` says how many. Descriptors are well formed:
a length of 0, or one too short for its type, does not occur, and a configuration
longer than the buffer of 4096 bytes neither.

**VusbMobileClient.** Threads are the main thread, one coroutine per start, which runs
`connect()`, one receive loop per connection, and one job per attach, detach or reset.
The monitor of the `@Synchronized` methods is kept by `receiveMessage()` while it
waits and by `sendMessageSync()` while it writes (`BeginWrite` to `EndSend`); a write
may go on for ever on a connection that is up, and throws on one that is closed or lost.
The keepalive job, URB completions and interrupt data are one more sender, `Others`.
`disconnect()` is a step for each thing it
does, so its three callers overlap. The socket and its two streams are one variable,
and so are `scope` and the two job fields. `raced` records that a start overlapped
another start or a `disconnect()`, `crowded` the devices whose attaches overlapped;
several properties are about the behaviours without them, and say so. To keep the
instance small nothing new is asked of devices after a race, and a detach is asked
only of a device that is attached or being attached; no start races while a device is
being attached, detached or reset, and `Others` do not send after a race. `onDestroy`, after which the process may end at any time, is left out.

## 3. Runs

Each `.cfg` names its module's constants directly; the configurations of `descriptors`
come from `MCDescriptors`. Ids are numbers whose order matters
(first fit), so symmetry is used only for the real devices of `descriptors`, which are
model values the code tells apart by equality alone, and where only invariants are
checked.

| Run | Bounds | Shows |
|---|---|---|
| `driver` | 2 slots, 3 plugs, 2 URBs, 1 re-queue, 1 parked request | counts agree with table and list, entries in one place, one completion, statistics; implements `VusbUrbQueue` |
| `driver_kept_pending` | 1 slot, 2 plugs, 2 URBs | disagreement with a comment, see below |
| `server` | 2 device slots, 3 plugs, 2 client slots, 3 connections, any id in a detach | the client array is sound whatever clients do; without foreign detaches one owner per device, and disconnect releases |
| `simulation` | 2 slots, 2 threads, 3 plugs, 1 list | unique ids and claimed devices as long as no plugs overlap; complete lists |
| `urb_path` | 1 device slot, 2 plugs, 2 URBs of either size, 2 clients, 2 connections | tracking before sending, sent once, list counted right; every queued URB that fits is fetched unless a `send()` blocks for ever |
| `urb_path_matching` | 1 device slot, 2 URBs | disagreement, see below |
| `userspace` | 2 device slots, 2 creations, 2 URBs and 1 from a callback, 2 clients | client array, ownership, URB lists with late insertions; shutdown terminates; implements `VusbUrbQueue` until a URB is dropped |
| `userspace_main` | 2 Ctrl+C, 2 keys | a stop of the running server ends it, everything is released, locks outlive their users unless the wait timed out |
| `client` | 1 captured device, 2 commands, 2 URBs, lists of at most 1 device | a URB is answered at most once; a lost connection ends the client unless it has no receive thread or its user types nothing |
| `descriptors` | 2 real devices, 2 slots, 2 interfaces, 2 endpoints, 4 configurations, 3 commands, 2 bus events | one slot per device, parsing, complete attach requests, descriptor search and its agreement with the driver |
| `android` | 2 starts, 3 requests, 1 device | one teardown per connection, no socket left, pollers can be stopped, disconnect ends as long as writes return, loss is noticed |
| `android_stop` | 1 start, 3 requests, 1 device | disagreement, see below |

Every module has a `TypeOK` (`SessionTypes` in `VusbClient`). It is a property of the runs `driver`, `server`,
`userspace`, `descriptors` and `android`, where it says more than what kind of value a
variable has: a counter that does not go below zero, an index that stays in the array,
a monitor held only by a thread that reads or writes. In the other modules it documents the
variables.

**Why the bounds suffice for the interesting cases.** A table has to fill up, and an
id has to be reused after an unplug; two slots and three plugs give both. Two clients
and two devices are enough for every conflict of two owners; the third connection of
the `server` run makes a client slot be reused while the other is taken. Two URBs are
enough for a wrong match, for queueing out of order and for a removal at either end of
a list; longer lists are covered by the proofs. One parked request is what the single
forwarder thread can have outstanding. In the client one command and one URB already
tear the stream; the second of each meets what the first left behind, and one device
is enough for two threads to open it. In simulation mode two threads and two slots
give every overlap of two plugs, a plug in the slot an unplug has just cleared, and a
full array. A second Ctrl+C meets the state the first left half changed; two keys let
the console list and then stop. Three commands are scan, info and attach, or two scans
around a device that left and came back. A second start meets the fields the first
connection left, and three requests are a start, an attach and a stop or reset; a
second device would only repeat what the first does, since no state of two devices is
related but through the connection.

**Deadlock** is not checked: every run has bounds on plugs, connections and URBs,
and when they are used up, or when the driver is unloaded or the server has been
cleaned up, the system really stops. `userspace_main` is checked for deadlock, with a
step of its own for the process that has exited.

**Fairness.** `VusbDriver!FairSpec`: a handler that has been entered finishes, and
a thread that created a URB queues it; user mode is not obliged to do anything.
`VusbServer!FairSpec`: a client thread that is not waiting in `recv()` runs on,
because its locks are held for bounded loops and its IOCTLs complete
synchronously; a client need not send or disconnect. `VusbUrbPath!FairSpec`: the
forwarder thread runs on except in `send()`, which has no timeout; its waits end after
100 ms. `UrbFetched` is therefore about the behaviours in which no `send()` blocks for
ever (`[]<>(fpc # "send")`), and about URBs that fit its buffer: the others are never
fetched. `VusbUserspace!FairSpec`: the accept loop runs on (its
`select()` returns after a second, and the waits for threads end after 5 s), and
so do client threads outside `recv()`. `VusbClient!SessionFairSpec`: both threads run on
(transfers have a timeout of 5 s) and the interactive loop tests its condition when it is
back at the prompt; nobody has to type, and nothing is asked of the server. A key press
is what `LossEndsClient` itself asks for: it is about the behaviours in which `fgets()`
returns again and again (`[]<>(mpc # "typing")`) and a receive thread exists, because
without one nobody clears `Connected`. `VusbUserspaceMain!FairSpec`:
every thread is scheduled; `select()` returns after a second and so does the wait for
the console; nobody has to press a key or Ctrl+C. `VusbMobileClient!FairSpec`: some
thread that can take a step does, where a read ends by data, an error or the socket's
timeout of 30 s, and a write to a closed or lost connection ends; a write to one that is
up need not. It says nothing about who gets the monitor, so `DisconnectEnds` cannot rest
on luck. `DisconnectEnds` has two premises: every write returns, and the other senders
come to rest, since a monitor of the JVM is not fair and they could have it again and
again. The first depends on the server: when it stops reading, a thread can stay in
`sendMessageSync()`, `disconnect()` among them, before the `close()` that alone would end
the write. TLC shows this when the premise is dropped. `LossNoticed` needs the second only.
`FairJobsSpec`, used to show that devices stay open, also schedules every coroutine and
lets every write return, so
that the counterexample is not one of a coroutine that never ran. `VusbSimulation` and
`VusbDescriptors` are checked for safety only.

### Disagreements the runs show

Three runs are expected to end in a violation. Each checks one sentence of the
code's own comments or documents (quoted in `findings`):

* `driver_kept_pending`: "URB entry is kept pending until completion", but a
  fetched URB is on no list, so no later completion or cancellation finds it.
* `urb_path_matching`: "Matching URB identifier", but the handler reads the
  field from the transfer data.
* `android_stop`: "Detach all devices", but `disconnect()` clears the stream and the
  set of attached devices under the coroutine that is to detach them, which then leaves
  the device open.

More statements of the same kind are in the modules without a run of their own; each
fails when it is put into a cfg of its module:

* `VusbServer!UnplugsOnlyOwned` ("Unplug all devices owned by this client",
  `vusb_server.c:294`): after a detach by another client and a reuse of the id, the
  loop unplugs a stranger's device.
* `VusbUrbPath!RoutedToOwner` ("Routes URB to correct client via device ID",
  `README.md:264`): between unplug and untrack the old client is still found for a new
  device.
* `VusbUserspace!NoneDropped` ("Add to pending list", `vusb_userspace.c:220`): a URB
  submitted in a completion callback is dropped when the completed URB was the head, and
  `PendingUrbCount` is one too high from then on.
* `VusbClient!ResponsesMatch` ("Sequence number for request/response matching",
  `vusb_protocol.h:120`): a command takes the first bytes of the stream for its
  response, whatever they are.
* `VusbSimulation!UniqueIds` ("Unique device identifier", `vusb_protocol.h:142`): plugs
  that overlap draw the same id or take the same slot.
* `VusbUserspaceMain!StopAlwaysEnds` ("Signal server to stop", `vusb_userspace.h:273`):
  a Ctrl+C before `VusbUsRun` sets `Running` is overwritten and lost.
* `VusbUserspaceMain!ListensWhileRunning` ("Listening for connections...",
  `vusb_userspace.c:1061`): an early stop closes the socket after `Running` was set, and
  the loop spins on a closed socket.
* `VusbUserspaceMain!ConsoleStays` ("Interactive Commands (press key)",
  `vusb_userspace_main.c:80`): the console thread is started before `Running` is set and
  may end at once.
* `VusbUserspaceMain!EventLive` ("Signal handler for graceful shutdown",
  `vusb_userspace_main.c:33`): a Ctrl+C during cleanup sets the event after it was
  closed.
* `VusbDescriptors!AllListed` ("Enumerate all USB devices", `vusb_capture.c:69`): a
  second device with the same vendor and product id gets no slot.
* `VusbDescriptors!AttachAlwaysComplete`: a device the receive thread opened, or whose
  descriptors could not be read, is attached without them.
* `VusbDescriptors!ConfigurationWhole`: the search for a configuration returns its header
  of 9 bytes, never `wTotalLength` bytes.
* `VusbMobileClient!StopEndsConnection`: a stop during `connect()` finds `isRunning`
  false and returns; the connection comes up while the service says it has stopped.
* `VusbMobileClient!RunningMeansConnected`: a connection lost before the start, or an
  attach under way, reports Running leaves the service in Running without one.
* `VusbMobileClient!OneCollector`: after a loss the collector of interrupt data goes on,
  and the next start launches a second one.
* `VusbMobileClient!TrackedWhileConnected`: an attach whose message went out before the
  disconnect puts its device into `attachedDevices` after they were cleared.
* `VusbDriver!TargetIsOriginal` ("Target device", `vusb_driver.h:64`): a pending URB
  changes its target when its device's id is reused.
* `VusbDriver!PluginSuccessMeansDevice`: a failed plug is answered with SUCCESS and
  id 0, since its status is overwritten (`vusb_ioctl.c:105`).
* `VusbDriver!ParkedRequestServed` ("Request will be completed later",
  `vusb_driver.c:342`; under `FairSpec`): nothing takes a request off
  `PendingUrbQueue`. The forwarder's timeout makes up for it (`urb_path`).
* `VusbUserspace!WaitsForClient` ("Wait for client threads",
  `vusb_userspace.c:1150`): the loop reads the slot again without the lock and may
  find NULL there.
* `VusbClient!TransferOnOpenDevice` ("Make sure device is open",
  `vusb_client_urb.c:63`): two threads open one device and the one that fails closes
  the other's handle; or `UsbCaptureCleanup` runs while a transfer outlasts the wait
  of 2 s.
* `VusbUserspace!ThreadsEndBeforeCleanup` ("Wait for client threads",
  `vusb_userspace.c:1150`): a thread in `recv()` outlives the wait of 5 s.
* `VusbUserspace!SubmittedToTarget` ("Target device", `vusb_userspace.h:318`): lookup
  and insertion of `VusbUsSubmitUrb` are not atomic. The URB lands on another device's
  list, or on that of an inactive slot, under a deleted lock.
* `VusbUserspace!CancelledNotFreed` ("Cancel all pending URBs",
  `vusb_userspace.c:76`): they are freed and never reported.
* `VusbUserspace!CompletedByOwner` ("Find device by remote ID",
  `vusb_userspace.c:542`): two clients may use the same remote id.

Seen while modelling, and outside what the modules state: `--max-clients` and
`--max-devices` of the userspace server are read and never used; its capture file gets
a header and no records; the server puts the driver's device id into SUBMIT_URB while
the client looks up its own `LocalId`; completions of OUT transfers report
`ActualLength` 0; the class and vendor branch of `VusbUrbParse` stores
`RequestTypeReservedBits` as `bmRequestType`; a device list is several sends that a
SUBMIT_URB of the forwarder can come between; `BuildDescriptorBuffer` does not compare
`wTotalLength` with its buffer of 4096 bytes; an OUT transfer larger than the forwarder's
buffer is re-queued for ever; a client that does not read blocks the forwarder in
`send()`, and a server that does not read blocks the Android client's `disconnect()`.

What the properties leave out on purpose, so that they hold, is listed with the hazards:
overlapping plugs in simulation mode (`clash`), detaches of foreign devices (`foreign`),
overlapping starts and attaches on Android (`raced`, `crowded`), a wait for the console
that timed out (`timedOut`), URBs inserted late and URBs dropped. Each property fails
without its exemption, and the hazard's note says so.

## 4. Proofs

Eight modules hold theorems. A theorem has the form `Spec => []Inv` (or is an action
property, a refinement, or says what a loop computes) for every value of the constants
that the named assumption of the module allows. The assumptions only say that bounds are natural
numbers, that arrays have at least one slot, that switches are Booleans and, for
`VusbUserspaceMain`, that the names of threads differ.

| Module | Theorems | From |
|---|---|---|
| `VusbDriverProofs` | `DriverTypeCorrect`, `DriverCountMatchesSlots`, `DriverCountMatchesList`, `DriverEntryInOnePlace`, `DriverCompletesOnce`, `DriverStatisticsAgree`, `DriverImplementsUrbQueue` | `TableAssumption`, `DriverAssumption` |
| `VusbServerProofs` | `ServerTypeCorrect`, `ServerArrayHoldsLiveClients`, `ServerOneOwner` | `TableAssumption`, `ServerAssumption` |
| `VusbUrbPathProofs` | `UrbPathSubmittedOnce`, `UrbPathAnswerFindsEntry`, `UrbPathPendingListSound` | `UrbPathAssumption` |
| `VusbUserspaceProofs` | `UserspaceTypeCorrect`, `UserspaceArrayHoldsLiveClients`, `UserspaceOneOwner`, `UserspacePendingListSound`, `UserspaceImplementsUrbQueue` | `UserspaceAssumption` |
| `VusbSimulationProofs` | `SimulationUniqueIds`, `SimulationActiveIsClaimed`, `SimulationListComplete` | `SimulationAssumption` |
| `VusbUserspaceMainProofs` | `MainExitReleasesAll`, `MainLocksLive` | `MainAssumption` |
| `VusbMobileClientProofs` | `MobileTypeCorrect`, `MobileTornDownOnce`, `MobileSocketsClosed`, `MobilePollerCanBeStopped` | `MobileAssumption` |
| `VusbWindowsClientProofs` | `SearchFindsDescriptor`, `ParseKeepsSettings`, `DescriptorsTypeOK`, `OneSlotPerDeviceHolds`, `ParsedAsConfiguredHolds`, `AttachCarriesDescriptorsHolds`, `DriverAgrees`, `AnsweredFromStoreHolds` | `DescriptorAssumption` |
| | `SessionAnsweredOnce`, `SessionTypeOK` | `ClientAssumption` |

In each module `IInv` is the inductive invariant (`SessionInv` for the session of the
Windows client), a theorem `...Inductive` states `Spec => []IInv`, and the others follow
from it. There is one lemma for each kind of
step, and `NextInv` (or the theorem itself) goes through the actions.

**Driver.** `IInv == TypeOK /\ CountMatchesSlots /\ UrbInv`, where `UrbInv` is
`CountMatchesList` and the four parts of `EntryInOnePlace`. None of its parts is
inductive alone. That `DeviceCount` stays in `0..MaxDevices` needs that it counts
the slots (a destroy decrements it). That `PendingUrbCount` stays a natural number
needs that it is the length of the list. That the list has no duplicates needs
that an entry queued from `created` or `held` is not on it (`ListedIffPending`)
and that the handler's entry is the only one held (`HeldByHandler`); that a
created entry is new needs `FreshIds`. `CompletesOnce` follows because every
action that changes an entry requires a status that is not final. `StatisticsAgree`
is inductive together with `IInv`: each step moves at most one URB from one status to
another (`Moves`), and the cardinalities change with it. For the refinement the list
is replaced by the set of pending URBs (`ListedSet`), and each move of a URB is one
operation of `VusbUrbQueue` or none of its business.

**Server.** `ConnInv` adds to the types that sessions are accepted in order and that
the loop index is still 1 before the disconnect loop. `Ownership` splits `OneOwner` into
"what is claimed is present and owned" and "what is present is claimed by its owner",
and adds that no device is tracked twice. The tracking array cannot overflow: when
all entries are used, they hold all ids, among them the one just plugged, which the
thread does not track yet (`FreeEntry`).

**URB path.** The forwarder can rely on what the driver does with its entries, so
`DriverInv` carries `EntryInOnePlace` of the driver into the composed system. The
forwarder's part says that a URB the driver has not handed out (`Early`) was never
sent, has no entry and is not in the thread's hands; a URB is never early again
(`EarlyKept`). So the URB a delivery puts into the thread's hands is new, it is sent
at most once, at most one message with it is on the wire (`WireInv`), and the answer
that unlinks the entry is the only one that needs it.

**Userspace server.** The invariant has a part for each lock: the array of clients,
the shutdown loop, ids and ownership, and the URB lists. Ownership needs that ids are
drawn in order and so never reused, which makes the id of an active device name one
slot. That a session's `DeviceIds` has room for a device it has just created is a
pigeonhole argument: the ids it tracks are those of other active slots (`TrackRoom`).
For the URB lists the invariant says, of inactive slots too, that a list holds pending
URBs only, each on one list and once, and their ids are at most the slot's `NextUrbId`,
which `CleanupDevice` keeps, so that an insertion into a slot that has gone inactive gets
a new one. That only a late URB is on the list of a slot its device has left needs that
cleaning up empties the list. Counts are compared as long as no URB was dropped
(`NoneDropped`), which is never undone. The refinement needs that the counts of all devices
together are the number of pending URBs. This is shown without a sum: the pairs of a
slot and a place on its list correspond one to one to the pending URBs, because every
pending URB is on exactly one list, once.

**Simulation mode.** There is no lock, so the invariant says what each thread may
rely on at each place in its loops. Without overlapping plugs there is one thread
in `VusbServerPluginDevice`, its loaded counter is still current, and the id it is about to
store is larger than every other. For `ActiveIsClaimed`, `Live` leaves out the slot a
plug is still filling in, and `StaleNotOwed` says that an id left behind in a free
slot is nobody's, so that a search by id cannot stop there. `ListComplete` needs that
the devices that stayed are on the list as far as the loop has come; it holds without
any condition.

**Process of the userspace server.** Which resources are open depends on where
`main()` is; the console thread is over, or given up on, once `main()` cleans up.

**Android client.** `TornDownOnce` is about cardinalities: the threads that disconnect
are a finite set that a thread joins exactly when it takes `isRunning`. `SocketInv`
names, for an open socket, who still has to close it. `PollInv` says that an attach
which is alone finds no poller, and the poller it has launched is known by the attach until
it is entered into the map. The last two are conditional, as their properties are,
on starts and attaches that did not overlap. Steps of a send change the monitor and the
place of the sender only (`SendFrame`).

**Windows client, descriptors.** What the two loops compute is proved for every
configuration and every store. The library's induction theorems cannot be used, since
they take an operator; instead a lemma says that a set of natural numbers has a
smallest element, and the first round after which the claim about a loop fails cannot
exist: it holds before the first round, and one round preserves it. That the recursive
function exists is shown in the same way. `SearchState` is the claim about the search:
the index has been decremented once for each descriptor of the type asked for, or the
one asked for has been found. The claim about the parser has two parts. `EntryState`
says that the entry of an interface is its last setting so far, with the endpoints that
came behind it; `CurrentState` says that the endpoint index counts the endpoints since
the interface being filled, which is why it has to be reset. In `IInv`, `CountInv` has
local ids given out in turn, so that a new one is fresh and the free slot exists;
`SlotsInv` has the tables that were parsed, and that an unparsed one is empty;
`ReadInv` says that an open device has been read completely unless that is going on, a
read failed or the receive thread opened it, and `ControlInv` what the interactive
thread may rely on at each place, so that what it sends is complete (`SentInv`).
`DriverAgrees` compares `VusbProcessStandardRequest` with the search for every store
that begins with a device descriptor and every length: the driver answers by itself for
the device descriptor only, which is the first of its type (`FirstFound`).
`AnsweredFromStore` follows from it and from `SearchFindsDescriptor` for every stored
request.

**Windows client, session.** `Waiting` lists the places where a URB that will still be
answered can be: not sent yet, in the stream, in the header the receive thread has read,
or in service. `OnceInv` says that a URB in any of them has no answer and that it is in
one of them only; `StreamInv` that the stream holds the start of a URB at most once,
which taking units from its front and appending a message at its end preserve. However
the two threads tear the stream, a message is recognised by its start, and a start
that was taken is gone.

**Only model-checked.** Liveness (`DisconnectReleases`, `UrbFetched`,
`StopTerminates`, `LossEndsClient`, `StopEnds`, `DisconnectEnds`, `LossNoticed`):
temporal reasoning with fairness and `ENABLED` is beyond the installed prover.

## 5. Not modelled

* Endpoint buffers and the standard requests other than GET_DESCRIPTOR of the userspace
  server: functions of one device that nothing calls.
* `driver/vusb_urb.c` but for the descriptor branch of `VusbUrbParse` and the descriptor
  search: the other branches and `VusbUrbCopyData` move the data of one URB.
  `VusbUrbBuildPendingResponse` and `VusbUrbComplete` have no caller.
* Windows client: connecting, which happens before there is a second thread; the
  basic client, a sequential loop of the same commands; string descriptors. Asynchronous
  transfers have no caller.
* macOS client: the structure of the Android client with its state confined to the main
  actor, which serialises what races on Android. A model would differ in the atomicity
  of steps only.
* User interfaces, the transfers of WinUSB, IOKit and Android's USB host, the installer
  and the manual test program: calls to the operating system with hardly any state.
* Memory: that freed memory is not used is stated where the models can see it
  (`CompletesOnce`, `ArrayHoldsLiveClients`, `WaitsForClient`), not in general.
* Widths of ids (32 bits): they would have to wrap around to matter, after 2^32
  devices or URBs.

## 6. Plan

1. Done: table, driver, server, URB path, userspace server, Windows client with
   capture; proofs for the driver.
2. Done: simulation mode; the process and console of the userspace server; descriptors
   from the real device to the search; the Android client; the abstract URB queue and
   its two implementations.
3. Done: proofs of all safety properties the runs check, and that the driver and the
   userspace server implement `VusbUrbQueue`.
4. Abstract specification of ownership (a device belongs to one session until it is
   released), implemented by both servers.
5. The macOS client, `VusbClient` with connecting, and the basic client, if a property
   asks for them.

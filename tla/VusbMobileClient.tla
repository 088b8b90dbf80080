-------------------------- MODULE VusbMobileClient --------------------------
(***************************************************************************)
(* The Android client: the connection to the server                        *)
(* (network/VusbNetworkClient.kt) and the service that forwards devices    *)
(* over it (service/UsbForwardingService.kt), with the devices it holds    *)
(* open (usb/UsbDeviceManager.kt) and polls (usb/InterruptPoller.kt).      *)
(*                                                                         *)
(* Threads are the main thread (start and stop), a coroutine per start     *)
(* that runs connect(), and a receive loop per connection.  Attach, detach *)
(* and reset are coroutines of their own, here called jobs.  Sending and   *)
(* receiving are @Synchronized: one monitor, which receiveMessage() keeps  *)
(* while it waits for data and sendMessageSync() while it writes.  A read  *)
(* has a timeout, a write has none: it may take for ever on a connection   *)
(* whose server does not read.                                             *)
(*                                                                         *)
(* The three fields socket, inputStream and outputStream are one variable, *)
(* as are scope, receiveJob and keepAliveJob.  The keepalive job, the URB  *)
(* handlers and the collectors of interrupt data only send, which takes    *)
(* the monitor and changes nothing else: one sender, Others, for them all. *)
(***************************************************************************)
EXTENDS Naturals, FiniteSets

CONSTANTS MaxStarts,    \* bound of the model: connections tried
          MaxRequests,  \* bound of the model: starts, stops, attaches, detaches and resets
          Device        \* the USB devices of the phone

ASSUME MobileAssumption == {MaxStarts, MaxRequests} \subseteq Nat

VARIABLES isRunning,     \* VusbNetworkClient.isRunning
          stream,        \* socket and streams: the connection they belong to, 0 for null
          jobs,          \* receiveJob, keepAliveJob, scope: likewise
          cancelled,     \* connections whose jobs have been cancelled
          sockets,       \* connections whose socket is open
          lost,          \* open connections the server has closed
          monitor,       \* who is inside receiveMessage() or sendMessageSync(), or Nobody
          input,         \* the connection it reads from or writes to, 0 for the others
          pc,            \* where each thread is
          serviceState,  \* UsbForwardingService.serviceState
          collector,     \* interruptForwardingJob: the start it belongs to
          collecting,    \* starts whose collector of interrupt data is running
          attached,      \* attachedDevices
          opened,        \* connectedDevices
          polled,        \* pollingJobs: the job that polls a device, 0 for none
          pollers,       \* the polling jobs that are running, by device
          job,           \* the attach, detach and reset coroutines
          starts,        \* history: starts so far
          requests,      \* history: starts, stops, attaches, detaches and resets so far
          ups, callbacks,  \* history: isRunning set; onDisconnected called
          raced,         \* history: a start overlapped another start or a disconnect()
          crowded        \* history: devices whose attaches have overlapped

netVars == <<isRunning, stream, jobs, cancelled, sockets, lost, input, ups, callbacks, raced>>
serviceVars == <<serviceState, collector, collecting, starts>>
deviceVars == <<attached, opened, polled, pollers, job, crowded>>
vars == <<netVars, monitor, pc, serviceVars, deviceVars, requests>>

Starts == 1..MaxStarts
Jobs == 1..MaxRequests

Main == <<"main", 0>>
Starter(s) == <<"starter", s>>
Loop(s) == <<"loop", s>>
Starters == {Starter(s) : s \in Starts}
Loops == {Loop(s) : s \in Starts}
Threads == {Main} \cup Starters \cup Loops
Nobody == <<"nobody", 0>>
Others == <<"others", 0>>
Worker(j) == <<"job", j>>
Holders == Threads \cup {Others} \cup {Worker(j) : j \in Jobs}

Connecting == {"connect", "opening", "opened", "hello", "launch",
               "succeeded", "refused"}
Disconnecting == {"cancel", "bye", "close", "callback"}

NoJob == [op |-> "none", dev |-> {}, at |-> "done"]

Init ==
    /\ isRunning = FALSE
    /\ stream = 0
    /\ jobs = 0
    /\ cancelled = {}
    /\ sockets = {}
    /\ lost = {}
    /\ monitor = Nobody
    /\ input = [x \in Holders |-> 0]
    /\ pc = [t \in Threads |-> "idle"]
    /\ serviceState = "Stopped"
    /\ collector = 0
    /\ collecting = {}
    /\ attached = {}
    /\ opened = {}
    /\ polled = [d \in Device |-> 0]
    /\ pollers = [d \in Device |-> {}]
    /\ job = [j \in Jobs |-> NoJob]
    /\ starts = 0 /\ requests = 0
    /\ ups = 0 /\ callbacks = 0
    /\ raced = FALSE
    /\ crowded = {}

\* The user, the server or a device asks for something.
Requested == requests < MaxRequests /\ requests' = requests + 1

\* Bound of the model: after a race, nothing new is asked of the devices.
DeviceRequested == ~raced /\ Requested

Goto(t, where) == pc' = [pc EXCEPT ![t] = where]

\* The server closes a connection.
ServerCloses(s) ==
    /\ s \in sockets \ lost
    /\ lost' = lost \cup {s}
    /\ UNCHANGED <<isRunning, stream, jobs, cancelled, sockets, input, ups, callbacks, raced,
                   monitor, pc, serviceVars, deviceVars, requests>>

----------------------------------------------------------------------------
(* startForwarding and the coroutine it launches; connect().               *)

\* A thread is in connect() or disconnect(), or a start has not reported yet.
InProgress(t) ==
    \/ pc[t] \in Connecting \cup Disconnecting
    \/ t \in Starters /\ pc[t] \in {"answer", "reading"}

\* History: the start t is made, or connects, while another thread is at it.
NoteRace(t) == raced' = (raced \/ \E x \in Threads \ {t} : InProgress(x))

\* Bound of the model: no start overlaps while a device is being attached,
\* detached or reset.
startForwarding(s) ==
    /\ pc[Main] = "idle"
    /\ Requested
    /\ s = starts + 1
    /\ serviceState # "Running"
    /\ starts' = s
    /\ serviceState' = "Starting"
    /\ Goto(Starter(s), "connect")
    /\ NoteRace(Starter(s))
    /\ raced' => \A j \in Jobs : job[j] = NoJob
    /\ UNCHANGED <<isRunning, stream, jobs, cancelled, sockets, lost, input, ups, callbacks,
                   monitor, collector, collecting, deviceVars>>

connect(s) ==
    /\ pc[Starter(s)] = "connect"
    /\ Goto(Starter(s), IF isRunning THEN "refused" ELSE "opening")
    /\ NoteRace(Starter(s))
    /\ UNCHANGED <<isRunning, stream, jobs, cancelled, sockets, lost, input, ups, callbacks,
                   monitor, serviceVars, deviceVars, requests>>

\* Socket.connect() succeeds and the fields are set; or it throws.
OpenSocket(s) ==
    LET t == Starter(s)
    IN /\ pc[t] = "opening"
       /\ \/ stream' = s /\ sockets' = sockets \cup {s} /\ Goto(t, "opened")
          \/ Goto(t, "disconnect") /\ UNCHANGED <<stream, sockets>>
       /\ UNCHANGED <<isRunning, jobs, cancelled, lost, input, ups, callbacks, raced,
                      monitor, serviceVars, deviceVars, requests>>

SetRunning(s) ==
    /\ pc[Starter(s)] = "opened"
    /\ isRunning' = TRUE
    /\ ups' = ups + 1
    /\ Goto(Starter(s), "hello")
    /\ UNCHANGED <<stream, jobs, cancelled, sockets, lost, input, callbacks, raced,
                   monitor, serviceVars, deviceVars, requests>>

\* sendMessageSync takes the monitor and the stream, and begins to write.
BeginWrite(x) ==
    /\ monitor = Nobody
    /\ stream # 0
    /\ monitor' = x
    /\ input' = [input EXCEPT ![x] = stream]
    /\ UNCHANGED <<isRunning, stream, jobs, cancelled, sockets, lost, ups, callbacks, raced,
                   pc, serviceVars, deviceVars, requests>>

BeginSend(t) == pc[t] \in {"hello", "bye"} /\ BeginWrite(t)

\* The write of x succeeds; or it throws, on a connection that is closed or lost.
\* On any other it may also not return.
Written(x) == monitor = x /\ input[x] \in sockets
WriteThrows(x) == monitor = x /\ input[x] \notin sockets \ lost

\* Without a stream it throws at once, inside the monitor.
NotConnected == monitor = Nobody /\ stream = 0

\* sendMessageSync returns or throws.
EndSend(x) ==
    /\ monitor' = Nobody
    /\ input' = [input EXCEPT ![x] = 0]
    /\ UNCHANGED <<isRunning, stream, jobs, cancelled, sockets, lost, ups, callbacks, raced,
                   serviceState, collector, collecting, starts, requests>>

SendConnect(s) ==
    LET t == Starter(s)
    IN /\ pc[t] = "hello"
       /\ \/ Written(t) /\ Goto(t, "answer")
          \/ (WriteThrows(t) \/ NotConnected) /\ Goto(t, "disconnect")
       /\ EndSend(t)
       /\ UNCHANGED deviceVars

\* A PING, a URB completion or interrupt data; what becomes of it is not looked at.
\* Bound of the model: not after a race.
OthersBegin == ~raced /\ jobs # 0 /\ BeginWrite(Others)
OthersEnd ==
    /\ Written(Others) \/ WriteThrows(Others)
    /\ EndSend(Others)
    /\ UNCHANGED <<pc, deviceVars>>

\* The receive loop's catch: disconnect only while running.
Caught(t) == IF t \in Loops /\ ~isRunning THEN "ended" ELSE "disconnect"

\* receiveMessage() takes the monitor and the stream, or throws without one.
BeginReceive(t) ==
    /\ pc[t] = "answer"
    /\ monitor = Nobody
    /\ \/ /\ stream # 0
          /\ monitor' = t
          /\ input' = [input EXCEPT ![t] = stream]
          /\ Goto(t, "reading")
       \/ /\ stream = 0
          /\ Goto(t, Caught(t))
          /\ UNCHANGED <<monitor, input>>
    /\ UNCHANGED <<isRunning, stream, jobs, cancelled, sockets, lost, ups, callbacks, raced,
                   serviceVars, deviceVars, requests>>

\* A faulty variant: the monitor is not released when the read throws.
EndReceiveLocked(t, where) ==
    /\ pc[t] = "reading"
    /\ monitor' = IF where = "disconnect" THEN monitor ELSE Nobody
    /\ input' = [input EXCEPT ![t] = 0]
    /\ Goto(t, where)
    /\ UNCHANGED <<isRunning, stream, jobs, cancelled, sockets, lost, ups, callbacks, raced, serviceVars>>

EndReceive(t, where) ==
    /\ pc[t] = "reading"
    /\ monitor' = Nobody
    /\ input' = [input EXCEPT ![t] = 0]
    /\ Goto(t, where)
    /\ UNCHANGED <<isRunning, stream, jobs, cancelled, sockets, lost, ups, callbacks, raced, serviceVars>>

\* The connection a thread reads from delivers.
Delivers(t) == input[t] \in sockets \ lost

\* connect(): the CONNECT response; anything else, and the timeout, throws.
ReceiveConnected(s) ==
    /\ \/ Delivers(Starter(s)) /\ EndReceive(Starter(s), "launch")
       \/ EndReceive(Starter(s), "disconnect")
    /\ UNCHANGED <<deviceVars, requests>>

\* Connected: the receive loop and the keepalive start, connect() returns true.
StartJobs(s) ==
    /\ pc[Starter(s)] = "launch"
    /\ jobs' = s
    /\ pc' = [pc EXCEPT ![Starter(s)] = "succeeded", ![Loop(s)] = "test"]
    /\ UNCHANGED <<isRunning, stream, cancelled, sockets, lost, input, ups, callbacks, raced,
                   monitor, serviceVars, deviceVars, requests>>

\* The coroutine of startForwarding goes on: Running, and
\* startInterruptForwarding.
ReportRunning(s) ==
    /\ pc[Starter(s)] = "succeeded"
    /\ serviceState' = "Running"
    /\ collector' = s
    /\ collecting' = collecting \cup {s}
    /\ Goto(Starter(s), "done")
    /\ UNCHANGED <<netVars, monitor, starts, deviceVars, requests>>

\* ... or Error: connect() returned false.
ReportError(s) ==
    /\ pc[Starter(s)] = "refused"
    /\ serviceState' = "Error"
    /\ Goto(Starter(s), "done")
    /\ UNCHANGED <<netVars, monitor, collector, collecting, starts, deviceVars, requests>>

----------------------------------------------------------------------------
(* The receive loop.                                                       *)

\* A faulty variant: the loop tests nothing.
LoopForever(s) ==
    /\ pc[Loop(s)] = "test"
    /\ Goto(Loop(s), "answer")
    /\ UNCHANGED <<netVars, monitor, serviceVars, deviceVars, requests>>

\* while (isActive && isRunning.get())
LoopTest(s) ==
    /\ pc[Loop(s)] = "test"
    /\ Goto(Loop(s), IF s \notin cancelled /\ isRunning THEN "answer" ELSE "ended")
    /\ UNCHANGED <<netVars, monitor, serviceVars, deviceVars, requests>>

\* A PONG, a message that its own coroutine handles, or SocketTimeoutException.
ReceiveOrTimeout(s) ==
    /\ Delivers(Loop(s))
    /\ EndReceive(Loop(s), "test")
    /\ UNCHANGED <<deviceVars, requests>>

\* A faulty variant: an exception only ends the loop.
ReceiveFailsQuietly(s) ==
    /\ \/ Delivers(Loop(s)) /\ EndReceive(Loop(s), "disconnect")
       \/ EndReceive(Loop(s), "ended")
    /\ UNCHANGED <<deviceVars, requests>>

\* DISCONNECT, or an exception: the end of the stream, an invalid magic.
ReceiveFails(s) ==
    /\ \/ Delivers(Loop(s)) /\ EndReceive(Loop(s), "disconnect")
       \/ EndReceive(Loop(s), Caught(Loop(s)))
    /\ UNCHANGED <<deviceVars, requests>>

----------------------------------------------------------------------------
(* disconnect(), called by the main thread, a failing connect() and the    *)
(* receive loop.                                                           *)

\* What the caller does when disconnect() returns.
Return(t) == IF t = Main THEN "stopped" ELSE IF t \in Starters THEN "refused" ELSE "ended"

\* A faulty variant: isRunning.get() in place of getAndSet(false).
TestWithoutClear(t) ==
    /\ pc[t] = "disconnect"
    /\ Goto(t, IF isRunning THEN "cancel" ELSE Return(t))
    /\ UNCHANGED <<netVars, monitor, serviceVars, deviceVars, requests>>

\* if (!isRunning.getAndSet(false)) return
disconnect(t) ==
    /\ pc[t] = "disconnect"
    /\ isRunning' = FALSE
    /\ Goto(t, IF isRunning THEN "cancel" ELSE Return(t))
    /\ UNCHANGED <<stream, jobs, cancelled, sockets, lost, input, ups, callbacks, raced,
                   monitor, serviceVars, deviceVars, requests>>

CancelJobs(t) ==
    /\ pc[t] = "cancel"
    /\ cancelled' = cancelled \cup ({jobs} \ {0})
    /\ Goto(t, "bye")
    /\ UNCHANGED <<isRunning, stream, jobs, sockets, lost, input, ups, callbacks, raced,
                   monitor, serviceVars, deviceVars, requests>>

\* A faulty variant: the exception is not caught, and the caller goes on.
ByeWithoutCatch(t) ==
    /\ pc[t] = "bye"
    /\ \/ Written(t) /\ Goto(t, "close")
       \/ (WriteThrows(t) \/ NotConnected) /\ Goto(t, Return(t))
    /\ EndSend(t)
    /\ UNCHANGED deviceVars

\* The DISCONNECT message, best effort.
SendDisconnect(t) ==
    /\ pc[t] = "bye"
    /\ Written(t) \/ WriteThrows(t) \/ NotConnected
    /\ Goto(t, "close")
    /\ EndSend(t)
    /\ UNCHANGED deviceVars

CloseSocket(t) ==
    /\ pc[t] = "close"
    /\ sockets' = sockets \ {stream}
    /\ lost' = lost \ {stream}
    /\ stream' = 0
    /\ Goto(t, "callback")
    /\ UNCHANGED <<isRunning, jobs, cancelled, input, ups, callbacks, raced,
                   monitor, serviceVars, deviceVars, requests>>

\* onDisconnected: handleDisconnection forgets the attached devices.
handleDisconnection(t) ==
    /\ pc[t] = "callback"
    /\ callbacks' = callbacks + 1
    /\ attached' = {}
    /\ serviceState' = "Stopped"
    /\ Goto(t, Return(t))
    /\ UNCHANGED <<isRunning, stream, jobs, cancelled, sockets, lost, input, ups, raced, monitor,
                   collector, collecting, starts, opened, polled, pollers, job, crowded, requests>>

----------------------------------------------------------------------------
(* stopForwarding.                                                         *)

\* A new coroutine that works on the devices devs, one after the other.
Launch(op, devs, where) ==
    job' = [job EXCEPT ![requests + 1] = [op |-> op, dev |-> devs, at |-> where]]

\* The collector is cancelled, a coroutine that detaches all devices launched,
\* and disconnect() called.
stopForwarding ==
    /\ pc[Main] = "idle"
    /\ Requested
    /\ collecting' = collecting \ {collector}
    /\ collector' = 0
    /\ \/ attached # {} /\ Launch("detach", attached, "check")
       \/ attached = {} /\ UNCHANGED job
    /\ Goto(Main, "disconnect")
    /\ UNCHANGED <<netVars, monitor, serviceState, starts, attached, opened, polled, pollers, crowded>>

ReportStopped ==
    /\ pc[Main] = "stopped"
    /\ serviceState' = "Stopped"
    /\ Goto(Main, "idle")
    /\ UNCHANGED <<netVars, monitor, collector, collecting, starts, deviceVars, requests>>

----------------------------------------------------------------------------
(* Devices: attachDevice, detachDevice, handleReset and the broadcast of   *)
(* an unplugged device.                                                    *)

\* Job j of kind op is at where, and works on device d.
At(j, d, op, where) == job[j].op = op /\ job[j].at = where /\ d \in job[j].dev

\* Next step of a job; a detach goes on with the next device when one is done.
Step(j, where) == job' = [job EXCEPT ![j].at = where]
Leave(j, d) ==
    LET rest == job[j].dev \ {d}
    IN job' = [job EXCEPT ![j] = IF rest = {} THEN NoJob ELSE [@ EXCEPT !.dev = rest, !.at = "check"]]

\* An intent, a click, or auto-attach.
RequestAttach(d) ==
    /\ pc[Main] = "idle"
    /\ DeviceRequested
    /\ Launch("attach", {d}, "open")
    /\ crowded' = IF \E j \in Jobs : job[j].op = "attach" /\ d \in job[j].dev
                  THEN crowded \cup {d} ELSE crowded
    /\ UNCHANGED <<netVars, monitor, pc, serviceVars, attached, opened, polled, pollers>>

\* Bound of the model: no detach of a device that is neither attached nor being
\* attached: it would find the device not attached and return.
RequestDetach(d) ==
    /\ pc[Main] = "idle"
    /\ d \in attached \/ \E j \in Jobs : job[j].op = "attach"
    /\ DeviceRequested
    /\ Launch("detach", {d}, "check")
    /\ UNCHANGED <<netVars, monitor, pc, serviceVars, attached, opened, polled, pollers, crowded>>

\* A RESET message, received by the loop of connection s.
RequestReset(s, d) ==
    /\ Delivers(Loop(s))
    /\ EndReceive(Loop(s), "test")
    /\ DeviceRequested
    /\ Launch("reset", {d}, "shut")
    /\ UNCHANGED <<attached, opened, polled, pollers, crowded>>

\* The device is unplugged: deviceReceiver closes it, UsbReceiver has it detached.
UsbDetached(d) ==
    /\ d \in opened
    /\ opened' = opened \ {d}
    /\ DeviceRequested
    /\ Launch("detach", {d}, "check")
    /\ UNCHANGED <<netVars, monitor, pc, serviceVars, attached, polled, pollers, crowded>>

\* openDevice, unless it is open; it may fail (gone, no permission).
AttachOpen(j, d) ==
    /\ At(j, d, "attach", "open")
    /\ \/ opened' = opened \cup {d} /\ Step(j, "send")
       \/ d \notin opened /\ Leave(j, d) /\ UNCHANGED opened
    /\ UNCHANGED <<attached, polled, pollers, serviceState>>

\* The job begins to send its message ...
JobBeginSend(j, d) ==
    /\ \E op \in {"attach", "detach"} : At(j, d, op, "send")
    /\ BeginWrite(Worker(j))

\* ... the ATTACH message; an exception ends attachDevice.
AttachSend(j, d) ==
    /\ At(j, d, "attach", "send")
    /\ \/ Written(Worker(j)) /\ Step(j, "track")
       \/ (WriteThrows(Worker(j)) \/ NotConnected) /\ Leave(j, d)
    /\ EndSend(Worker(j))
    /\ UNCHANGED <<pc, attached, opened, polled, pollers, crowded>>

\* getDeviceInfo, before it, throws.
AttachNoInfo(j, d) ==
    /\ At(j, d, "attach", "send")
    /\ monitor # Worker(j)
    /\ Leave(j, d)
    /\ UNCHANGED <<attached, opened, polled, pollers, serviceState>>

\* The device is tracked; updateServiceState looks at the state.
AttachTrack(j, d) ==
    /\ At(j, d, "attach", "track")
    /\ attached' = attached \cup {d}
    /\ Step(j, IF serviceState = "Running" THEN "update" ELSE "poll")
    /\ UNCHANGED <<opened, polled, pollers, serviceState>>

\* updateServiceState sets Running again, with the new number of devices, if
\* that is what it saw.
UpdateServiceState(j) ==
    serviceState' = IF job[j].at = "update" THEN "Running" ELSE serviceState

\* startPolling looks whether the device is polled already, or has nothing to
\* poll, ...
AttachPoll(j, d) ==
    /\ \E where \in {"update", "poll"} : At(j, d, "attach", where)
    /\ UpdateServiceState(j)
    /\ \/ polled[d] = 0 /\ Step(j, "launch")
       \/ Leave(j, d)
    /\ UNCHANGED <<attached, opened, polled, pollers>>

\* ... launches pollDevice, which returns at once if the device is closed, ...
PollLaunch(j, d) ==
    /\ At(j, d, "attach", "launch")
    /\ pollers' = [pollers EXCEPT ![d] = IF d \in opened THEN @ \cup {j} ELSE @]
    /\ Step(j, "register")
    /\ UNCHANGED <<attached, opened, polled, serviceState>>

\* ... and enters the job into pollingJobs.
PollRegister(j, d) ==
    /\ At(j, d, "attach", "register")
    /\ polled' = [polled EXCEPT ![d] = j]
    /\ Leave(j, d)
    /\ UNCHANGED <<attached, opened, pollers, serviceState>>

\* A faulty variant: the job is forgotten and not cancelled.
StopWithoutCancel(j, d) ==
    /\ At(j, d, "detach", "check")
    /\ \/ d \in attached /\ Step(j, "send") /\ polled' = [polled EXCEPT ![d] = 0]
       \/ d \notin attached /\ Leave(j, d) /\ UNCHANGED polled
    /\ UNCHANGED <<attached, opened, pollers, serviceState>>

\* detachDevice: an attached device is not polled any more.
DetachStopPolling(j, d) ==
    /\ At(j, d, "detach", "check")
    /\ \/ /\ d \in attached
          /\ polled' = [polled EXCEPT ![d] = 0]
          /\ pollers' = [pollers EXCEPT ![d] = @ \ {polled[d]}]
          /\ Step(j, "send")
       \/ d \notin attached /\ Leave(j, d) /\ UNCHANGED <<polled, pollers>>
    /\ UNCHANGED <<attached, opened, serviceState>>

\* The DETACH message; an exception ends detachDevice.
DetachSend(j, d) ==
    /\ At(j, d, "detach", "send")
    /\ \/ Written(Worker(j)) /\ Step(j, "shut")
       \/ (WriteThrows(Worker(j)) \/ NotConnected) /\ Leave(j, d)
    /\ EndSend(Worker(j))
    /\ UNCHANGED <<pc, attached, opened, polled, pollers, crowded>>

\* closeDevice, by detachDevice and by handleReset.
CloseDevice(j, d) ==
    /\ \E op \in {"detach", "reset"} : At(j, d, op, "shut")
    /\ opened' = opened \ {d}
    /\ Step(j, "closed")
    /\ UNCHANGED <<attached, polled, pollers, serviceState>>

DetachUntrack(j, d) ==
    /\ At(j, d, "detach", "closed")
    /\ attached' = attached \ {d}
    /\ IF serviceState = "Running" THEN Step(j, "update") ELSE Leave(j, d)
    /\ UNCHANGED <<opened, polled, pollers, serviceState>>

DetachUpdate(j, d) ==
    /\ At(j, d, "detach", "update")
    /\ UpdateServiceState(j)
    /\ Leave(j, d)
    /\ UNCHANGED <<attached, opened, polled, pollers>>

\* handleReset opens the device again after 100 ms, if it can.
ResetReopen(j, d) ==
    /\ At(j, d, "reset", "closed")
    /\ opened' = opened \cup {d} \/ UNCHANGED opened
    /\ Leave(j, d)
    /\ UNCHANGED <<attached, polled, pollers, serviceState>>

JobStep(j, d) ==
    \/ JobBeginSend(j, d)
    \/ /\ \/ AttachOpen(j, d) \/ AttachNoInfo(j, d) \/ AttachTrack(j, d) \/ AttachPoll(j, d)
          \/ PollLaunch(j, d) \/ PollRegister(j, d)
          \/ DetachStopPolling(j, d) \/ CloseDevice(j, d) \/ DetachUntrack(j, d)
          \/ DetachUpdate(j, d) \/ ResetReopen(j, d)
       /\ UNCHANGED <<netVars, monitor, pc, collector, collecting, starts, crowded, requests>>

----------------------------------------------------------------------------
Ending(t) == disconnect(t) \/ CancelJobs(t) \/ CloseSocket(t) \/ handleDisconnection(t)
StarterStep(s) ==
    \/ connect(s) \/ OpenSocket(s) \/ SetRunning(s) \/ BeginReceive(Starter(s))
    \/ ReceiveConnected(s) \/ StartJobs(s) \/ ReportRunning(s) \/ ReportError(s)
    \/ BeginSend(Starter(s)) \/ Ending(Starter(s))
LoopStep(s) ==
    \/ LoopTest(s) \/ BeginReceive(Loop(s)) \/ ReceiveOrTimeout(s) \/ ReceiveFails(s)
    \/ BeginSend(Loop(s)) \/ Ending(Loop(s))
MainStep == BeginSend(Main) \/ Ending(Main) \/ ReportStopped
ThreadStep == MainStep \/ \E s \in Starts : StarterStep(s) \/ LoopStep(s)

\* Somebody's sendMessageSync ends.
SendEnds ==
    \/ \E s \in Starts : SendConnect(s)
    \/ \E t \in Threads : SendDisconnect(t)
    \/ \E j \in Jobs, d \in Device : AttachSend(j, d) \/ DetachSend(j, d)
    \/ OthersEnd

\* Somebody is in the middle of a write, and the write can go on for ever.
Writing == monitor # Nobody /\ ~(monitor \in Threads /\ pc[monitor] = "reading")
CanBlock == Writing /\ input[monitor] \in sockets \ lost

Next ==
    \/ \E s \in Starts : ServerCloses(s) \/ startForwarding(s)
    \/ stopForwarding
    \/ ThreadStep \/ SendEnds \/ OthersBegin
    \/ \E d \in Device :
          \/ RequestAttach(d) \/ RequestDetach(d) \/ UsbDetached(d)
          \/ \E s \in Starts : RequestReset(s, d)
          \/ \E j \in Jobs : JobStep(j, d)

Spec == Init /\ [][Next]_vars

(***************************************************************************)
(* The threads are scheduled, a read ends with data, an error or its       *)
(* timeout of 30 s, and a write to a broken connection ends.  A write to a *)
(* healthy one need not.  It is enough that somebody who can take such a   *)
(* step does; nothing is assumed of who gets the monitor, and users, the   *)
(* server and the devices owe nothing.                                     *)
(***************************************************************************)
FairSpec == Spec /\ WF_vars(ThreadStep \/ (~CanBlock /\ SendEnds))

\* Every thread and every coroutine is scheduled, and every write returns.
FairJobsSpec ==
    /\ Spec
    /\ WF_vars(MainStep)
    /\ \A s \in Starts : WF_vars(StarterStep(s)) /\ WF_vars(LoopStep(s))
    /\ \A j \in Jobs : WF_vars(\E d \in Device : JobStep(j, d))
    /\ WF_vars(SendEnds)

----------------------------------------------------------------------------
(* Properties.                                                             *)

\* Types of all variables; a thread that holds the monitor is where it can be
\* inside receiveMessage() or sendMessageSync().
TypeOK ==
    /\ isRunning \in BOOLEAN /\ raced \in BOOLEAN
    /\ {stream, jobs, collector} \subseteq 0..MaxStarts
    /\ cancelled \subseteq Starts /\ sockets \subseteq Starts /\ lost \subseteq Starts
    /\ collecting \subseteq Starts
    /\ monitor \in {Nobody} \cup Holders
    /\ monitor \in Threads => pc[monitor] \in {"reading", "hello", "bye"}
    /\ input \in [Holders -> 0..MaxStarts]
    /\ pc \in [Threads -> Connecting \cup Disconnecting \cup
                          {"idle", "done", "test", "answer", "reading", "ended", "disconnect", "stopped"}]
    /\ serviceState \in {"Stopped", "Starting", "Running", "Error"}
    /\ attached \subseteq Device /\ opened \subseteq Device /\ crowded \subseteq Device
    /\ polled \in [Device -> 0..MaxRequests]
    /\ pollers \in [Device -> SUBSET Jobs]
    /\ job \in [Jobs -> [op: {"none", "attach", "detach", "reset"}, dev: SUBSET Device,
                         at: {"done", "open", "send", "track", "update", "poll", "launch",
                              "register", "check", "shut", "closed"}]]

(***************************************************************************)
(* disconnect() is called by the main thread, a failing connect() and the  *)
(* receive loop at the same time, and still every time the connection came *)
(* up is torn down, and reported to the service, at most once: whoever     *)
(* takes isRunning does it.  Holds however the calls overlap.              *)
(***************************************************************************)
TornDownOnce ==
    callbacks + Cardinality({t \in Threads : pc[t] \in Disconnecting})
              + (IF isRunning THEN 1 ELSE 0) <= ups

\* No thread is in connect() or disconnect() and no start has yet to report.
Settled == \A t \in Threads : ~InProgress(t) /\ pc[t] \notin {"disconnect", "stopped"}

(***************************************************************************)
(* No socket is left behind: once everything has settled without a         *)
(* connection, its socket is closed, although a stop can come at any point *)
(* of connect() and find fields that are not set yet.                      *)
(***************************************************************************)
SocketsClosed == ~raced /\ Settled /\ ~isRunning => sockets = {}

(***************************************************************************)
(* A device whose attaches never overlapped has no poller but the one that *)
(* stopPolling can cancel, or that startPolling is about to enter into     *)
(* pollingJobs (InterruptPoller.kt:103-106; a detach in between misses it).*)
(***************************************************************************)
PollerCanBeStopped ==
    \A d \in Device \ crowded :
        pollers[d] \subseteq {polled[d]} \cup {j \in Jobs : At(j, d, "attach", "register")}

(***************************************************************************)
(* disconnect() ends although it waits for the monitor that the receive    *)
(* loop takes again and again: the loop gives up once isRunning is false.  *)
(* That is so as long as every write returns and the other senders come to *)
(* rest; a write that the server lets stand blocks disconnect() before it  *)
(* closes the socket, which alone could end the write.                     *)
(***************************************************************************)
DisconnectEnds ==
    ([]<>~Writing /\ <>[](monitor # Others)) =>
        ((~raced /\ \E t \in Threads : pc[t] \in Disconnecting)
            ~> (raced \/ \A t \in Threads : pc[t] \notin Disconnecting))

(***************************************************************************)
(* A connection the server has closed is noticed by the receive loop and   *)
(* torn down, whoever is writing to it, unless the other senders keep the  *)
(* monitor from the loop.                                                  *)
(***************************************************************************)
LossNoticed ==
    <>[](monitor # Others) => ((~raced /\ isRunning /\ stream \in lost) ~> (raced \/ ~isRunning))

(***************************************************************************)
(* UsbForwardingService.kt:229 "Detach all devices": a device that is      *)
(* attached when the service is stopped is closed in the end.              *)
(***************************************************************************)
StopClosesDevices ==
    \A d \in Device :
        (pc[Main] = "disconnect" /\ d \in attached /\ \E j \in Jobs : At(j, d, "detach", "check"))
            ~> d \notin opened

(***************************************************************************)
(* The following are stated and not claimed; the README says how each of   *)
(* them fails.  "Stop the forwarding service" ends the connection, ...     *)
(***************************************************************************)
StopEndsConnection == [][ReportStopped => stream' = 0]_vars

\* ... Running means that there is a connection, ...
RunningMeansConnected == Settled /\ serviceState = "Running" => isRunning

\* ... interrupt data has one collector, ...
OneCollector == Cardinality(collecting) <= 1

\* ... and no device is tracked without a connection.
TrackedWhileConnected == Settled /\ ~isRunning /\ (\A j \in Jobs : job[j] = NoJob) => attached = {}

=============================================================================

----------------------- MODULE VusbMobileClientProofs -----------------------
(***************************************************************************)
(* Proofs about VusbMobileClient, for any number of starts, requests and   *)
(* devices: teardown happens once, no socket is left behind, and a poller  *)
(* can be stopped.                                                         *)
(***************************************************************************)
EXTENDS VusbMobileClient, FiniteSetTheorems, TLAPS

Places == Connecting \cup Disconnecting \cup
          {"idle", "done", "test", "answer", "reading", "ended", "disconnect", "stopped"}

\* The places of a starter before it launches its receive loop.
Early == {"idle", "connect", "opening", "opened", "hello", "answer", "reading", "launch"}

\* Threads that have not been started are idle.
Fresh ==
    \A s \in Starts : /\ s > starts => pc[Starter(s)] = "idle"
                      /\ pc[Starter(s)] \in Early => pc[Loop(s)] = "idle"

\* Where a thread can be inside receiveMessage() or sendMessageSync().
Inside == {"reading", "hello", "bye"}

\* Only a thread that is there holds the monitor.
MonitorHeld ==
    /\ monitor \in {Nobody} \cup Holders
    /\ monitor \in Threads => pc[monitor] \in Inside

NetTypes ==
    /\ stream \in 0..MaxStarts /\ jobs \in 0..MaxStarts
    /\ cancelled \subseteq Starts /\ sockets \subseteq Starts /\ lost \subseteq Starts
    /\ input \in [Holders -> 0..MaxStarts]

ThreadTypes ==
    /\ pc \in [Threads -> Places]
    /\ starts \in 0..MaxStarts
    /\ MonitorHeld
    /\ Fresh

FlagTypes == isRunning \in BOOLEAN /\ raced \in BOOLEAN

ServiceTypes ==
    /\ serviceState \in {"Stopped", "Starting", "Running", "Error"}
    /\ collector \in 0..MaxStarts /\ collecting \subseteq Starts

JobType == [op: {"none", "attach", "detach", "reset"}, dev: SUBSET Device,
            at: {"done", "open", "send", "track", "update", "poll", "launch", "register",
                 "check", "shut", "closed"}]

DeviceTypes ==
    /\ attached \subseteq Device /\ opened \subseteq Device /\ crowded \subseteq Device
    /\ polled \in [Device -> 0..MaxRequests]
    /\ pollers \in [Device -> SUBSET Jobs]
    /\ job \in [Jobs -> JobType]
    /\ requests \in 0..MaxRequests

Types == FlagTypes /\ NetTypes /\ ThreadTypes /\ ServiceTypes /\ DeviceTypes

\* The threads that are tearing a connection down.
Closers == {t \in Threads : pc[t] \in Disconnecting}

\* As many teardowns, done and under way, as times isRunning was taken.
TeardownInv ==
    /\ ups \in Nat /\ callbacks \in Nat
    /\ IsFiniteSet(Closers)
    /\ TornDownOnce

\* A socket that is open is the one of the field, and somebody has yet to close
\* it; a thread that is about to open one is alone.
SocketInv ==
    ~raced =>
        /\ sockets \subseteq {stream}
        /\ sockets # {} => \/ isRunning
                           \/ \E t \in Threads : pc[t] \in {"cancel", "bye", "close"}
                           \/ \E s \in Starts : pc[Starter(s)] = "opened"
        /\ \A s \in Starts : pc[Starter(s)] \in {"opening", "opened"} =>
              /\ ~isRunning
              /\ \A t \in Threads : pc[t] \notin {"cancel", "bye", "close"}
              /\ \A x \in Starts : pc[Starter(x)] \in {"opening", "opened"} => x = s
              /\ pc[Starter(s)] = "opening" => sockets = {}

\* An attach that is about to launch a poller, or has launched it.
Launching(j, d) == \E where \in {"launch", "register"} : At(j, d, "attach", where)

\* The pollers of a device that are known: entered, or about to be.
Known(d) == {polled[d]} \cup {j \in Jobs : At(j, d, "attach", "register")}

\* The attach of a device that is not crowded is alone, and nobody else polls
\* the device when it is about to.
PollInv ==
    /\ \A j \in Jobs : j > requests => job[j].op = "none"
    /\ \A j \in Jobs : job[j].op = "attach" => \E d \in Device : job[j].dev = {d}
    /\ \A d \in Device \ crowded :
          /\ \A j, k \in Jobs : /\ job[j].op = "attach" /\ d \in job[j].dev
                                /\ job[k].op = "attach" /\ d \in job[k].dev
                                => j = k
          /\ \A j \in Jobs : Launching(j, d) => polled[d] = 0
          /\ pollers[d] \subseteq Known(d)

IInv == Types /\ TeardownInv /\ SocketInv /\ PollInv

----------------------------------------------------------------------------
(* Steps by what they do to the threads.                                   *)

\* Requests that only launch a coroutine, and the steps of coroutines.
DeviceStep ==
    \E d \in Device : \/ RequestAttach(d) \/ RequestDetach(d) \/ UsbDetached(d)
                      \/ \E j \in Jobs : JobStep(j, d)

\* A sendMessageSync begins or ends.
SendStep ==
    \/ SendEnds \/ OthersBegin
    \/ \E t \in Threads : BeginSend(t)
    \/ \E j \in Jobs, d \in Device : JobBeginSend(j, d)

\* It changes the monitor, and where its caller is.
LEMMA SendFrame ==
    ASSUME SendStep
    PROVE  /\ UNCHANGED <<isRunning, stream, jobs, cancelled, sockets, lost, ups, callbacks, raced,
                          serviceVars, requests, attached, opened, polled, pollers, crowded>>
           /\ \E x : input' = [input EXCEPT ![x] = stream] \/ input' = [input EXCEPT ![x] = 0]
<1>1. ASSUME NEW x, BeginWrite(x)
      PROVE  /\ UNCHANGED <<isRunning, stream, jobs, cancelled, sockets, lost, ups, callbacks, raced,
                            serviceVars, requests, attached, opened, polled, pollers, crowded>>
             /\ input' = [input EXCEPT ![x] = stream]
  BY <1>1 DEF BeginWrite, deviceVars
<1>2. ASSUME NEW x, EndSend(x)
      PROVE  /\ UNCHANGED <<isRunning, stream, jobs, cancelled, sockets, lost, ups, callbacks, raced,
                            serviceVars, requests>>
             /\ input' = [input EXCEPT ![x] = 0]
  BY <1>2 DEF EndSend, serviceVars
<1>3. CASE SendEnds
  <2>1. \E x : EndSend(x)
    BY <1>3 DEF SendEnds, SendConnect, SendDisconnect, AttachSend, DetachSend, OthersEnd
  <2>2. UNCHANGED <<attached, opened, polled, pollers, crowded>>
    BY <1>3 DEF SendEnds, SendConnect, SendDisconnect, AttachSend, DetachSend, OthersEnd, deviceVars
  <2>. QED
    BY <1>2, <2>1, <2>2
<1>4. CASE ~SendEnds
  <2>1. \E x : BeginWrite(x)
    BY <1>4 DEF SendStep, OthersBegin, BeginSend, JobBeginSend
  <2>. QED
    BY <1>1, <2>1
<1>. QED
  BY <1>3, <1>4

\* A coroutine that works or sends.
JobWork(j, d) == JobStep(j, d) \/ AttachSend(j, d) \/ DetachSend(j, d)

\* The names of the threads are different.
LEMMA ThreadNames ==
    /\ Main \in Threads /\ Main \notin Starters /\ Main \notin Loops /\ Nobody \notin Threads
    /\ \A s \in Starts : /\ Starter(s) \in Threads /\ Starter(s) \in Starters /\ Starter(s) \notin Loops
                         /\ Loop(s) \in Threads /\ Loop(s) \in Loops /\ Loop(s) \notin Starters
    /\ \A s, x \in Starts : /\ Starter(s) # Loop(x) /\ Starter(s) # Main /\ Loop(s) # Main
                            /\ Starter(s) = Starter(x) => s = x
                            /\ Loop(s) = Loop(x) => s = x
    /\ \A t \in Threads : t = Main \/ t \in Starters \/ t \in Loops
    /\ \A t \in Starters : \E s \in Starts : t = Starter(s)
    /\ Others \notin Threads /\ \A j : Worker(j) \notin Threads
BY DEF Main, Starter, Loop, Starters, Loops, Threads, Nobody, Others, Worker

\* Nothing disconnect() returns to is a place of an early starter.
LEMMA ReturnPlaces ==
    ASSUME NEW t \in Threads
    PROVE  /\ Return(t) \in {"stopped", "refused", "ended"}
           /\ t = Main => Return(t) = "stopped"
BY ThreadNames DEF Return

----------------------------------------------------------------------------
(* Types.                                                                  *)

\* The sends among the steps of the threads.
LEMMA SendSteps ==
    /\ \A t \in Threads : BeginSend(t) => SendStep
    /\ SendEnds \/ OthersBegin => SendStep
    /\ \A s \in Starts : BeginSend(Starter(s)) \/ BeginSend(Loop(s)) => SendStep
    /\ BeginSend(Main) => SendStep
BY ThreadNames DEF SendStep

\* The flags stay flags.
LEMMA FlagStep == ASSUME FlagTypes, Next PROVE FlagTypes'
<1>1. CASE UNCHANGED <<isRunning, raced>>
  BY <1>1 DEF FlagTypes
<1>2. ASSUME NEW s \in Starts, startForwarding(s) \/ connect(s) PROVE FlagTypes'
  <2>1. isRunning' = isRunning /\ NoteRace(Starter(s))
    BY <1>2 DEF startForwarding, connect
  <2>. QED
    BY <2>1 DEF NoteRace, FlagTypes
<1>3. ASSUME NEW s \in Starts, \/ SetRunning(s) \/ ServerCloses(s) \/ OpenSocket(s)
                               \/ StartJobs(s) \/ ReportRunning(s) \/ ReportError(s) \/ LoopTest(s)
      PROVE  FlagTypes'
  BY <1>1, <1>3 DEF SetRunning, ServerCloses, OpenSocket, StartJobs, ReportRunning,
                    ReportError, LoopTest, netVars, FlagTypes
<1>4. ASSUME NEW t \in Threads, BeginReceive(t) \/ Ending(t) \/ \E w : EndReceive(t, w) PROVE FlagTypes'
  BY <1>1, <1>4 DEF BeginReceive, Ending, EndReceive, disconnect, CancelJobs, CloseSocket,
                    handleDisconnection, netVars, FlagTypes
<1>5. CASE stopForwarding \/ ReportStopped \/ (DeviceStep /\ ~SendStep)
  BY <1>1, <1>5 DEF stopForwarding, ReportStopped, DeviceStep, RequestAttach, RequestDetach, UsbDetached,
                    JobStep, SendStep, netVars
<1>6. CASE SendStep
  BY <1>1, <1>6, SendFrame
<1>. QED
  BY <1>2, <1>3, <1>4, <1>5, <1>6, ThreadNames, SendSteps
     DEF Next, ThreadStep, MainStep, StarterStep, LoopStep, DeviceStep, ReceiveConnected,
         ReceiveOrTimeout, ReceiveFails, RequestReset

\* The fields of the connection keep their types.
LEMMA NetStep == ASSUME Types, Next PROVE NetTypes'
<1>0. /\ NetTypes /\ 0 \in 0..MaxStarts /\ \A s \in Starts : s \in 0..MaxStarts
  BY MobileAssumption DEF Types, Starts
<1>00. \A x \in 0..MaxStarts : x # 0 => x \in Starts
  BY MobileAssumption DEF Starts
<1>1. CASE UNCHANGED netVars
  BY <1>0, <1>1 DEF NetTypes, netVars
<1>2. ASSUME NEW s \in Starts, \/ ServerCloses(s) \/ startForwarding(s) \/ connect(s) \/ OpenSocket(s)
                               \/ SetRunning(s) \/ StartJobs(s)
      PROVE  NetTypes'
  BY <1>0, <1>2 DEF NetTypes, ServerCloses, startForwarding, connect, OpenSocket, SetRunning, StartJobs
<1>3. ASSUME NEW t \in Threads, \/ BeginReceive(t) \/ disconnect(t) \/ CancelJobs(t) \/ CloseSocket(t)
                                \/ handleDisconnection(t) \/ \E w : EndReceive(t, w)
      PROVE  NetTypes'
  BY <1>0, <1>00, <1>3
     DEF NetTypes, BeginReceive, disconnect, CancelJobs, CloseSocket, handleDisconnection, EndReceive
<1>4. CASE SendStep
  BY <1>0, <1>4, SendFrame DEF NetTypes
<1>5. ASSUME NEW j \in Jobs, NEW d \in Device, JobStep(j, d) PROVE NetTypes'
  BY <1>1, <1>4, <1>5 DEF JobStep, SendStep
<1>. QED
  BY <1>1, <1>2, <1>3, <1>4, <1>5, ThreadNames, SendSteps
     DEF Next, stopForwarding, ThreadStep, MainStep, StarterStep, LoopStep, Ending,
         ReceiveConnected, ReportRunning, ReportError, LoopTest, ReceiveOrTimeout, ReceiveFails,
         ReportStopped, RequestAttach, RequestDetach, RequestReset, UsbDetached

\* A thread that is not early moves on, and not back into receiveMessage().
LEMMA ThreadMove ==
    ASSUME Types, NEW t \in Threads, NEW w \in Places, Goto(t, w), UNCHANGED starts,
           \/ UNCHANGED monitor /\ pc[t] \notin Inside
           \/ monitor' = Nobody,
           t \in Starters /\ w \in Early => pc[t] \in Early,
           \A s \in Starts : t = Loop(s) => pc[t] # "idle",
           \A s \in Starts : t = Starter(s) => pc[t] # "idle"
    PROVE  ThreadTypes'
<1>0. /\ pc \in [Threads -> Places] /\ starts \in 0..MaxStarts /\ MonitorHeld /\ Fresh
  BY DEF Types, ThreadTypes
<1>1. pc' \in [Threads -> Places] /\ pc'[t] = w /\ \A x \in Threads \ {t} : pc'[x] = pc[x]
  BY <1>0 DEF Goto
<1>2. MonitorHeld'
  BY <1>0, <1>1, ThreadNames DEF MonitorHeld
<1>3. Fresh'
  BY <1>0, <1>1, ThreadNames DEF Fresh
<1>. QED
  BY <1>0, <1>1, <1>2, <1>3 DEF ThreadTypes

\* Threads stay where they can be.
LEMMA ThreadsStep == ASSUME Types, Next PROVE ThreadTypes'
<1>0. /\ pc \in [Threads -> Places] /\ starts \in 0..MaxStarts /\ MonitorHeld /\ Fresh
  BY DEF Types, ThreadTypes
<1>1. CASE UNCHANGED <<pc, monitor, starts>>
  BY <1>0, <1>1 DEF ThreadTypes, MonitorHeld, Fresh
<1>2. ASSUME NEW s \in Starts, startForwarding(s) PROVE ThreadTypes'
  <2>1. /\ s = starts + 1 /\ starts' = s /\ monitor' = monitor /\ pc[Starter(s)] = "idle"
        /\ pc'[Starter(s)] = "connect" /\ pc' \in [Threads -> Places] /\ starts' \in 0..MaxStarts
        /\ \A x \in Threads \ {Starter(s)} : pc'[x] = pc[x]
    BY <1>0, <1>2, ThreadNames, MobileAssumption
       DEF startForwarding, Goto, Fresh, Starts, Places, Connecting
  <2>2. MonitorHeld'
    BY <1>0, <2>1, ThreadNames DEF MonitorHeld, Inside
  <2>3. \A x \in Starts : x > starts' => x > starts /\ x # s
    BY <1>0, <2>1 DEF Starts
  <2>4. Fresh'
    BY <1>0, <2>1, <2>3, ThreadNames DEF Fresh, Early
  <2>. QED
    BY <2>1, <2>2, <2>4 DEF ThreadTypes
<1>3. ASSUME NEW s \in Starts, StartJobs(s) PROVE ThreadTypes'
  <2>1. /\ pc[Starter(s)] = "launch" /\ starts' = starts /\ monitor' = monitor
        /\ pc'[Starter(s)] = "succeeded" /\ pc'[Loop(s)] = "test" /\ pc[Loop(s)] = "idle"
        /\ pc' \in [Threads -> Places]
        /\ \A x \in Threads \ {Starter(s), Loop(s)} : pc'[x] = pc[x]
    BY <1>0, <1>3, ThreadNames DEF StartJobs, serviceVars, Fresh, Early, Places, Connecting
  <2>2. MonitorHeld'
    BY <1>0, <2>1, ThreadNames DEF MonitorHeld, Inside
  <2>3. Fresh'
    BY <1>0, <2>1, ThreadNames DEF Fresh, Early
  <2>. QED
    BY <1>0, <2>1, <2>2, <2>3 DEF ThreadTypes
<1>4. ASSUME NEW s \in Starts, \/ connect(s) \/ OpenSocket(s) \/ SetRunning(s) \/ SendConnect(s)
                               \/ ReceiveConnected(s) \/ ReportRunning(s) \/ ReportError(s)
      PROVE  ThreadTypes'
  <2> DEFINE t == Starter(s)
  <2>1. \E w \in Places : /\ Goto(t, w) /\ UNCHANGED starts
                          /\ (UNCHANGED monitor /\ pc[t] \notin Inside) \/ monitor' = Nobody
                          /\ w \in Early => pc[t] \in Early
                          /\ pc[t] # "idle"
    BY <1>4 DEF connect, OpenSocket, SetRunning, SendConnect, ReceiveConnected, EndReceive, EndSend,
                ReportRunning, ReportError, serviceVars, Places, Early, Connecting, Disconnecting, Inside
  <2>2. t \in Threads /\ \A x \in Starts : t # Loop(x)
    BY ThreadNames
  <2> HIDE DEF t
  <2>. QED
    BY <2>1, <2>2, ThreadMove
<1>5. ASSUME NEW t \in Starters \cup Loops, BeginReceive(t) PROVE ThreadTypes'
  <2>0. t \in Threads /\ pc[t] = "answer" /\ starts' = starts
    BY <1>5 DEF BeginReceive, serviceVars, Threads
  <2>1. CASE stream # 0
    <3>1. /\ monitor' = t /\ pc'[t] = "reading"
          /\ pc' \in [Threads -> Places] /\ \A x \in Threads \ {t} : pc'[x] = pc[x]
      BY <1>0, <1>5, <2>0, <2>1 DEF BeginReceive, Goto, Places
    <3>2. MonitorHeld' /\ Fresh'
      BY <1>0, <2>0, <3>1, ThreadNames DEF MonitorHeld, Fresh, Early, Inside, Holders
    <3>. QED
      BY <1>0, <2>0, <3>1, <3>2 DEF ThreadTypes
  <2>2. CASE stream = 0
    <3>1. /\ Goto(t, Caught(t)) /\ monitor' = monitor /\ Caught(t) \in Places /\ Caught(t) \notin Early
      BY <1>5, <2>2 DEF BeginReceive, Caught, Places, Early
    <3>. QED
      BY <2>0, <3>1, ThreadMove DEF Inside
  <2>. QED
    BY <2>1, <2>2
<1>6. ASSUME NEW t \in Threads, Ending(t) \/ SendDisconnect(t) PROVE ThreadTypes'
  <2>1. \E w \in Places : /\ Goto(t, w) /\ UNCHANGED starts
                          /\ (UNCHANGED monitor /\ pc[t] \notin Inside) \/ monitor' = Nobody
                          /\ w \notin Early /\ pc[t] # "idle"
    BY <1>6, ReturnPlaces DEF Ending, disconnect, CancelJobs, SendDisconnect, EndSend, CloseSocket,
            handleDisconnection, serviceVars, Places, Early, Connecting, Disconnecting, Inside
  <2>. QED
    BY <2>1, ThreadMove
<1>7. CASE ReportStopped \/ stopForwarding
  <2>1. \E w \in Places : Goto(Main, w) /\ UNCHANGED <<starts, monitor>> /\ pc[Main] \notin Inside
    BY <1>7 DEF ReportStopped, stopForwarding, Places, Inside
  <2>. QED
    BY <2>1, ThreadMove, ThreadNames
<1>8. ASSUME NEW s \in Starts, \/ LoopTest(s) \/ ReceiveOrTimeout(s) \/ ReceiveFails(s)
                               \/ \E d \in Device : RequestReset(s, d)
      PROVE  ThreadTypes'
  <2>1. \E w \in Places : /\ Goto(Loop(s), w) /\ UNCHANGED starts
                          /\ (UNCHANGED monitor /\ pc[Loop(s)] \notin Inside) \/ monitor' = Nobody
                          /\ pc[Loop(s)] # "idle"
    BY <1>8 DEF LoopTest, ReceiveOrTimeout, ReceiveFails, RequestReset, EndReceive, Caught, serviceVars,
                Places, Connecting, Inside
  <2>2. Loop(s) \in Threads /\ Loop(s) \notin Starters /\ \A x \in Starts : Loop(s) # Starter(x)
    BY ThreadNames
  <2>. QED
    BY <2>1, <2>2, ThreadMove
<1>9. ASSUME NEW s \in Starts, ServerCloses(s) PROVE ThreadTypes'
  BY <1>1, <1>9 DEF ServerCloses, serviceVars
<1>10. ASSUME NEW x \in Holders, BeginWrite(x), x \in Threads => pc[x] \in Inside PROVE ThreadTypes'
  <2>1. monitor' = x /\ UNCHANGED <<pc, starts>>
    BY <1>10 DEF BeginWrite, serviceVars
  <2>. QED
    BY <1>0, <1>10, <2>1 DEF ThreadTypes, MonitorHeld, Fresh
<1>11. ASSUME NEW t \in Threads, BeginSend(t) PROVE ThreadTypes'
  BY <1>10, <1>11 DEF BeginSend, Inside, Holders
<1>12. ASSUME NEW j \in Jobs, NEW d \in Device, JobBeginSend(j, d) PROVE ThreadTypes'
  BY <1>10, <1>12, ThreadNames DEF JobBeginSend, Holders
<1>13. CASE OthersBegin
  BY <1>10, <1>13, ThreadNames DEF OthersBegin, Holders
<1>14. CASE OthersEnd \/ \E j \in Jobs, d \in Device : AttachSend(j, d) \/ DetachSend(j, d)
  <2>1. monitor' = Nobody /\ UNCHANGED <<pc, starts>>
    BY <1>14 DEF OthersEnd, AttachSend, DetachSend, EndSend
  <2>. QED
    BY <1>0, <2>1, ThreadNames DEF ThreadTypes, MonitorHeld, Fresh
<1>15. CASE SendEnds
  BY <1>4, <1>6, <1>14, <1>15 DEF SendEnds
<1>16. CASE DeviceStep
  BY <1>1, <1>12, <1>16 DEF DeviceStep, RequestAttach, RequestDetach, UsbDetached, JobStep, serviceVars
<1>. QED
  BY <1>2, <1>3, <1>4, <1>5, <1>6, <1>7, <1>8, <1>9, <1>11, <1>13, <1>15, <1>16, ThreadNames
     DEF Next, ThreadStep, MainStep, StarterStep, LoopStep, DeviceStep

\* The state of the service keeps its type.
LEMMA ServiceStep == ASSUME Types, Next PROVE ServiceTypes'
<1>0. ServiceTypes /\ 0 \in 0..MaxStarts /\ \A s \in Starts : s \in 0..MaxStarts
  BY MobileAssumption DEF Types, Starts
<1>1. CASE UNCHANGED serviceVars
  BY <1>0, <1>1 DEF ServiceTypes, serviceVars
<1>2. ASSUME NEW s \in Starts, startForwarding(s) \/ ReportRunning(s) \/ ReportError(s)
      PROVE  ServiceTypes'
  BY <1>0, <1>2 DEF ServiceTypes, startForwarding, ReportRunning, ReportError
<1>3. CASE stopForwarding \/ ReportStopped \/ \E t \in Threads : handleDisconnection(t)
  BY <1>0, <1>3 DEF ServiceTypes, stopForwarding, ReportStopped, handleDisconnection
<1>4. ASSUME NEW d \in Device, NEW j \in Jobs, JobStep(j, d) PROVE ServiceTypes'
  <2>1. CASE JobBeginSend(j, d)
    BY <1>1, <2>1, SendFrame DEF SendStep
  <2>. QED
    BY <1>0, <1>4, <2>1 DEF ServiceTypes, JobStep, AttachOpen, AttachNoInfo, AttachTrack, AttachPoll,
       PollLaunch, PollRegister, DetachStopPolling, CloseDevice, DetachUntrack, DetachUpdate, ResetReopen,
       UpdateServiceState
<1>5. ASSUME NEW t \in Threads, \/ disconnect(t) \/ CancelJobs(t) \/ CloseSocket(t)
                                \/ BeginReceive(t) \/ \E w : EndReceive(t, w)
      PROVE  ServiceTypes'
  BY <1>1, <1>5 DEF disconnect, CancelJobs, CloseSocket, BeginReceive, EndReceive
<1>6. ASSUME NEW s \in Starts, \/ ServerCloses(s) \/ connect(s) \/ OpenSocket(s) \/ SetRunning(s)
                               \/ StartJobs(s) \/ LoopTest(s)
      PROVE  ServiceTypes'
  BY <1>1, <1>6 DEF ServerCloses, connect, OpenSocket, SetRunning, StartJobs, LoopTest
<1>7. ASSUME NEW d \in Device, RequestAttach(d) \/ RequestDetach(d) \/ UsbDetached(d) PROVE ServiceTypes'
  BY <1>1, <1>7 DEF RequestAttach, RequestDetach, UsbDetached
<1>8. CASE SendStep
  BY <1>1, <1>8, SendFrame
<1>. QED
  BY <1>2, <1>3, <1>4, <1>5, <1>6, <1>7, <1>8, ThreadNames, SendSteps
     DEF Next, ThreadStep, MainStep, StarterStep, LoopStep, Ending, ReceiveConnected, ReceiveOrTimeout,
         ReceiveFails, RequestReset

----------------------------------------------------------------------------
(* Coroutines.                                                             *)

\* A job goes to its next step.
LEMMA StepFacts ==
    ASSUME job \in [Jobs -> JobType], NEW j \in Jobs, Step(j, "send") \/ Step(j, "track") \/ Step(j, "update")
               \/ Step(j, "poll") \/ Step(j, "launch") \/ Step(j, "register") \/ Step(j, "shut")
               \/ Step(j, "closed")
    PROVE  /\ job' \in [Jobs -> JobType] /\ \A k \in Jobs \ {j} : job'[k] = job[k]
           /\ job'[j].op = job[j].op /\ job'[j].dev = job[j].dev
BY DEF Step, JobType

\* A job is done with a device.
LEMMA LeaveFacts ==
    ASSUME job \in [Jobs -> JobType], NEW j \in Jobs, NEW d \in Device, Leave(j, d)
    PROVE  /\ job' \in [Jobs -> JobType] /\ \A k \in Jobs \ {j} : job'[k] = job[k]
           /\ job'[j].dev = job[j].dev \ {d}
           /\ job[j].dev = {d} => job'[j].op = "none"
           /\ job'[j].op = "none" \/ job'[j].op = job[j].op
           /\ job'[j].at \notin {"launch", "register"}
<1>1. CASE job[j].dev \ {d} = {} /\ job' = [job EXCEPT ![j] = NoJob]
  BY <1>1 DEF NoJob, JobType
<1>2. CASE /\ job[j].dev \ {d} # {}
           /\ job' = [job EXCEPT ![j] = [@ EXCEPT !.dev = job[j].dev \ {d}, !.at = "check"]]
  BY <1>2 DEF JobType
<1>. QED
  BY <1>1, <1>2 DEF Leave

\* A new job.
LEMMA LaunchFacts ==
    ASSUME job \in [Jobs -> JobType], requests \in 0..MaxRequests, Requested,
           NEW op \in {"attach", "detach", "reset"}, NEW devs \in SUBSET Device,
           NEW where \in {"open", "check", "shut"}, Launch(op, devs, where)
    PROVE  /\ job' \in [Jobs -> JobType] /\ requests' \in 0..MaxRequests
           /\ requests + 1 \in Jobs /\ \A k \in Jobs \ {requests + 1} : job'[k] = job[k]
           /\ job'[requests + 1] = [op |-> op, dev |-> devs, at |-> where]
<1>1. requests + 1 \in Jobs /\ requests' \in 0..MaxRequests
  BY MobileAssumption DEF Requested, Jobs
<1>2. [op |-> op, dev |-> devs, at |-> where] \in JobType
  BY DEF JobType
<1>. QED
  BY <1>1, <1>2 DEF Launch

\* What a step of a coroutine does to the jobs: the job works on, or is done
\* with its device.
LEMMA JobStepFacts ==
    ASSUME job \in [Jobs -> JobType], NEW j \in Jobs, NEW d \in Device, JobWork(j, d)
    PROVE  /\ job' \in [Jobs -> JobType] /\ \A k \in Jobs \ {j} : job'[k] = job[k]
           /\ job'[j].dev \subseteq job[j].dev
           /\ \/ job'[j].op = job[j].op /\ job'[j].dev = job[j].dev
              \/ Leave(j, d)
           /\ d \in job[j].dev
<1>0. /\ d \in job[j].dev
      /\ \/ UNCHANGED job \/ Leave(j, d)
         \/ Step(j, "send") \/ Step(j, "track") \/ Step(j, "update") \/ Step(j, "poll")
         \/ Step(j, "launch") \/ Step(j, "register") \/ Step(j, "shut") \/ Step(j, "closed")
  <2>1. CASE JobBeginSend(j, d)
    BY <2>1 DEF JobBeginSend, BeginWrite, deviceVars, At
  <2>2. CASE AttachSend(j, d) \/ DetachSend(j, d)
    BY <2>2 DEF AttachSend, DetachSend, At
  <2>3. CASE JobStep(j, d) /\ ~JobBeginSend(j, d)
    BY <2>3 DEF JobStep, AttachOpen, AttachNoInfo, AttachTrack, AttachPoll, PollLaunch, PollRegister,
                DetachStopPolling, CloseDevice, DetachUntrack, DetachUpdate, ResetReopen, At
  <2>. QED
    BY <2>1, <2>2, <2>3 DEF JobWork
<1>1. CASE UNCHANGED job
  BY <1>0, <1>1
<1>3. CASE Leave(j, d)
  BY <1>0, <1>3, LeaveFacts
<1>4. CASE ~Leave(j, d) /\ job' # job
  BY <1>0, <1>4, StepFacts
<1>. QED
  BY <1>1, <1>3, <1>4

\* A request of a user, of the server or of a device as a launch.
LaunchStep ==
    /\ Requested /\ UNCHANGED <<attached, polled, pollers>>
    /\ \E d \in Device :
          \/ /\ Launch("attach", {d}, "open")
             /\ crowded' = IF \E j \in Jobs : job[j].op = "attach" /\ d \in job[j].dev
                           THEN crowded \cup {d} ELSE crowded
             /\ UNCHANGED opened
          \/ /\ Launch("detach", {d}, "check") \/ Launch("reset", {d}, "shut")
             /\ UNCHANGED crowded
             /\ opened' \subseteq opened

\* The other steps touch no coroutine, apart from stopForwarding.
LEMMA DeviceCases ==
    ASSUME Next
    PROVE  \/ UNCHANGED <<opened, polled, pollers, job, crowded>> /\ attached' \in {attached, {}}
              /\ (UNCHANGED requests \/ Requested)
           \/ stopForwarding
           \/ LaunchStep
           \/ \E d \in Device, j \in Jobs : JobWork(j, d)
<1>1. CASE \E s \in Starts : ServerCloses(s) \/ startForwarding(s)
  BY <1>1 DEF ServerCloses, startForwarding, deviceVars
<1>2. CASE \E t \in Threads : Ending(t) \/ BeginReceive(t)
  BY <1>2 DEF Ending, disconnect, CancelJobs, CloseSocket, handleDisconnection,
              BeginReceive, deviceVars
<1>3. CASE \E s \in Starts : \/ connect(s) \/ OpenSocket(s) \/ SetRunning(s)
                             \/ ReceiveConnected(s) \/ StartJobs(s) \/ ReportRunning(s) \/ ReportError(s)
                             \/ LoopTest(s) \/ ReceiveOrTimeout(s) \/ ReceiveFails(s)
  BY <1>3 DEF connect, OpenSocket, SetRunning, ReceiveConnected, StartJobs, ReportRunning,
              ReportError, LoopTest, ReceiveOrTimeout, ReceiveFails, deviceVars
<1>4. CASE ReportStopped
  BY <1>4 DEF ReportStopped, deviceVars
<1>5. ASSUME NEW d \in Device, \/ RequestAttach(d) \/ RequestDetach(d) \/ UsbDetached(d)
                               \/ \E s \in Starts : RequestReset(s, d)
      PROVE  LaunchStep
  BY <1>5 DEF RequestAttach, RequestDetach, UsbDetached, RequestReset, DeviceRequested, LaunchStep
<1>6. CASE \/ \E s \in Starts : SendConnect(s)
           \/ \E t \in Threads : BeginSend(t) \/ SendDisconnect(t)
           \/ OthersBegin \/ OthersEnd
  BY <1>6 DEF SendConnect, SendDisconnect, BeginSend, OthersBegin, OthersEnd, BeginWrite, EndSend, deviceVars
<1>. QED
  BY <1>1, <1>2, <1>3, <1>4, <1>5, <1>6, ThreadNames
     DEF Next, ThreadStep, MainStep, StarterStep, LoopStep, SendEnds, JobWork

\* The devices and coroutines keep their types.
LEMMA DevicesStep == ASSUME Types, Next PROVE DeviceTypes'
<1>0. DeviceTypes /\ \A j \in Jobs : j \in 0..MaxRequests
  BY DEF Types, Jobs
<1>1. CASE UNCHANGED <<opened, polled, pollers, job, crowded>> /\ attached' \in {attached, {}}
              /\ (UNCHANGED requests \/ Requested)
  BY <1>0, <1>1, MobileAssumption DEF DeviceTypes, Requested
<1>2. CASE stopForwarding
  <2>1. CASE UNCHANGED job
    BY <1>0, <1>2, <2>1, MobileAssumption DEF DeviceTypes, Requested, stopForwarding
  <2>2. CASE Launch("detach", attached, "check")
    <3>1. job' \in [Jobs -> JobType] /\ requests' \in 0..MaxRequests
      BY <1>0, <1>2, <2>2, LaunchFacts DEF stopForwarding, DeviceTypes
    <3>. QED
      BY <1>0, <1>2, <3>1 DEF DeviceTypes, stopForwarding
  <2>. QED
    BY <1>2, <2>1, <2>2 DEF stopForwarding
<1>3. CASE LaunchStep
  <2>0. PICK d \in Device : LaunchStep!2!(d)
    BY <1>3 DEF LaunchStep
  <2>1. {d} \in SUBSET Device
    OBVIOUS
  <2>2. job' \in [Jobs -> JobType] /\ requests' \in 0..MaxRequests
    BY <1>0, <1>3, <2>0, <2>1, LaunchFacts DEF LaunchStep, DeviceTypes
  <2>. QED
    BY <1>0, <1>3, <2>0, <2>2 DEF LaunchStep, DeviceTypes
<1>4. ASSUME NEW d \in Device, NEW j \in Jobs, JobWork(j, d) PROVE DeviceTypes'
  <2>1. job' \in [Jobs -> JobType]
    BY <1>0, <1>4, JobStepFacts DEF DeviceTypes
  <2>2. /\ attached' \subseteq Device /\ opened' \subseteq Device /\ crowded' = crowded
        /\ requests' = requests
    <3>1. CASE SendStep
      BY <1>0, <3>1, SendFrame DEF DeviceTypes
    <3>2. CASE ~SendStep
      BY <1>0, <1>4, <3>2
         DEF DeviceTypes, JobWork, SendStep, SendEnds, JobStep, AttachOpen, AttachNoInfo, AttachTrack,
             AttachPoll, PollLaunch, PollRegister, DetachStopPolling, CloseDevice, DetachUntrack,
             DetachUpdate, ResetReopen
    <3>. QED
      BY <3>1, <3>2
  <2>3. polled' \in [Device -> 0..MaxRequests] /\ pollers' \in [Device -> SUBSET Jobs]
    <3>0. polled \in [Device -> 0..MaxRequests] /\ pollers \in [Device -> SUBSET Jobs] /\ 0 \in 0..MaxRequests
      BY <1>0, MobileAssumption DEF DeviceTypes
    <3>1. CASE PollLaunch(j, d)
      BY <1>0, <3>0, <3>1 DEF PollLaunch
    <3>2. CASE DetachStopPolling(j, d)
      BY <1>0, <3>0, <3>2 DEF DetachStopPolling
    <3>3. CASE PollRegister(j, d)
      BY <1>0, <3>0, <3>3 DEF PollRegister
    <3>4. CASE SendStep
      BY <3>0, <3>4, SendFrame
    <3>. QED
      BY <1>4, <3>0, <3>1, <3>2, <3>3, <3>4
         DEF JobWork, SendStep, SendEnds, JobStep, AttachOpen, AttachNoInfo, AttachTrack, AttachPoll,
             CloseDevice, DetachUntrack, DetachUpdate, ResetReopen
  <2>. QED
    BY <1>0, <2>1, <2>2, <2>3 DEF DeviceTypes
<1>. QED
  BY <1>1, <1>2, <1>3, <1>4, DeviceCases

----------------------------------------------------------------------------
(* Pollers.                                                                *)

\* A launch adds no second attach to a device that is not crowded.
LEMMA LaunchPoll ==
    ASSUME Types, PollInv, NEW r \in Jobs, job' \in [Jobs -> JobType], r = requests + 1, requests' = r,
           \A k \in Jobs \ {r} : job'[k] = job[k], UNCHANGED <<polled, pollers>>,
           \/ job'[r].op # "attach" /\ crowded' = crowded
           \/ \E d \in Device :
                 /\ job'[r].dev = {d} /\ job'[r].at = "open"
                 /\ crowded' = IF \E j \in Jobs : job[j].op = "attach" /\ d \in job[j].dev
                               THEN crowded \cup {d} ELSE crowded
    PROVE  PollInv'
<1>0. /\ job[r].op = "none" /\ requests \in 0..MaxRequests
      /\ \A j \in Jobs : j > requests' => j > requests /\ j # r
  BY DEF Types, DeviceTypes, PollInv, Jobs
<1>1. /\ \A j \in Jobs : j > requests' => job'[j].op = "none"
      /\ \A j \in Jobs : job'[j].op = "attach" => \E d \in Device : job'[j].dev = {d}
  BY <1>0 DEF PollInv
<1>2. ASSUME NEW d \in Device \ crowded'
      PROVE  /\ \A j, k \in Jobs : /\ job'[j].op = "attach" /\ d \in job'[j].dev
                                   /\ job'[k].op = "attach" /\ d \in job'[k].dev
                                   => j = k
             /\ \A j \in Jobs : Launching(j, d)' => polled'[d] = 0
             /\ pollers'[d] \subseteq Known(d)'
  <2>1. d \in Device \ crowded
    BY <1>2
  <2>0. Known(d)' \subseteq Known(d) \cup {r} /\ Known(d) \subseteq Known(d)'
    BY <1>0 DEF Known, At
  <2>2. CASE job'[r].op # "attach"
    BY <2>0, <2>1, <2>2 DEF PollInv, Launching, At
  <2>3. CASE \E e \in Device :
                /\ job'[r].dev = {e} /\ job'[r].at = "open"
                /\ crowded' = IF \E j \in Jobs : job[j].op = "attach" /\ e \in job[j].dev
                              THEN crowded \cup {e} ELSE crowded
    <3>1. PICK e \in Device :
                /\ job'[r].dev = {e} /\ job'[r].at = "open"
                /\ crowded' = IF \E j \in Jobs : job[j].op = "attach" /\ e \in job[j].dev
                              THEN crowded \cup {e} ELSE crowded
      BY <2>3
    <3>2. d = e => \A j \in Jobs : ~(job[j].op = "attach" /\ d \in job[j].dev)
      BY <1>2, <3>1
    <3>3. \A j \in Jobs : Launching(j, d)' => j # r /\ Launching(j, d)
      BY <3>1 DEF Launching, At
    <3>4. \A j, k \in Jobs : /\ job'[j].op = "attach" /\ d \in job'[j].dev
                             /\ job'[k].op = "attach" /\ d \in job'[k].dev
                             => j = k
      BY <2>1, <3>1, <3>2 DEF PollInv
    <3>. QED
      BY <2>0, <2>1, <3>3, <3>4 DEF PollInv
  <2>. QED
    BY <2>2, <2>3
<1>. QED
  BY <1>1, <1>2 DEF PollInv

\* Every step keeps at most the poller that stopPolling can cancel.
LEMMA PollStep == ASSUME Types, PollInv, Next PROVE PollInv'
<1>0. DeviceTypes
  BY DEF Types
<1>1. CASE UNCHANGED <<polled, pollers, job, crowded>> /\ (UNCHANGED requests \/ Requested)
  <2>1. \A j \in Jobs : j > requests' => j > requests
    BY <1>0, <1>1 DEF DeviceTypes, Requested, Jobs
  <2>. QED
    BY <1>1, <2>1 DEF PollInv, Launching, Known, At
<1>2. CASE stopForwarding
  <2>1. UNCHANGED <<polled, pollers, crowded>>
    BY <1>2 DEF stopForwarding
  <2>2. CASE Launch("detach", attached, "check")
    <3>1. /\ job' \in [Jobs -> JobType] /\ requests + 1 \in Jobs
          /\ \A k \in Jobs \ {requests + 1} : job'[k] = job[k]
          /\ job'[requests + 1] = [op |-> "detach", dev |-> attached, at |-> "check"]
          /\ requests' = requests + 1
      BY <1>0, <1>2, <2>2, LaunchFacts DEF stopForwarding, DeviceTypes, Requested
    <3>2. job'[requests + 1].op # "attach"
      BY <3>1
    <3>. QED
      BY <2>1, <3>1, <3>2, LaunchPoll
  <2>. QED
    BY <1>1, <1>2, <2>1, <2>2 DEF stopForwarding
<1>3. CASE LaunchStep
  <2>0. PICK d \in Device : LaunchStep!2!(d)
    BY <1>3 DEF LaunchStep
  <2>1. {d} \in SUBSET Device /\ UNCHANGED <<polled, pollers>> /\ Requested /\ requests' = requests + 1
    BY <1>3 DEF LaunchStep, Requested
  <2>2. ASSUME NEW op \in {"attach", "detach", "reset"}, NEW w \in {"open", "check", "shut"},
               Launch(op, {d}, w)
        PROVE  /\ job' \in [Jobs -> JobType] /\ requests + 1 \in Jobs
               /\ \A k \in Jobs \ {requests + 1} : job'[k] = job[k]
               /\ job'[requests + 1].op = op /\ job'[requests + 1].dev = {d} /\ job'[requests + 1].at = w
    <3> DEFINE devs == {d}
    <3>1. devs \in SUBSET Device /\ Launch(op, devs, w) /\ Requested
      BY <2>1, <2>2
    <3> HIDE DEF devs
    <3>2. /\ job' \in [Jobs -> JobType] /\ requests + 1 \in Jobs
          /\ \A k \in Jobs \ {requests + 1} : job'[k] = job[k]
          /\ job'[requests + 1] = [op |-> op, dev |-> devs, at |-> w]
      BY <1>0, <3>1, LaunchFacts DEF DeviceTypes
    <3>. QED
      BY <3>2 DEF devs
  <2>3. CASE Launch("attach", {d}, "open")
             /\ crowded' = IF \E j \in Jobs : job[j].op = "attach" /\ d \in job[j].dev
                           THEN crowded \cup {d} ELSE crowded
    BY <2>1, <2>2, <2>3, LaunchPoll
  <2>4. CASE (Launch("detach", {d}, "check") \/ Launch("reset", {d}, "shut")) /\ UNCHANGED crowded
    BY <2>1, <2>2, <2>4, LaunchPoll
  <2>. QED
    BY <2>0, <2>3, <2>4
<1>4. ASSUME NEW d \in Device, NEW j \in Jobs, JobWork(j, d) PROVE PollInv'
  <2>0. crowded' = crowded /\ requests' = requests
    <3>1. CASE SendStep
      BY <3>1, SendFrame
    <3>. QED
      BY <1>4, <3>1 DEF JobWork, JobStep, SendStep, SendEnds
  <2>1. /\ job' \in [Jobs -> JobType] /\ \A k \in Jobs \ {j} : job'[k] = job[k]
        /\ d \in job[j].dev /\ job'[j].dev \subseteq job[j].dev
        /\ \/ job'[j].op = job[j].op /\ job'[j].dev = job[j].dev
           \/ Leave(j, d)
        /\ crowded' = crowded
    BY <1>0, <1>4, <2>0, JobStepFacts DEF DeviceTypes
  <2>2. /\ job'[j].op = "attach" => job[j].op = "attach" /\ job'[j].dev = job[j].dev
        /\ job'[j].op = "none" \/ job'[j].op = job[j].op
    BY <1>0, <2>1, LeaveFacts DEF PollInv, DeviceTypes
  <2>3. \A k \in Jobs : job'[k].op = "attach" => job[k].op = "attach" /\ job'[k].dev = job[k].dev
    BY <2>1, <2>2
  <2>4. job[j].op = "attach" => job[j].dev = {d}
    BY <2>1 DEF PollInv
  <2>5. \A e \in Device \ crowded : pollers[e] \subseteq Known(e)
    BY DEF PollInv
  <2>9. \A k \in Jobs : k > requests' => job'[k].op = "none"
    BY <2>0, <2>1, <2>2 DEF PollInv
  <2>10. \A e \in Device, k \in Jobs : k # j => /\ Launching(k, e)' <=> Launching(k, e)
                                              /\ At(k, e, "attach", "register")' <=> At(k, e, "attach", "register")
    BY <2>1 DEF Launching, At
  <2>11. \A e \in Device \ crowded, k \in Jobs :
            (Launching(k, e) /\ job[j].op = "attach" /\ e \in job[j].dev) => k = j
    BY DEF PollInv, Launching, At
  <2>12. \A e \in Device, k \in Jobs : At(k, e, "attach", "register") => Launching(k, e)
    BY DEF Launching
  <2>13. ASSUME \A e \in Device \ crowded, k \in Jobs : Launching(k, e)' => polled'[e] = 0,
                \A e \in Device \ crowded : pollers'[e] \subseteq Known(e)'
         PROVE  PollInv'
    BY <2>1, <2>3, <2>9, <2>13 DEF PollInv
  <2>14. 0 \notin Jobs /\ \A e \in Device : pollers[e] \subseteq Jobs
    BY <1>0 DEF DeviceTypes, Jobs
  <2>6. CASE PollLaunch(j, d)
    <3>1. /\ At(j, d, "attach", "launch") /\ Step(j, "register") /\ polled' = polled
          /\ \A e \in Device : e # d => pollers'[e] = pollers[e]
          /\ pollers'[d] \subseteq pollers[d] \cup {j}
      BY <1>0, <2>6 DEF PollLaunch, DeviceTypes
    <3>2. job[j].op = "attach" /\ job[j].at = "launch" /\ job[j].dev = {d}
      BY <2>4, <3>1 DEF At
    <3>3. job'[j].op = "attach" /\ job'[j].at = "register" /\ job'[j].dev = {d}
      BY <1>0, <3>1, <3>2 DEF Step, DeviceTypes, JobType
    <3>4. Launching(j, d) /\ At(j, d, "attach", "register")'
      BY <3>1, <3>3 DEF Launching, At
    <3>5. \A e \in Device : (Launching(j, e)' \/ At(j, e, "attach", "register")) => e = d
      BY <3>2, <3>3 DEF Launching, At
    <3>6. \A e \in Device \ crowded, k \in Jobs : Launching(k, e)' => polled'[e] = 0
      BY <2>1, <3>1, <3>4, <3>5 DEF PollInv, Launching, At
    <3>7. d \notin crowded => pollers[d] = {}
      <4>1. d \notin crowded => polled[d] = 0 /\ \A k \in Jobs : ~At(k, d, "attach", "register")
        BY <2>11, <2>12, <3>2, <3>4 DEF PollInv, At
      <4>. QED
        BY <2>5, <2>14, <4>1 DEF Known
    <3>8. \A e \in Device \ crowded : pollers'[e] \subseteq Known(e)'
      <4>1. ASSUME NEW e \in Device \ crowded PROVE pollers'[e] \subseteq Known(e)'
        <5>1. CASE e = d
          BY <3>1, <3>4, <3>7, <4>1, <5>1 DEF Known
        <5>2. CASE e # d
          BY <2>5, <2>10, <3>1, <3>5, <4>1, <5>2 DEF Known
        <5>. QED
          BY <5>1, <5>2
      <4>. QED
        BY <4>1
    <3>. QED
      BY <2>13, <3>6, <3>8
  <2>15. CASE PollRegister(j, d)
    <3>1. /\ At(j, d, "attach", "register") /\ Leave(j, d) /\ pollers' = pollers
          /\ \A e \in Device : e # d => polled'[e] = polled[e]
          /\ polled'[d] = j
      BY <1>0, <2>15 DEF PollRegister, DeviceTypes
    <3>2. job[j].op = "attach" /\ job[j].dev = {d}
      BY <2>4, <3>1 DEF At
    <3>3. job'[j].op = "none"
      BY <1>0, <3>1, <3>2, LeaveFacts DEF DeviceTypes
    <3>4. \A e \in Device : ~Launching(j, e)' /\ (At(j, e, "attach", "register") => e = d)
      BY <3>2, <3>3 DEF Launching, At
    <3>5. \A e \in Device \ crowded, k \in Jobs : Launching(k, e)' => polled'[e] = 0
      <4>1. ASSUME NEW e \in Device \ crowded, NEW k \in Jobs, Launching(k, e)' PROVE polled'[e] = 0
        <5>1. k # j /\ Launching(k, e)
          BY <2>1, <3>4, <4>1 DEF Launching, At
        <5>2. e # d
          BY <2>11, <3>2, <4>1, <5>1
        <5>. QED
          BY <3>1, <4>1, <5>1, <5>2 DEF PollInv
      <4>. QED
        BY <4>1
    <3>6. d \notin crowded => pollers[d] \subseteq {j}
      <4>1. d \notin crowded => polled[d] = 0 /\ \A k \in Jobs : At(k, d, "attach", "register") => k = j
        BY <2>11, <2>12, <3>1, <3>2 DEF PollInv
      <4>. QED
        BY <2>5, <2>14, <4>1 DEF Known
    <3>7. \A e \in Device \ crowded : pollers'[e] \subseteq Known(e)'
      <4>1. ASSUME NEW e \in Device \ crowded PROVE pollers'[e] \subseteq Known(e)'
        <5>1. CASE e = d
          BY <3>1, <3>6, <4>1, <5>1 DEF Known
        <5>2. CASE e # d
          BY <2>5, <2>10, <3>1, <3>4, <4>1, <5>2 DEF Known
        <5>. QED
          BY <5>1, <5>2
      <4>. QED
        BY <4>1
    <3>. QED
      BY <2>13, <3>5, <3>7
  <2>7. CASE DetachStopPolling(j, d)
    <3>1. \A e \in Device : \/ polled'[e] = polled[e] /\ pollers'[e] = pollers[e]
                            \/ polled'[e] = 0 /\ pollers'[e] = pollers[e] \ {polled[e]}
      BY <1>0, <2>7 DEF DetachStopPolling, DeviceTypes
    <3>2. job[j].op = "detach"
      BY <2>7 DEF DetachStopPolling, At
    <3>3. \A e \in Device : ~Launching(j, e)' /\ ~Launching(j, e)
      BY <2>2, <3>2 DEF Launching, At
    <3>4. \A e \in Device \ crowded, k \in Jobs : Launching(k, e)' => polled'[e] = 0
      BY <2>1, <3>1, <3>3 DEF PollInv, Launching, At
    <3>5. \A e \in Device \ crowded : pollers'[e] \subseteq Known(e)'
      BY <2>5, <2>10, <2>12, <3>1, <3>3 DEF Known
    <3>. QED
      BY <2>13, <3>4, <3>5
  <2>8. CASE UNCHANGED <<polled, pollers>> /\ ~PollLaunch(j, d) /\ ~PollRegister(j, d)
    <3>1. /\ \A e \in Device : ~At(j, e, "attach", "register")
          /\ job'[j].op = "attach" /\ job'[j].at \in {"launch", "register"} => Launching(j, d) \/ polled[d] = 0
      <4>1. CASE AttachPoll(j, d)
        BY <1>0, <4>1, LeaveFacts DEF AttachPoll, DeviceTypes, At, Step, JobType
      <4>2. CASE AttachOpen(j, d) \/ AttachSend(j, d) \/ AttachTrack(j, d) \/ AttachNoInfo(j, d)
        BY <1>0, <4>2, LeaveFacts DEF AttachOpen, AttachSend, AttachTrack, AttachNoInfo, DeviceTypes, Step,
           JobType, At
      <4>3. CASE \/ DetachStopPolling(j, d) \/ DetachSend(j, d) \/ CloseDevice(j, d)
                 \/ DetachUntrack(j, d) \/ DetachUpdate(j, d) \/ ResetReopen(j, d)
        BY <2>3, <4>3 DEF DetachStopPolling, DetachSend, CloseDevice, DetachUntrack, DetachUpdate,
                          ResetReopen, At
      <4>4. CASE JobBeginSend(j, d)
        BY <4>4 DEF JobBeginSend, BeginWrite, deviceVars, At
      <4>. QED
        BY <1>4, <2>8, <4>1, <4>2, <4>3, <4>4 DEF JobWork, JobStep
    <3>2. \A k \in Jobs, e \in Device \ crowded : Launching(k, e)' => polled[e] = 0
      <4>1. \A e \in Device : Launching(j, e)' => /\ job'[j].op = "attach" /\ e = d
                                                 /\ job'[j].at \in {"launch", "register"}
        BY <2>3, <2>4 DEF Launching, At
      <4>. QED
        BY <2>1, <3>1, <4>1 DEF PollInv, Launching, At
    <3>3. \A e \in Device \ crowded : pollers'[e] \subseteq Known(e)'
      BY <2>5, <2>8, <2>10, <3>1 DEF Known
    <3>. QED
      BY <2>8, <2>13, <3>2, <3>3
  <2>. QED
    <3>1. CASE SendStep
      BY <2>6, <2>8, <2>15, <3>1, SendFrame
    <3>2. CASE ~SendStep
      BY <1>4, <2>6, <2>7, <2>8, <2>15, <3>2
         DEF JobWork, SendStep, SendEnds, JobStep, AttachOpen, AttachNoInfo, AttachTrack, AttachPoll,
             CloseDevice, DetachUntrack, DetachUpdate, ResetReopen
    <3>. QED
      BY <3>1, <3>2
<1>. QED
  BY <1>1, <1>2, <1>3, <1>4, DeviceCases

----------------------------------------------------------------------------
(* Teardown and sockets.                                                   *)

\* The threads that open and close connections are where they were.
SameView ==
    /\ \A t \in Threads : /\ pc'[t] \in Disconnecting <=> pc[t] \in Disconnecting
                          /\ pc'[t] = "callback" <=> pc[t] = "callback"
                          /\ pc'[t] = "opening" <=> pc[t] = "opening"
                          /\ pc'[t] = "opened" <=> pc[t] = "opened"
    /\ UNCHANGED <<ups, callbacks, isRunning, sockets, stream>>

\* A step of one thread that has nothing to do with a socket.
LEMMA SameViewMove ==
    ASSUME Types, NEW t \in Threads, NEW w, Goto(t, w),
           \/ {pc[t], w} \subseteq {"cancel", "bye", "close"}
           \/ {pc[t], w} \cap (Disconnecting \cup {"opening", "opened"}) = {},
           UNCHANGED <<ups, callbacks, isRunning, sockets, stream>>
    PROVE  SameView
<1>1. pc'[t] = w /\ \A x \in Threads \ {t} : pc'[x] = pc[x]
  BY DEF Types, ThreadTypes, Goto
<1>. QED
  BY <1>1 DEF SameView, Disconnecting

\* The steps that open or close a connection, and all the others.
LEMMA NetCases ==
    ASSUME Types, Next
    PROVE  \/ SameView
           \/ \E s \in Starts : connect(s) \/ OpenSocket(s) \/ SetRunning(s)
           \/ \E t \in Threads : disconnect(t) \/ CloseSocket(t) \/ handleDisconnection(t)
<1>0. pc \in [Threads -> Places] /\ Fresh /\ starts \in 0..MaxStarts
  BY DEF Types, ThreadTypes
<1>1. CASE UNCHANGED <<pc, ups, callbacks, isRunning, sockets, stream>>
  BY <1>1 DEF SameView
<1>2. ASSUME NEW s \in Starts, ServerCloses(s) PROVE SameView
  BY <1>2 DEF ServerCloses, SameView
<1>3. ASSUME NEW s \in Starts, startForwarding(s) PROVE SameView
  <2>1. pc[Starter(s)] = "idle"
    BY <1>0, <1>3 DEF startForwarding, Fresh, Starts
  <2>. QED
    BY <1>3, <2>1, SameViewMove, ThreadNames DEF startForwarding, Disconnecting
<1>4. ASSUME NEW s \in Starts, SendConnect(s) \/ ReportRunning(s) \/ ReportError(s) PROVE SameView
  <2>1. \E w \in {"answer", "disconnect", "done"} : Goto(Starter(s), w)
    BY <1>4 DEF SendConnect, ReportRunning, ReportError
  <2>2. /\ pc[Starter(s)] \in {"hello", "succeeded", "refused"}
        /\ UNCHANGED <<ups, callbacks, isRunning, sockets, stream>>
    BY <1>4 DEF SendConnect, EndSend, ReportRunning, ReportError, netVars
  <2>. QED
    BY <2>1, <2>2, SameViewMove, ThreadNames DEF Disconnecting
<1>5. ASSUME NEW s \in Starts, StartJobs(s) PROVE SameView
  <2>1. /\ pc[Starter(s)] = "launch" /\ pc[Loop(s)] = "idle"
        /\ pc'[Starter(s)] = "succeeded" /\ pc'[Loop(s)] = "test"
        /\ \A x \in Threads \ {Starter(s), Loop(s)} : pc'[x] = pc[x]
        /\ UNCHANGED <<ups, callbacks, isRunning, sockets, stream>>
    BY <1>0, <1>5, ThreadNames DEF StartJobs, Fresh, Early
  <2>. QED
    BY <2>1 DEF SameView, Disconnecting
<1>6. ASSUME NEW s \in Starts, LoopTest(s) PROVE SameView
  <2>1. \E w \in {"answer", "ended"} : Goto(Loop(s), w)
    BY <1>6 DEF LoopTest
  <2>2. pc[Loop(s)] = "test" /\ UNCHANGED <<ups, callbacks, isRunning, sockets, stream>>
    BY <1>6 DEF LoopTest, netVars
  <2>. QED
    BY <2>1, <2>2, SameViewMove, ThreadNames DEF Disconnecting
<1>7. ASSUME NEW t \in Threads, NEW w \in {"launch", "disconnect", "test", "ended"}, EndReceive(t, w)
      PROVE  SameView
  BY <1>7, SameViewMove DEF EndReceive, Disconnecting
<1>8. ASSUME NEW s \in Starts, \/ ReceiveConnected(s) \/ ReceiveOrTimeout(s) \/ ReceiveFails(s)
                               \/ \E d \in Device : RequestReset(s, d)
      PROVE  SameView
  <2>1. \E w \in {"launch", "disconnect", "test", "ended"} : EndReceive(Starter(s), w) \/ EndReceive(Loop(s), w)
    BY <1>8 DEF ReceiveConnected, ReceiveOrTimeout, ReceiveFails, RequestReset, Caught
  <2>. QED
    BY <1>7, <2>1, ThreadNames
<1>9. ASSUME NEW t \in Threads, BeginReceive(t) \/ CancelJobs(t) \/ SendDisconnect(t) PROVE SameView
  <2>1. CASE BeginReceive(t)
    <3>1. \E w \in {"reading", "disconnect", "ended"} : Goto(t, w)
      BY <2>1 DEF BeginReceive, Caught
    <3>2. pc[t] = "answer" /\ UNCHANGED <<ups, callbacks, isRunning, sockets, stream>>
      BY <2>1 DEF BeginReceive
    <3>. QED
      BY <3>1, <3>2, SameViewMove DEF Disconnecting
  <2>2. CASE CancelJobs(t) \/ SendDisconnect(t)
    <3>1. \E w \in {"bye", "close"} : Goto(t, w)
      BY <2>2 DEF CancelJobs, SendDisconnect
    <3>2. pc[t] \in {"cancel", "bye"} /\ UNCHANGED <<ups, callbacks, isRunning, sockets, stream>>
      BY <2>2 DEF CancelJobs, SendDisconnect, EndSend, netVars
    <3>. QED
      BY <3>1, <3>2, SameViewMove
  <2>. QED
    BY <1>9, <2>1, <2>2
<1>10. CASE ReportStopped \/ stopForwarding
  <2>1. \E w \in {"idle", "disconnect"} : Goto(Main, w)
    BY <1>10 DEF ReportStopped, stopForwarding
  <2>2. pc[Main] \in {"stopped", "idle"} /\ UNCHANGED <<ups, callbacks, isRunning, sockets, stream>>
    BY <1>10 DEF ReportStopped, stopForwarding, netVars
  <2>. QED
    BY <2>1, <2>2, SameViewMove, ThreadNames DEF Disconnecting
<1>11. ASSUME NEW x, BeginWrite(x) PROVE SameView
  BY <1>11 DEF BeginWrite, SameView
<1>12. CASE DeviceStep
  BY <1>1, <1>11, <1>12
     DEF DeviceStep, RequestAttach, RequestDetach, UsbDetached, JobStep, JobBeginSend, netVars
<1>13. CASE OthersEnd \/ \E j \in Jobs, d \in Device : AttachSend(j, d) \/ DetachSend(j, d)
  BY <1>1, <1>13 DEF OthersEnd, AttachSend, DetachSend, EndSend
<1>14. CASE SendEnds \/ OthersBegin
  BY <1>4, <1>9, <1>11, <1>13, <1>14 DEF SendEnds, OthersBegin
<1>15. ASSUME NEW t \in Threads, BeginSend(t) PROVE SameView
  BY <1>11, <1>15 DEF BeginSend
<1>. QED
  BY <1>2, <1>3, <1>4, <1>5, <1>6, <1>8, <1>9, <1>10, <1>12, <1>14, <1>15, ThreadNames
     DEF Next, ThreadStep, MainStep, StarterStep, LoopStep, Ending, DeviceStep

\* Every teardown was paid for by taking isRunning.
LEMMA TeardownStep == ASSUME Types, TeardownInv, Next PROVE TeardownInv'
<1>0. pc \in [Threads -> Places] /\ isRunning \in BOOLEAN
  BY DEF Types, ThreadTypes, FlagTypes
<1> DEFINE n == Cardinality(Closers)
           one == IF isRunning THEN 1 ELSE 0
<1>1. /\ ups \in Nat /\ callbacks \in Nat /\ n \in Nat /\ IsFiniteSet(Closers)
      /\ callbacks + n + one <= ups /\ one \in Nat
  BY FS_CardinalityType DEF TeardownInv, TornDownOnce, Closers
<1>2. ASSUME NEW c \in Nat, ups' \in Nat, callbacks' \in Nat, IsFiniteSet(Closers'), c = Cardinality(Closers'),
             callbacks' + c + (IF isRunning' THEN 1 ELSE 0) <= ups'
      PROVE  TeardownInv'
  BY <1>2 DEF TeardownInv, TornDownOnce, Closers
<1>3. ASSUME NEW t \in Threads, NEW w, Goto(t, w)
      PROVE  /\ w \in Disconnecting => Closers' = Closers \cup {t}
             /\ w \notin Disconnecting => Closers' = Closers \ {t}
  BY <1>0, <1>3 DEF Goto, Closers
<1> HIDE DEF n, one
<1>4. CASE SameView
  <2>1. Closers' = Closers /\ ups' = ups /\ callbacks' = callbacks /\ isRunning' = isRunning
    BY <1>4 DEF SameView, Closers
  <2>. QED
    BY <1>1, <1>2, <2>1 DEF n, one
<1>5. ASSUME NEW s \in Starts, connect(s) \/ OpenSocket(s) \/ SetRunning(s) PROVE TeardownInv'
  <2>1. \E w \in {"refused", "opening", "opened", "disconnect", "hello"} : Goto(Starter(s), w)
    BY <1>5 DEF connect, OpenSocket, SetRunning
  <2>2. pc[Starter(s)] \in {"connect", "opening", "opened"} /\ callbacks' = callbacks
    BY <1>5 DEF connect, OpenSocket, SetRunning
  <2>3. Closers' = Closers
    BY <1>3, <2>1, <2>2, ThreadNames DEF Closers, Disconnecting
  <2>4. CASE UNCHANGED <<ups, isRunning>>
    BY <1>1, <1>2, <2>2, <2>3, <2>4 DEF n, one
  <2>5. CASE isRunning' = TRUE /\ ups' = ups + 1
    BY <1>1, <1>2, <2>2, <2>3, <2>5 DEF n
  <2>. QED
    BY <1>5, <2>4, <2>5 DEF connect, OpenSocket, SetRunning
<1>6. ASSUME NEW t \in Threads, disconnect(t) PROVE TeardownInv'
  <2>1. t \notin Closers /\ callbacks' = callbacks /\ ups' = ups /\ isRunning' = FALSE
    BY <1>6 DEF disconnect, Closers, Disconnecting
  <2>2. CASE isRunning
    <3>1. Closers' = Closers \cup {t} /\ one = 1
      BY <1>3, <1>6, <2>2 DEF disconnect, Disconnecting, one
    <3>2. IsFiniteSet(Closers') /\ Cardinality(Closers') = n + 1
      BY <1>1, <2>1, <3>1, FS_AddElement DEF n
    <3>. QED
      BY <1>1, <1>2, <2>1, <3>1, <3>2
  <2>3. CASE ~isRunning
    <3>1. Closers' = Closers /\ one = 0
      BY <1>3, <1>6, <2>1, <2>3, ReturnPlaces DEF disconnect, Disconnecting, one
    <3>. QED
      BY <1>1, <1>2, <2>1, <3>1 DEF n
  <2>. QED
    BY <2>2, <2>3
<1>7. ASSUME NEW t \in Threads, CloseSocket(t) PROVE TeardownInv'
  <2>1. Closers' = Closers /\ callbacks' = callbacks /\ ups' = ups /\ isRunning' = isRunning
    BY <1>3, <1>7 DEF CloseSocket, Closers, Disconnecting
  <2>. QED
    BY <1>1, <1>2, <2>1 DEF n, one
<1>8. ASSUME NEW t \in Threads, handleDisconnection(t) PROVE TeardownInv'
  <2>1. /\ t \in Closers /\ callbacks' = callbacks + 1 /\ ups' = ups /\ isRunning' = isRunning
        /\ Closers' = Closers \ {t}
    BY <1>3, <1>8, ReturnPlaces DEF handleDisconnection, Closers, Disconnecting
  <2>2. IsFiniteSet(Closers') /\ Cardinality(Closers') = n - 1 /\ n - 1 \in Nat
    <3>1. IsFiniteSet(Closers \ {t}) /\ Cardinality(Closers \ {t}) = n - 1
      BY <1>1, <2>1, FS_RemoveElement DEF n
    <3>2. Cardinality(Closers \ {t}) \in Nat
      BY <3>1, FS_CardinalityType
    <3>. QED
      BY <2>1, <3>1, <3>2
  <2>. QED
    BY <1>1, <1>2, <2>1, <2>2 DEF one
<1>. QED
  BY <1>4, <1>5, <1>6, <1>7, <1>8, NetCases

\* A connection that is open will be closed, as long as starts do not race.
LEMMA SocketStep == ASSUME Types, SocketInv, Next PROVE SocketInv'
<1> SUFFICES ASSUME ~raced' PROVE SocketInv'
  BY DEF SocketInv
<1>0. /\ pc \in [Threads -> Places] /\ isRunning \in BOOLEAN /\ sockets \subseteq Starts /\ 0 \notin Starts
  BY DEF Types, ThreadTypes, FlagTypes, NetTypes, Starts
<1>1. ~raced
  <2>1. CASE UNCHANGED raced
    BY <2>1
  <2>2. ASSUME NEW s \in Starts, NoteRace(Starter(s)) PROVE ~raced
    BY <2>2 DEF NoteRace
  <2>6. CASE SendStep
    BY <2>1, <2>6, SendFrame
  <2>3. CASE DeviceStep \/ stopForwarding \/ ReportStopped
    BY <2>1, <2>3, <2>6 DEF DeviceStep, RequestAttach, RequestDetach, UsbDetached, JobStep, SendStep,
                      stopForwarding, ReportStopped, netVars
  <2>4. ASSUME NEW t \in Threads, BeginReceive(t) \/ Ending(t) \/ \E w : EndReceive(t, w) PROVE ~raced
    BY <2>1, <2>4 DEF BeginReceive, Ending, EndReceive, disconnect, CancelJobs, CloseSocket,
                      handleDisconnection, netVars
  <2>5. ASSUME NEW s \in Starts, \/ SetRunning(s) \/ ServerCloses(s) \/ OpenSocket(s)
                                 \/ StartJobs(s) \/ ReportRunning(s) \/ ReportError(s) \/ LoopTest(s)
        PROVE  ~raced
    BY <2>1, <2>5 DEF SetRunning, ServerCloses, OpenSocket, StartJobs, ReportRunning,
                      ReportError, LoopTest, netVars
  <2>. QED
    BY <2>2, <2>3, <2>4, <2>5, <2>6, ThreadNames, SendSteps
       DEF Next, ThreadStep, MainStep, StarterStep, LoopStep, DeviceStep, ReceiveConnected, startForwarding,
           connect, ReceiveOrTimeout, ReceiveFails, RequestReset
<1>2. SocketInv!2
  BY <1>1 DEF SocketInv
<1>3. CASE SameView
  <2>1. \A t \in Threads : pc'[t] \in {"cancel", "bye", "close"} <=> pc[t] \in {"cancel", "bye", "close"}
    BY <1>3 DEF SameView, Disconnecting
  <2>. QED
    BY <1>2, <1>3, <2>1, ThreadNames DEF SameView, SocketInv
<1>4. ASSUME NEW s \in Starts, connect(s) PROVE SocketInv'
  <2>1. /\ pc[Starter(s)] = "connect" /\ UNCHANGED <<isRunning, sockets, stream>>
        /\ pc'[Starter(s)] = IF isRunning THEN "refused" ELSE "opening"
        /\ \A t \in Threads \ {Starter(s)} : pc'[t] = pc[t] /\ ~InProgress(t)
    BY <1>0, <1>4, ThreadNames DEF connect, Goto, NoteRace
  <2>2. \A t \in Threads : pc[t] \notin {"cancel", "bye", "close", "opening", "opened"}
    BY <2>1 DEF InProgress, Connecting, Disconnecting
  <2>3. \A t \in Threads : pc'[t] \notin {"cancel", "bye", "close", "opened"}
    BY <2>1, <2>2
  <2>4. \A x \in Starts : pc'[Starter(x)] = "opening" => x = s
    BY <2>1, <2>2, ThreadNames
  <2>5. sockets # {} => isRunning
    BY <1>2, <2>2, ThreadNames
  <2>. QED
    BY <1>2, <2>1, <2>3, <2>4, <2>5, ThreadNames DEF SocketInv
<1>5. ASSUME NEW s \in Starts, OpenSocket(s) PROVE SocketInv'
  <2>1. /\ pc[Starter(s)] = "opening" /\ UNCHANGED isRunning /\ sockets = {}
        /\ \/ pc'[Starter(s)] = "opened" /\ stream' = s /\ sockets' = {s}
           \/ pc'[Starter(s)] = "disconnect" /\ sockets' = {}
        /\ \A t \in Threads \ {Starter(s)} : pc'[t] = pc[t]
    BY <1>0, <1>2, <1>5, ThreadNames DEF OpenSocket, Goto
  <2>2. ~isRunning' /\ \A t \in Threads : pc'[t] \notin {"cancel", "bye", "close"}
    BY <1>2, <2>1
  <2>3. \A x \in Starts : pc'[Starter(x)] \in {"opening", "opened"} => x = s /\ pc'[Starter(x)] = "opened"
    BY <1>2, <2>1, ThreadNames
  <2>4. sockets' # {} => pc'[Starter(s)] = "opened" /\ sockets' \subseteq {stream'}
    BY <2>1
  <2>. QED
    BY <2>2, <2>3, <2>4 DEF SocketInv
<1>6. ASSUME NEW s \in Starts, SetRunning(s) PROVE SocketInv'
  <2>1. /\ pc[Starter(s)] = "opened" /\ pc'[Starter(s)] = "hello" /\ isRunning'
        /\ UNCHANGED <<sockets, stream>>
        /\ \A t \in Threads \ {Starter(s)} : pc'[t] = pc[t]
    BY <1>0, <1>6, ThreadNames DEF SetRunning, Goto
  <2>2. \A x \in Starts : pc'[Starter(x)] \notin {"opening", "opened"}
    BY <1>2, <2>1, ThreadNames
  <2>. QED
    BY <1>2, <2>1, <2>2 DEF SocketInv
<1>7. ASSUME NEW t \in Threads, disconnect(t) PROVE SocketInv'
  <2>1. /\ pc[t] = "disconnect" /\ ~isRunning' /\ UNCHANGED <<sockets, stream>>
        /\ pc'[t] = IF isRunning THEN "cancel" ELSE Return(t)
        /\ \A x \in Threads \ {t} : pc'[x] = pc[x]
    BY <1>0, <1>7 DEF disconnect, Goto
  <2>2. pc'[t] \in {"cancel", "stopped", "refused", "ended"} /\ (pc'[t] = "cancel" => isRunning)
    BY <2>1, ReturnPlaces
  <2>3. \A x \in Starts : /\ pc'[Starter(x)] = "opening" <=> pc[Starter(x)] = "opening"
                          /\ pc'[Starter(x)] = "opened" <=> pc[Starter(x)] = "opened"
    BY <2>1, <2>2, ThreadNames
  <2>4. (\E x \in Starts : pc'[Starter(x)] \in {"opening", "opened"})
            => \A x \in Threads : pc'[x] \notin {"cancel", "bye", "close"}
    BY <1>2, <2>1, <2>2, <2>3
  <2>5. sockets' # {} => \/ \E x \in Threads : pc'[x] \in {"cancel", "bye", "close"}
                         \/ \E x \in Starts : pc'[Starter(x)] = "opened"
    <3>1. CASE isRunning
      BY <2>1, <3>1
    <3>2. CASE ~isRunning
      BY <1>2, <2>1, <2>3, <3>2
    <3>. QED
      BY <3>1, <3>2
  <2>. QED
    BY <1>2, <2>1, <2>3, <2>4, <2>5 DEF SocketInv
<1>8. ASSUME NEW t \in Threads, CloseSocket(t) PROVE SocketInv'
  <2>1. /\ pc[t] = "close" /\ sockets' = {} /\ isRunning' = isRunning
        /\ pc'[t] = "callback" /\ \A x \in Threads \ {t} : pc'[x] = pc[x]
    BY <1>0, <1>2, <1>8 DEF CloseSocket, Goto
  <2>2. \A x \in Starts : pc'[Starter(x)] \notin {"opening", "opened"}
    BY <1>2, <2>1, ThreadNames
  <2>. QED
    BY <2>1, <2>2 DEF SocketInv
<1>9. ASSUME NEW t \in Threads, handleDisconnection(t) PROVE SocketInv'
  <2>1. /\ pc[t] = "callback" /\ UNCHANGED <<sockets, stream, isRunning>>
        /\ pc'[t] \in {"stopped", "refused", "ended"} /\ \A x \in Threads \ {t} : pc'[x] = pc[x]
    BY <1>0, <1>9, ReturnPlaces DEF handleDisconnection, Goto
  <2>2. \A x \in Threads : /\ pc'[x] \in {"cancel", "bye", "close"} <=> pc[x] \in {"cancel", "bye", "close"}
                           /\ pc'[x] = "opening" <=> pc[x] = "opening"
                           /\ pc'[x] = "opened" <=> pc[x] = "opened"
    BY <2>1
  <2>. QED
    BY <1>2, <2>1, <2>2, ThreadNames DEF SocketInv
<1>. QED
  BY <1>3, <1>4, <1>5, <1>6, <1>7, <1>8, <1>9, NetCases

----------------------------------------------------------------------------
(* The theorems.                                                           *)

\* The service that has never been started.
LEMMA InitIInv == ASSUME Init PROVE IInv
<1>1. FlagTypes
  BY DEF Init, FlagTypes
<1>2. NetTypes /\ ServiceTypes /\ ThreadTypes
  BY MobileAssumption DEF Init, NetTypes, ServiceTypes, ThreadTypes, MonitorHeld, Fresh, Places, Early, Starts,
     Threads, Starters, Loops, Nobody, Main, Starter, Loop, Holders
<1>3. DeviceTypes
  BY MobileAssumption DEF Init, DeviceTypes, JobType, NoJob
<1>4. Closers = {}
  BY DEF Init, Closers, Disconnecting
<1>5. TeardownInv
  BY <1>4, FS_EmptySet DEF Init, TeardownInv, TornDownOnce, Closers
<1>6. SocketInv
  BY ThreadNames DEF Init, SocketInv
<1>7. PollInv
  BY DEF Init, PollInv, Launching, Known, At, NoJob
<1>. QED
  BY <1>1, <1>2, <1>3, <1>5, <1>6, <1>7 DEF IInv, Types

\* Nothing in the invariant depends on more than the variables.
LEMMA StutterIInv == ASSUME IInv, UNCHANGED vars PROVE IInv'
<1>1. Types'
  BY DEF IInv, Types, FlagTypes, NetTypes, ThreadTypes, MonitorHeld, Fresh, ServiceTypes, DeviceTypes, vars,
         netVars, serviceVars, deviceVars
<1>2. TeardownInv'
  BY DEF IInv, TeardownInv, TornDownOnce, Closers, vars, netVars
<1>3. SocketInv'
  BY DEF IInv, SocketInv, vars, netVars
<1>4. PollInv'
  BY DEF IInv, PollInv, Launching, Known, At, vars, deviceVars
<1>. QED
  BY <1>1, <1>2, <1>3, <1>4 DEF IInv

(***************************************************************************)
(* The inductive invariant: types, teardowns, sockets and pollers.         *)
(***************************************************************************)
THEOREM MobileInductive == Spec => []IInv
<1>1. ASSUME IInv, [Next]_vars PROVE IInv'
  <2>1. CASE Next
    <3>1. Types'
      BY <1>1, <2>1, FlagStep, NetStep, ThreadsStep, ServiceStep, DevicesStep DEF IInv, Types
    <3>. QED
      BY <1>1, <2>1, <3>1, TeardownStep, SocketStep, PollStep DEF IInv
  <2>. QED
    BY <1>1, <2>1, StutterIInv
<1>. QED
  BY <1>1, InitIInv, PTL DEF Spec

(***************************************************************************)
(* Types of all variables, among them that a thread holds the monitor of   *)
(* receiveMessage() and sendMessageSync() only where it receives or sends. *)
(***************************************************************************)
THEOREM MobileTypeCorrect == Spec => []TypeOK
<1>1. IInv => TypeOK
  BY DEF IInv, Types, FlagTypes, NetTypes, ThreadTypes, MonitorHeld, ServiceTypes, DeviceTypes, JobType, Places,
         Inside, TypeOK
<1>. QED
  BY <1>1, MobileInductive, PTL

(***************************************************************************)
(* However the calls of disconnect() by the main thread, a failing         *)
(* connect() and the receive loops overlap, a connection is torn down and  *)
(* reported at most once for every time it came up.                        *)
(***************************************************************************)
THEOREM MobileTornDownOnce == Spec => []TornDownOnce
<1>1. IInv => TornDownOnce
  BY DEF IInv, TeardownInv
<1>. QED
  BY <1>1, MobileInductive, PTL

(***************************************************************************)
(* Unless a start overlaps another start or a disconnect(), no socket is   *)
(* left open when all threads have settled without a connection.           *)
(***************************************************************************)
THEOREM MobileSocketsClosed == Spec => []SocketsClosed
<1>1. ASSUME IInv PROVE SocketsClosed
  <2>1. Settled => \A t \in Threads : pc[t] \notin {"cancel", "bye", "close", "opened"}
    BY DEF Settled, InProgress, Connecting, Disconnecting
  <2>. QED
    BY <1>1, <2>1, ThreadNames DEF IInv, SocketInv, SocketsClosed
<1>. QED
  BY <1>1, MobileInductive, PTL

(***************************************************************************)
(* Unless attaches of a device overlap, the only poller of the device is   *)
(* the one that stopPolling() cancels, or that startPolling has launched   *)
(* and is about to enter into pollingJobs (it looks at pollingJobs,        *)
(* launches and writes in three steps).                                    *)
(***************************************************************************)
THEOREM MobilePollerCanBeStopped == Spec => []PollerCanBeStopped
<1>1. IInv => PollerCanBeStopped
  BY DEF IInv, PollInv, Known, PollerCanBeStopped
<1>. QED
  BY <1>1, MobileInductive, PTL

=============================================================================

---------------------- MODULE VusbUserspaceMainProofs ----------------------
(***************************************************************************)
(* Proofs about VusbUserspaceMain, for any number of Ctrl+C events and     *)
(* keys: what main() releases at its end, and which locks the console uses.*)
(***************************************************************************)
EXTENDS VusbUserspaceMain, TLAPS

\* The places of main() in which it executes VusbUsStop or is past it.
Stopping == {"stop", "set", "testSocket", "closeSocket", "resetSocket"}
Deleted == {"event", "return"}
Cleaning == Stopping \cup {"devices", "file", "delete"} \cup Deleted

\* main() has returned after a successful VusbUsInit.
Over == pc["main"] = "exited" /\ ShutdownEvent # "none"

\* The listening socket is open only between listen() and the end of VusbUsRun,
\* and the capture file between its start and VusbUsStopCapture.
OpenWhileUsed ==
    /\ listener = "open" => pc["main"] \in {"publish", "setRunning", "loop", "select", "close"}
    /\ CaptureFile => pc["main"] \notin {"init", "capture", "delete", "event", "return", "exited"}

\* The locks are deleted all at once by VusbUsCleanup; nobody brings one back.
LocksPhase ==
    \/ /\ pc["main"] \in Deleted \/ Over
       /\ \A l \in Locks : lock[l] = "deleted"
    \/ /\ pc["main"] \notin Deleted /\ ~Over
       /\ \A l \in Locks : lock[l] # "deleted"

\* The event exists from VusbUsInit to CloseEvent.
EventPhase ==
    /\ pc["main"] = "init" => ShutdownEvent = "none"
    /\ pc["main"] \notin {"init", "return", "exited"} => ShutdownEvent = "open"
    /\ pc["main"] = "return" => ShutdownEvent = "closed"
    /\ pc["main"] = "exited" => ShutdownEvent \in {"none", "closed"}

\* Once main() has left its wait for the console thread, that thread is over or
\* main() gave up on it; a lock is misused only after they have been deleted.
ConsoleOver ==
    /\ pc["main"] \in Cleaning \/ Over => timedOut \/ pc["console"] \in {"none", "ended"}
    /\ "lock" \in misused => timedOut /\ (pc["main"] \in Deleted \/ Over)

IInv ==
    /\ TypeOK
    /\ DOMAIN pc = Threads /\ pc = [t \in Threads |-> pc[t]]
    /\ OpenWhileUsed /\ LocksPhase /\ EventPhase /\ ConsoleOver

\* Thread t moves and the others stay.
LEMMA GotoFacts ==
    ASSUME IInv, NEW t \in Threads, NEW from, NEW to, Goto(t, from, to)
    PROVE  /\ pc[t] = from /\ pc'[t] = to /\ pc["main"] # "exited"
           /\ \A x \in Threads \ {t} : pc'[x] = pc[x]
           /\ DOMAIN pc' = Threads /\ pc' = [x \in Threads |-> pc'[x]]
BY DEF IInv, Goto

\* The threads are different.
LEMMA ThreadFacts ==
    /\ "main" \in Threads /\ "console" \in Threads /\ Signal \subseteq Threads
    /\ \A t \in Signal : t # "main" /\ t # "console"
BY MainAssumption DEF Threads

\* A step of main().
LEMMA MainStep == IInv /\ Main => IInv'
<1> SUFFICES ASSUME IInv, Main PROVE IInv'
  OBVIOUS
<1> USE ThreadFacts DEF TypeOK, OpenWhileUsed, LocksPhase, EventPhase, ConsoleOver, Stopping,
        Deleted, Cleaning, Over, resources
<1>1. CASE VusbUsInit
  <2>0. (Running \in BOOLEAN /\ CaptureFile \in BOOLEAN /\ timedOut \in BOOLEAN)'
    BY <1>1 DEF VusbUsInit, IInv
  <2>1. TypeOK'
    BY <1>1, <2>0, GotoFacts DEF VusbUsInit, IInv
  <2>2. (DOMAIN pc = Threads /\ pc = [x \in Threads |-> pc[x]])'
    BY <1>1, GotoFacts DEF VusbUsInit
  <2>3. OpenWhileUsed'
    BY <1>1, GotoFacts DEF VusbUsInit, IInv
  <2>4. LocksPhase'
    BY <1>1, GotoFacts DEF VusbUsInit, IInv
  <2>5. EventPhase'
    BY <1>1, GotoFacts DEF VusbUsInit, IInv
  <2>6. ConsoleOver'
    BY <1>1, GotoFacts DEF VusbUsInit, IInv
  <2>. QED
    BY <2>1, <2>2, <2>3, <2>4, <2>5, <2>6 DEF IInv
<1>2. CASE VusbUsStartCapture
  <2>0. (Running \in BOOLEAN /\ CaptureFile \in BOOLEAN /\ timedOut \in BOOLEAN)'
    BY <1>2 DEF VusbUsStartCapture, IInv
  <2>1. TypeOK'
    BY <1>2, <2>0, GotoFacts DEF VusbUsStartCapture, IInv
  <2>2. (DOMAIN pc = Threads /\ pc = [x \in Threads |-> pc[x]])'
    BY <1>2, GotoFacts DEF VusbUsStartCapture
  <2>3. OpenWhileUsed'
    BY <1>2, GotoFacts DEF VusbUsStartCapture, IInv
  <2>4. LocksPhase'
    BY <1>2, GotoFacts DEF VusbUsStartCapture, IInv
  <2>5. EventPhase'
    BY <1>2, GotoFacts DEF VusbUsStartCapture, IInv
  <2>6. ConsoleOver'
    BY <1>2, GotoFacts DEF VusbUsStartCapture, IInv
  <2>. QED
    BY <2>1, <2>2, <2>3, <2>4, <2>5, <2>6 DEF IInv
<1>3. CASE StartConsole
  BY <1>3, GotoFacts DEF StartConsole, IInv
<1>4. CASE Listen
  BY <1>4, GotoFacts DEF Listen, IInv
<1>5. CASE ListenFails
  BY <1>5, GotoFacts DEF ListenFails, IInv
<1>6. CASE PublishSocket
  BY <1>6, GotoFacts DEF PublishSocket, IInv
<1>7. CASE SetRunning
  BY <1>7, GotoFacts DEF SetRunning, IInv
<1>8. CASE LoopTest
  BY <1>8, GotoFacts DEF LoopTest, IInv
<1>9. CASE Select
  BY <1>9, GotoFacts DEF Select, IInv
<1>10. CASE CloseListener
  BY <1>10, GotoFacts DEF CloseListener, IInv
<1>11. CASE WaitForClients
  BY <1>11, GotoFacts DEF WaitForClients, IInv
<1>12. CASE WaitForConsole
  <2>1. TypeOK'
    BY <1>12, GotoFacts DEF WaitForConsole, IInv
  <2>2. (DOMAIN pc = Threads /\ pc = [x \in Threads |-> pc[x]])'
    BY <1>12, GotoFacts DEF WaitForConsole
  <2>3. OpenWhileUsed'
    BY <1>12, GotoFacts DEF WaitForConsole, IInv
  <2>4. LocksPhase'
    BY <1>12, GotoFacts DEF WaitForConsole, IInv
  <2>5. EventPhase'
    BY <1>12, GotoFacts DEF WaitForConsole, IInv
  <2>6. ConsoleOver'
    <3>1. /\ pc["main"] = "join" /\ pc'["main"] = "stop" /\ pc'["console"] = pc["console"]
          /\ misused' = misused
      BY <1>12, GotoFacts DEF WaitForConsole
    <3>2. "lock" \notin misused
      BY <3>1 DEF IInv
    <3>3. timedOut' \/ pc["console"] \in {"none", "ended"}
      BY <1>12 DEF WaitForConsole
    <3>. QED
      BY <3>1, <3>2, <3>3
  <2>. QED
    BY <2>1, <2>2, <2>3, <2>4, <2>5, <2>6 DEF IInv
<1>13. CASE CleanupDevices
  BY <1>13, GotoFacts DEF CleanupDevices, IInv
<1>14. CASE VusbUsStopCapture
  <2>0. (Running \in BOOLEAN /\ CaptureFile \in BOOLEAN /\ timedOut \in BOOLEAN)'
    BY <1>14 DEF VusbUsStopCapture, IInv
  <2>1. TypeOK'
    BY <1>14, <2>0, GotoFacts DEF VusbUsStopCapture, IInv
  <2>2. (DOMAIN pc = Threads /\ pc = [x \in Threads |-> pc[x]])'
    BY <1>14, GotoFacts DEF VusbUsStopCapture
  <2>3. OpenWhileUsed'
    BY <1>14, GotoFacts DEF VusbUsStopCapture, IInv
  <2>4. LocksPhase'
    BY <1>14, GotoFacts DEF VusbUsStopCapture, IInv
  <2>5. EventPhase'
    BY <1>14, GotoFacts DEF VusbUsStopCapture, IInv
  <2>6. ConsoleOver'
    BY <1>14, GotoFacts DEF VusbUsStopCapture, IInv
  <2>. QED
    BY <2>1, <2>2, <2>3, <2>4, <2>5, <2>6 DEF IInv
<1>15. CASE DeleteLocks
  BY <1>15, GotoFacts DEF DeleteLocks, IInv
<1>16. CASE CloseEvent
  BY <1>16, GotoFacts DEF CloseEvent, IInv
<1>17. CASE Return
  BY <1>17, GotoFacts DEF Return, IInv
<1>. QED
  BY <1>1, <1>2, <1>3, <1>4, <1>5, <1>6, <1>7, <1>8, <1>9, <1>10, <1>11, <1>12, <1>13, <1>14, <1>15, <1>16, <1>17
  DEF Main

\* A step of VusbUsStop, in whatever thread.
LEMMA StopStep ==
    ASSUME IInv, NEW t \in Threads, VusbUsStop(t) PROVE IInv'
<1> USE ThreadFacts DEF TypeOK, OpenWhileUsed, LocksPhase, EventPhase, ConsoleOver, Stopping,
        Deleted, Cleaning, Over, resources
<1>1. CASE ClearRunning(t)
  <2>0. (Running \in BOOLEAN /\ CaptureFile \in BOOLEAN /\ timedOut \in BOOLEAN)'
    BY <1>1 DEF ClearRunning, IInv
  <2>1. TypeOK'
    BY <1>1, <2>0, GotoFacts DEF ClearRunning, IInv
  <2>2. (DOMAIN pc = Threads /\ pc = [x \in Threads |-> pc[x]])'
    BY <1>1, GotoFacts DEF ClearRunning
  <2>3. OpenWhileUsed'
    BY <1>1, GotoFacts DEF ClearRunning, IInv
  <2>4. LocksPhase'
    BY <1>1, GotoFacts DEF ClearRunning, IInv
  <2>5. EventPhase'
    BY <1>1, GotoFacts DEF ClearRunning, IInv
  <2>6. ConsoleOver'
    BY <1>1, GotoFacts DEF ClearRunning, IInv
  <2>. QED
    BY <2>1, <2>2, <2>3, <2>4, <2>5, <2>6 DEF IInv
<1>2. CASE SetShutdownEvent(t)
  BY <1>2, GotoFacts DEF SetShutdownEvent, IInv
<1>3. CASE TestSocket(t)
  BY <1>3, GotoFacts DEF TestSocket, AfterStop, IInv
<1>4. CASE CloseSocket(t)
  BY <1>4, GotoFacts DEF CloseSocket, IInv
<1>5. CASE ResetSocket(t)
  BY <1>5, GotoFacts DEF ResetSocket, AfterStop, IInv
<1>. QED
  BY <1>1, <1>2, <1>3, <1>4, <1>5 DEF VusbUsStop

\* A step of the console thread.
LEMMA ConsoleStep == IInv /\ ConsoleThread => IInv'
<1> SUFFICES ASSUME IInv, ConsoleThread PROVE IInv'
  OBVIOUS
<1> USE ThreadFacts DEF TypeOK, OpenWhileUsed, LocksPhase, EventPhase, ConsoleOver, Stopping,
        Deleted, Cleaning, Over, resources
<1>1. CASE ConsoleTest
  BY <1>1, GotoFacts DEF ConsoleTest, IInv
<1>2. CASE NoKey
  BY <1>2, GotoFacts DEF NoKey, IInv
<1>3. CASE Key
  BY <1>3, GotoFacts, MainAssumption DEF Key, IInv
<1>4. CASE LeaveLock
  BY <1>4, GotoFacts DEF LeaveLock, IInv
<1>5. ASSUME NEW l \in {"DeviceLock", "ClientLock"}, EnterLock(l) PROVE IInv'
  BY <1>5, GotoFacts DEF EnterLock, IInv, Locks
<1>. QED
  BY <1>1, <1>2, <1>3, <1>4, <1>5 DEF ConsoleThread

\* A Ctrl+C starts a thread.
LEMMA SignalStep ==
    ASSUME IInv, NEW t \in Signal, ConsoleHandler(t) PROVE IInv'
BY GotoFacts, ThreadFacts
DEF ConsoleHandler, IInv, TypeOK, OpenWhileUsed, LocksPhase, EventPhase, ConsoleOver, Stopping,
    Deleted, Cleaning, Over, resources

----------------------------------------------------------------------------
(***************************************************************************)
(* The inductive invariant holds in every reachable state.                 *)
(***************************************************************************)
THEOREM MainInductive == Spec => []IInv
<1>1. Init => IInv
  <2> SUFFICES ASSUME Init PROVE IInv
    OBVIOUS
  <2>1. /\ pc["main"] = "init" /\ pc["console"] = "none" /\ \A t \in Signal : pc[t] = "idle"
        /\ DOMAIN pc = Threads /\ pc = [t \in Threads |-> pc[t]]
    BY ThreadFacts DEF Init
  <2>2. Running \in BOOLEAN /\ CaptureFile \in BOOLEAN /\ timedOut \in BOOLEAN
    BY DEF Init
  <2>3. keys \in 0..MaxKeys
    BY MainAssumption DEF Init
  <2>4. TypeOK
    BY <2>1, <2>2, <2>3 DEF Init, TypeOK
  <2>5. OpenWhileUsed /\ LocksPhase /\ EventPhase /\ ConsoleOver
    BY <2>1 DEF Init, OpenWhileUsed, LocksPhase, EventPhase, ConsoleOver, Stopping, Deleted,
                Cleaning, Over
  <2>. QED
    BY <2>1, <2>4, <2>5 DEF IInv
<1>2. IInv /\ [Next \/ Exited]_vars => IInv'
  <2>1. IInv /\ UNCHANGED vars => IInv'
    BY DEF vars, resources, IInv, TypeOK, OpenWhileUsed, LocksPhase, EventPhase, ConsoleOver, Over
  <2>. QED
    BY <2>1, MainStep, ConsoleStep, StopStep, SignalStep DEF Next, Exited
<1>. QED
  BY <1>1, <1>2, PTL DEF Spec

(***************************************************************************)
(* On every way through main() past VusbUsInit the socket, the capture     *)
(* file, the locks and the event are released at its end, for any number   *)
(* of stop requests that overlap with it.                                  *)
(***************************************************************************)
THEOREM MainExitReleasesAll == Spec => []ExitReleasesAll
<1>1. IInv => ExitReleasesAll
  BY DEF IInv, OpenWhileUsed, LocksPhase, EventPhase, Over, Deleted, ExitReleasesAll
<1>. QED
  BY <1>1, MainInductive, PTL

(***************************************************************************)
(* The console thread uses only locks that exist, unless main() gave up    *)
(* waiting for it.                                                         *)
(***************************************************************************)
THEOREM MainLocksLive == Spec => []LocksLive
<1>1. IInv => LocksLive
  BY DEF IInv, ConsoleOver, LocksLive
<1>. QED
  BY <1>1, MainInductive, PTL

=============================================================================

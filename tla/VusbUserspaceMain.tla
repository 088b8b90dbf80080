------------------------- MODULE VusbUserspaceMain -------------------------
(***************************************************************************)
(* The process of the userspace server (userspace/vusb_userspace_main.c):  *)
(* the main thread from VusbUsInit to VusbUsCleanup, the console thread,   *)
(* and the threads in which Windows runs ConsoleHandler on Ctrl+C, which   *)
(* share ctx->Running, the listening socket, the shutdown event and the    *)
(* locks.  Clients and devices are the business of VusbUserspace; here a   *)
(* connection is served by a step that leaves this state alone.            *)
(***************************************************************************)
EXTENDS Naturals, FiniteSets

CONSTANTS Signal,    \* the Ctrl+C events, each with a thread of its own
          MaxKeys    \* bound of the model: keys pressed

ASSUME MainAssumption == /\ IsFiniteSet(Signal) /\ MaxKeys \in Nat
                         /\ {"main", "console"} \cap Signal = {}

VARIABLES pc,            \* where each thread is
          option,        \* enableConsole and EnableCapture, from the command line
          Running,       \* ctx->Running
          ListenSocket,  \* ctx->ListenSocket: zeroed, INVALID_SOCKET or the socket
          listener,      \* the listening socket itself
          CaptureFile,   \* ctx->CaptureFile: is a file open?
          lock,          \* the critical sections and their holders
          ShutdownEvent, \* ctx->ShutdownEvent
          keys,          \* keys pressed so far
          timedOut,      \* history: main() gave up waiting for the console thread
          misused        \* history: what was used after it was deleted or closed

resources == <<option, ListenSocket, listener, CaptureFile, lock, ShutdownEvent>>
vars == <<pc, Running, resources, keys, timedOut, misused>>

Threads == {"main", "console"} \cup Signal
Locks == {"ClientLock", "DeviceLock", "CaptureLock"}

\* The global context is zero before VusbUsInit.
Init ==
    /\ pc = [t \in Threads |-> CASE t = "main" -> "init" [] t = "console" -> "none" [] OTHER -> "idle"]
    /\ option \in [console: BOOLEAN, capture: BOOLEAN]
    /\ Running = FALSE
    /\ ListenSocket = "zero"
    /\ listener = "none"
    /\ CaptureFile = FALSE
    /\ lock = [l \in Locks |-> "none"]
    /\ ShutdownEvent = "none"
    /\ keys = 0
    /\ timedOut = FALSE
    /\ misused = {}

\* Thread t goes from one place to another, in a process that is still there.
Goto(t, from, to) ==
    /\ pc["main"] # "exited"
    /\ pc[t] = from
    /\ pc' = [pc EXCEPT ![t] = to]

----------------------------------------------------------------------------
(* The main thread.                                                        *)

\* VusbUsInit zeroes the context and creates locks and event.  Without Winsock
\* main() returns.
VusbUsInit ==
    /\ \/ /\ Goto("main", "init", "capture")
          /\ Running' = FALSE
          /\ ListenSocket' = "invalid"
          /\ lock' = [l \in Locks |-> "free"]
          /\ ShutdownEvent' = "open"
       \/ /\ Goto("main", "init", "exited")
          /\ UNCHANGED <<Running, ListenSocket, lock, ShutdownEvent>>
    /\ UNCHANGED <<option, listener, CaptureFile, keys, timedOut, misused>>

\* VusbUsStartCapture, if asked for; main() ignores a failure.
VusbUsStartCapture ==
    /\ Goto("main", "capture", "console")
    /\ CaptureFile' \in IF option.capture THEN BOOLEAN ELSE {FALSE}
    /\ UNCHANGED <<option, Running, ListenSocket, listener, lock, ShutdownEvent, keys,
                   timedOut, misused>>

\* CreateThread(ConsoleThread), which may fail.
StartConsole ==
    /\ \/ Goto("main", "console", "listen")
       \/ /\ option.console
          /\ pc["main"] = "console"
          /\ pc' = [pc EXCEPT !["main"] = "listen", !["console"] = "test"]
    /\ UNCHANGED <<Running, resources, keys, timedOut, misused>>

\* VusbUsRun: socket(), bind() and listen() ...
Listen ==
    /\ Goto("main", "listen", "publish")
    /\ listener' = "open"
    /\ UNCHANGED <<option, Running, ListenSocket, CaptureFile, lock, ShutdownEvent, keys,
                   timedOut, misused>>

\* A faulty variant: bind() or listen() fails and the socket stays open.
FailWithoutClose ==
    /\ Goto("main", "listen", "join")
    /\ listener' \in {"none", "open"}
    /\ UNCHANGED <<option, Running, ListenSocket, CaptureFile, lock, ShutdownEvent, keys,
                   timedOut, misused>>

\* ... of which the first fails, or a later one, and the socket is closed.
ListenFails ==
    /\ Goto("main", "listen", "join")
    /\ listener' \in {"none", "closed"}
    /\ UNCHANGED <<option, Running, ListenSocket, CaptureFile, lock, ShutdownEvent, keys,
                   timedOut, misused>>

PublishSocket ==
    /\ Goto("main", "publish", "setRunning")
    /\ ListenSocket' = "socket"
    /\ UNCHANGED <<option, Running, listener, CaptureFile, lock, ShutdownEvent, keys,
                   timedOut, misused>>

SetRunning ==
    /\ Goto("main", "setRunning", "loop")
    /\ Running' = TRUE
    /\ UNCHANGED <<resources, keys, timedOut, misused>>

\* while (ctx->Running)
LoopTest ==
    /\ Goto("main", "loop", IF Running THEN "select" ELSE "close")
    /\ UNCHANGED <<Running, resources, keys, timedOut, misused>>

\* select() times out after a second, fails on a closed socket, or reports a
\* connection, which is accepted and served.
Select ==
    /\ Goto("main", "select", "loop")
    /\ UNCHANGED <<Running, resources, keys, timedOut, misused>>

CloseListener ==
    /\ Goto("main", "close", "clients")
    /\ listener' = "closed"
    /\ ListenSocket' = "invalid"
    /\ UNCHANGED <<option, Running, CaptureFile, lock, ShutdownEvent, keys, timedOut, misused>>

\* "Wait for client threads", under ClientLock; VusbUsRun returns.
WaitForClients ==
    /\ lock["ClientLock"] = "free"
    /\ Goto("main", "clients", "join")
    /\ UNCHANGED <<Running, resources, keys, timedOut, misused>>

\* A faulty variant: main() cleans up without waiting for the console thread.
CloseWithoutWait ==
    /\ Goto("main", "join", "stop")
    /\ UNCHANGED <<Running, resources, keys, timedOut, misused>>

\* WaitForSingleObject(consoleThread, 1000): the thread has ended, or time is up.
WaitForConsole ==
    /\ Goto("main", "join", "stop")
    /\ timedOut' = (pc["console"] \notin {"none", "ended"})
    /\ UNCHANGED <<Running, resources, keys, misused>>

\* VusbUsCleanup: devices under DeviceLock ...
CleanupDevices ==
    /\ lock["DeviceLock"] = "free"
    /\ Goto("main", "devices", "file")
    /\ UNCHANGED <<Running, resources, keys, timedOut, misused>>

\* ... VusbUsStopCapture ...
VusbUsStopCapture ==
    /\ Goto("main", "file", "delete")
    /\ CaptureFile' = FALSE
    /\ UNCHANGED <<option, Running, ListenSocket, listener, lock, ShutdownEvent, keys,
                   timedOut, misused>>

\* ... the locks, the event, and the end of the process with all its threads.
DeleteLocks ==
    /\ Goto("main", "delete", "event")
    /\ lock' = [l \in Locks |-> "deleted"]
    /\ UNCHANGED <<option, Running, ListenSocket, listener, CaptureFile, ShutdownEvent, keys,
                   timedOut, misused>>

CloseEvent ==
    /\ Goto("main", "event", "return")
    /\ ShutdownEvent' = "closed"
    /\ UNCHANGED <<option, Running, ListenSocket, listener, CaptureFile, lock, keys,
                   timedOut, misused>>

Return ==
    /\ Goto("main", "return", "exited")
    /\ UNCHANGED <<Running, resources, keys, timedOut, misused>>

Main ==
    \/ VusbUsInit \/ VusbUsStartCapture \/ StartConsole
    \/ Listen \/ ListenFails \/ PublishSocket \/ SetRunning
    \/ LoopTest \/ Select \/ CloseListener \/ WaitForClients \/ WaitForConsole
    \/ CleanupDevices \/ VusbUsStopCapture \/ DeleteLocks \/ CloseEvent \/ Return

----------------------------------------------------------------------------
(* VusbUsStop, in the thread of a Ctrl+C, of the console, or in main()'s   *)
(* VusbUsCleanup.                                                          *)

\* Where a thread goes on when VusbUsStop returns.
AfterStop(t) == CASE t = "main" -> "devices" [] t = "console" -> "test" [] OTHER -> "ended"

\* ConsoleHandler is installed before VusbUsInit.
ConsoleHandler(t) ==
    /\ Goto(t, "idle", "stop")
    /\ UNCHANGED <<Running, resources, keys, timedOut, misused>>

\* A faulty variant: only the socket is closed.
StopWithoutClear(t) ==
    /\ Goto(t, "stop", "set")
    /\ UNCHANGED <<Running, resources, keys, timedOut, misused>>

ClearRunning(t) ==
    /\ Goto(t, "stop", "set")
    /\ Running' = FALSE
    /\ UNCHANGED <<resources, keys, timedOut, misused>>

\* if (ctx->ShutdownEvent) SetEvent(ctx->ShutdownEvent)
SetShutdownEvent(t) ==
    /\ Goto(t, "set", "testSocket")
    /\ misused' = IF ShutdownEvent = "closed" THEN misused \cup {"event"} ELSE misused
    /\ UNCHANGED <<Running, resources, keys, timedOut>>

TestSocket(t) ==
    /\ Goto(t, "testSocket", IF ListenSocket # "invalid" THEN "closeSocket" ELSE AfterStop(t))
    /\ UNCHANGED <<Running, resources, keys, timedOut, misused>>

\* closesocket(ctx->ListenSocket), of whatever the field holds by now.
CloseSocket(t) ==
    /\ Goto(t, "closeSocket", "resetSocket")
    /\ listener' = IF ListenSocket = "socket" THEN "closed" ELSE listener
    /\ UNCHANGED <<option, Running, ListenSocket, CaptureFile, lock, ShutdownEvent, keys,
                   timedOut, misused>>

ResetSocket(t) ==
    /\ Goto(t, "resetSocket", AfterStop(t))
    /\ ListenSocket' = "invalid"
    /\ UNCHANGED <<option, Running, listener, CaptureFile, lock, ShutdownEvent, keys,
                   timedOut, misused>>

VusbUsStop(t) ==
    \/ ClearRunning(t) \/ SetShutdownEvent(t)
    \/ TestSocket(t) \/ CloseSocket(t) \/ ResetSocket(t)

----------------------------------------------------------------------------
(* The console thread.                                                     *)

\* while (ctx->Running)
ConsoleTest ==
    /\ Goto("console", "test", IF Running THEN "key" ELSE "ended")
    /\ UNCHANGED <<Running, resources, keys, timedOut, misused>>

\* No key, or one that only prints; Sleep(100).
NoKey ==
    /\ Goto("console", "key", "test")
    /\ UNCHANGED <<Running, resources, keys, timedOut, misused>>

\* s and d take DeviceLock (VusbUsGetStats, VusbUsListDevices), c ClientLock
\* (VusbUsListClients, which prints under it), q calls VusbUsStop.
Key ==
    /\ keys < MaxKeys
    /\ keys' = keys + 1
    /\ \E to \in {"DeviceLock", "ClientLock", "stop"} : Goto("console", "key", to)
    /\ UNCHANGED <<Running, resources, timedOut, misused>>

\* EnterCriticalSection; on a deleted lock anything may happen, and the model
\* lets the thread go on with its next key.
EnterLock(l) ==
    /\ \/ /\ lock[l] = "free"
          /\ Goto("console", l, "listing")
          /\ lock' = [lock EXCEPT ![l] = "held"]
          /\ UNCHANGED misused
       \/ /\ lock[l] = "deleted"
          /\ Goto("console", l, "test")
          /\ misused' = misused \cup {"lock"}
          /\ UNCHANGED lock
    /\ UNCHANGED <<option, Running, ListenSocket, listener, CaptureFile, ShutdownEvent, keys,
                   timedOut>>

\* The copy or the listing is made and the lock released.
LeaveLock ==
    /\ Goto("console", "listing", "test")
    /\ \/ /\ "deleted" \in {lock[l] : l \in Locks}
          /\ misused' = misused \cup {"lock"}
          /\ UNCHANGED lock
       \/ /\ "deleted" \notin {lock[l] : l \in Locks}
          /\ lock' = [l \in Locks |-> IF lock[l] = "held" THEN "free" ELSE lock[l]]
          /\ UNCHANGED misused
    /\ UNCHANGED <<option, Running, ListenSocket, listener, CaptureFile, ShutdownEvent, keys,
                   timedOut>>

ConsoleThread ==
    ConsoleTest \/ NoKey \/ Key \/ LeaveLock \/ \E l \in {"DeviceLock", "ClientLock"} : EnterLock(l)

----------------------------------------------------------------------------
Next ==
    \/ Main
    \/ ConsoleThread
    \/ \E t \in Signal : ConsoleHandler(t)
    \/ \E t \in Threads : VusbUsStop(t)

\* main() has returned.
Exited == pc["main"] = "exited" /\ UNCHANGED vars

Spec == Init /\ [][Next \/ Exited]_vars

(***************************************************************************)
(* Every thread is scheduled: its waits end (select() and the wait for the *)
(* console have timeouts, and a lock is held for a copy or a listing).     *)
(* Keys and Ctrl+C need not come.                                          *)
(***************************************************************************)
FairSpec ==
    /\ Spec
    /\ WF_vars(Main \/ VusbUsStop("main"))
    /\ WF_vars(ConsoleThread \/ VusbUsStop("console"))
    /\ \A t \in Signal : WF_vars(VusbUsStop(t))

----------------------------------------------------------------------------
(* Properties.                                                             *)

\* Types of all variables.
TypeOK ==
    /\ pc["main"] \in {"init", "capture", "console", "listen", "publish", "setRunning", "loop",
                       "select", "close", "clients", "join", "stop", "set", "testSocket",
                       "closeSocket", "resetSocket", "devices", "file", "delete", "event",
                       "return", "exited"}
    /\ pc["console"] \in {"none", "test", "key", "DeviceLock", "ClientLock", "listing", "stop",
                          "set", "testSocket", "closeSocket", "resetSocket", "ended"}
    /\ \A t \in Signal : pc[t] \in {"idle", "stop", "set", "testSocket", "closeSocket",
                                    "resetSocket", "ended"}
    /\ option \in [console: BOOLEAN, capture: BOOLEAN]
    /\ Running \in BOOLEAN /\ CaptureFile \in BOOLEAN /\ timedOut \in BOOLEAN
    /\ ListenSocket \in {"zero", "invalid", "socket"}
    /\ listener \in {"none", "open", "closed"}
    /\ lock \in [Locks -> {"none", "free", "held", "deleted"}]
    /\ ShutdownEvent \in {"none", "open", "closed"}
    /\ keys \in 0..MaxKeys
    /\ misused \subseteq {"lock", "event"}

(***************************************************************************)
(* A stop request that comes while the accept loop runs ("Press Ctrl+C to  *)
(* stop.", vusb_userspace.c:1062) ends the process, wherever the console   *)
(* and other stop requests are, and although an early Ctrl+C may have set  *)
(* ListenSocket to INVALID_SOCKET so that nobody closes the socket.        *)
(***************************************************************************)
StopEnds ==
    pc["main"] \in {"loop", "select"} /\ (\E t \in Threads : pc[t] = "stop")
        ~> pc["main"] = "exited"

(***************************************************************************)
(* On every way through main() that gets past VusbUsInit, failing ones     *)
(* included, the socket, the capture file, the locks and the event are     *)
(* released at its end.                                                    *)
(***************************************************************************)
ExitReleasesAll ==
    pc["main"] = "exited" /\ ShutdownEvent # "none" =>
        /\ listener # "open"
        /\ ~CaptureFile
        /\ \A l \in Locks : lock[l] = "deleted"
        /\ ShutdownEvent = "closed"

(***************************************************************************)
(* The console thread enters and leaves locks that exist, unless main()    *)
(* stopped waiting for it after its second: VusbUsCleanup deletes them     *)
(* while the thread could still be listing.                                *)
(***************************************************************************)
LocksLive == "lock" \in misused => timedOut

(***************************************************************************)
(* vusb_userspace.h:273, "VusbUsStop - Signal server to stop", at any      *)
(* time: a stop request before VusbUsRun sets Running is overwritten.      *)
(***************************************************************************)
StopAlwaysEnds ==
    \A t \in Signal : pc[t] = "ended" ~> pc["main"] = "exited"

(***************************************************************************)
(* vusb_userspace.c:1061 "Listening for connections...": while the accept  *)
(* loop runs its socket is open.  An early stop request that overlaps with *)
(* VusbUsRun closes the socket after Running was set, and the loop spins.  *)
(***************************************************************************)
ListensWhileRunning == pc["main"] = "select" /\ Running => listener = "open"

(***************************************************************************)
(* vusb_userspace_main.c:80 "Interactive Commands (press key)": the        *)
(* console serves as long as the server runs.  The thread is started       *)
(* before VusbUsRun sets Running, and ends at once if it tests it first.   *)
(***************************************************************************)
ConsoleStays == pc["main"] = "select" /\ Running => pc["console"] # "ended"

(***************************************************************************)
(* vusb_userspace_main.c:33 "Signal handler for graceful shutdown": it     *)
(* uses the shutdown event while it exists.  VusbUsCleanup closes it and   *)
(* keeps its value.                                                        *)
(***************************************************************************)
EventLive == "event" \notin misused

=============================================================================

----------------------------- MODULE VusbClient -----------------------------
(***************************************************************************)
(* The Windows client with USB capture (client/vusb_client_enhanced.c,     *)
(* vusb_client.c, vusb_client_urb.c, vusb_capture.c).  Two threads share   *)
(* one socket and the captured devices: the interactive thread sends a     *)
(* request and reads the response, the receive thread reads everything the *)
(* server sends and serves URBs.  No lock orders their calls of recv().    *)
(*                                                                         *)
(* TCP carries bytes, not messages: a recv() for the wrong message leaves  *)
(* the rest of it in the stream.  The stream is a sequence of units of 8   *)
(* bytes, each naming its message and its place in it.  The sizes below    *)
(* are the real ones.  A recv() with MSG_WAITALL takes its units at once.  *)
(*                                                                         *)
(* The fields of a SUBMIT_URB are read 16 bytes too far on (the payload is *)
(* cast to a structure that starts with the header), so the device id and  *)
(* the URB id the client works with are other fields of the message: here  *)
(* the device is any choice, and the URB id of the answer is left out.     *)
(*                                                                         *)
(* VusbDescriptors models another part of the same process; the names here *)
(* differ from the ones there, so that one module can extend both.         *)
(***************************************************************************)
EXTENDS Naturals, Sequences

CONSTANTS MaxLocals,    \* captured devices found by the scan
          MaxLines,     \* bound of the model: commands typed by the user
          MaxUrbs       \* bound of the model: SUBMIT_URB messages

ASSUME ClientAssumption == {MaxLocals, MaxLines, MaxUrbs} \subseteq Nat

VARIABLES Running,    \* ctx->Running
          Connected,  \* ctx->Base.Connected
          open,       \* the client has not closed its socket
          lost,       \* the server has closed the connection
          stream,     \* bytes sent by the server and not received yet
          requests,   \* requests sent and not yet answered by the server
          mpc,        \* where main(), the interactive thread, is
          asked,      \* its command, as [cmd, tag]
          infos,      \* VusbClientListDevices: DEVICE_INFOs still to receive
          rpc,        \* where the receive thread is
          header,     \* the header it has received last
          serving,    \* the URB it works on, and its device
          dev,        \* the captured devices
          lines,      \* history: commands typed
          urbs,       \* history: URBs sent by the server
          mismatch,   \* history: a command took something else for its response
          answers     \* history: completions sent for each URB

netVars == <<open, lost, stream, requests>>
uiVars == <<mpc, asked, infos, lines, mismatch>>
recvVars == <<rpc, header, serving, answers>>
sessionVars == <<Running, Connected, netVars, uiVars, recvVars, dev, urbs>>

Locals == 1..MaxLocals
Urbs == 1..MaxUrbs
Requests == {"PING", "ATTACH", "DETACH", "LIST"}

\* Sizes in units: VUSB_HEADER, the response structures, VUSB_URB_SUBMIT.
HeaderUnits == 2
InfoUnits == 26
ResponseUnits(cmd) == IF cmd \in {"ATTACH", "LIST"} THEN 3 ELSE HeaderUnits
SubmitUnits == 6

\* Bound of the model: entries of a device list, real or misread.
MaxListed == 1

\* The units of a message that is n units long.
Message(cmd, tag, n) == [k \in 1..n |-> [cmd |-> cmd, tag |-> tag, at |-> k, len |-> n]]

NoCommand == [cmd |-> "none", tag |-> 0]
NoHeader == [cmd |-> "none", tag |-> 0, at |-> 0, len |-> 0]
NoUrb == [urb |-> 0, device |-> 0]

\* DeviceHandle is "open" or INVALID_HANDLE_VALUE.
NotOpened == [Opened |-> FALSE, handle |-> "invalid"]

\* main() up to CreateThread: the scan may or may not have opened a device.  The
\* result of CreateThread is not looked at, and a receive thread without memory
\* for its buffer returns at once and leaves Connected set: then it is "absent".
SessionInit ==
    /\ Running = TRUE
    /\ Connected = TRUE
    /\ open = TRUE
    /\ lost = FALSE
    /\ stream = <<>>
    /\ requests = <<>>
    /\ mpc = "prompt"
    /\ asked = NoCommand
    /\ infos = 0
    /\ rpc \in {"header", "absent"}
    /\ header = NoHeader
    /\ serving = NoUrb
    /\ dev \in [Locals -> {NotOpened, [Opened |-> TRUE, handle |-> "open"]}]
    /\ lines = 0
    /\ urbs = 0
    /\ mismatch = FALSE
    /\ answers = [u \in Urbs |-> 0]

----------------------------------------------------------------------------
(* The socket and the server (external).                                   *)

Available(n) == open /\ Len(stream) >= n
Take(n) == stream' = SubSeq(stream, n + 1, Len(stream))

\* recv() fails: the socket is closed, or the stream ends before n units.
RecvFails(n) == ~open \/ (lost /\ Len(stream) < n)

\* The server answers the oldest request; a device list carries its entries.
ServerResponds ==
    /\ ~lost
    /\ open
    /\ requests # <<>>
    /\ LET r == Head(requests)
       IN \E n \in 0..MaxListed :
             /\ n > 0 => r.cmd = "LIST"
             /\ stream' = stream \o Message(r.cmd, r.tag, ResponseUnits(r.cmd) + n * InfoUnits)
    /\ requests' = Tail(requests)
    /\ UNCHANGED <<Running, Connected, open, lost, uiVars, recvVars, dev, urbs>>

\* The forwarder sends a URB of a device this client has attached.
ServerSubmits ==
    /\ ~lost
    /\ open
    /\ urbs < MaxUrbs
    /\ urbs' = urbs + 1
    /\ stream' = stream \o Message("SUBMIT_URB", urbs + 1, SubmitUnits)
    /\ UNCHANGED <<Running, Connected, open, lost, requests, uiVars, recvVars, dev>>

ServerCloses ==
    /\ ~lost
    /\ lost' = TRUE
    /\ UNCHANGED <<Running, Connected, open, stream, requests, uiVars, recvVars, dev, urbs>>

----------------------------------------------------------------------------
(* UsbCaptureOpenDevice, called by both threads without the capture lock.  *)

\* CreateFileW for a device that is not Opened; DeviceHandle gets the result,
\* whatever it held before.
CreateHandle(d) == dev' = [dev EXCEPT ![d].handle = "open"]

\* CreateFileW failed; or the device was found Opened by now, and stays so.
CreateFails(d) == dev' = [dev EXCEPT ![d].handle = "invalid"] \/ UNCHANGED dev

\* WinUsb_Initialize; on failure the handle, whoever opened it, is closed.
InitializeOk(d) == dev[d].handle = "open" /\ dev' = [dev EXCEPT ![d].Opened = TRUE]
InitializeFails(d) == dev' = [dev EXCEPT ![d].handle = "invalid"]

----------------------------------------------------------------------------
(* The interactive thread: RunEnhancedInteractive.                         *)

\* The loop condition holds; main() prints its prompt and sits in fgets().
AwaitLine ==
    /\ mpc = "prompt"
    /\ Running
    /\ Connected
    /\ mpc' = "typing"
    /\ UNCHANGED <<Running, Connected, netVars, asked, infos, lines, mismatch, recvVars, dev, urbs>>

\* A command is typed, which may be long after the loop condition held.
Typed == /\ mpc = "typing"
         /\ lines < MaxLines
         /\ lines' = lines + 1

\* An empty line, one that is no command, or "list", which changes nothing.
Ignored ==
    /\ mpc = "typing"
    /\ mpc' = "prompt"
    /\ UNCHANGED <<Running, Connected, netVars, asked, infos, lines, mismatch, recvVars, dev, urbs>>

\* A request is sent if Connected; send() fails on a lost connection.  Without
\* it the command returns.
SendRequest(cmd, tag) ==
    \/ /\ Connected
       /\ ~lost
       /\ requests' = Append(requests, [cmd |-> cmd, tag |-> tag])
       /\ asked' = [cmd |-> cmd, tag |-> tag]
       /\ mpc' = "await"
    \/ /\ ~Connected \/ lost
       /\ mpc' = "prompt"
       /\ UNCHANGED <<requests, asked>>

\* ping, detach, remote, sim, and attach for a device that is open.
Request(cmd) ==
    /\ Typed
    /\ cmd = "ATTACH" => \E d \in Locals : dev[d].Opened
    /\ SendRequest(cmd, lines + 1)
    /\ UNCHANGED <<Running, Connected, open, lost, stream, infos, mismatch, recvVars, dev, urbs>>

\* scan, info, and attach for a device that is not: CreateFileW, or no handle.
StartOpen(d, then) ==
    /\ Typed
    /\ ~dev[d].Opened
    /\ \/ /\ CreateHandle(d)
          /\ mpc' = then
          /\ asked' = [cmd |-> "OPEN", tag |-> d]
       \/ /\ CreateFails(d)
          /\ mpc' = "prompt"
          /\ UNCHANGED asked
    /\ UNCHANGED <<Running, Connected, netVars, infos, mismatch, recvVars, urbs>>

\* ... and WinUsb_Initialize; AttachRealDevice then sends its request.
FinishOpen ==
    /\ mpc \in {"openinfo", "openattach"}
    /\ \/ /\ InitializeOk(asked.tag)
          /\ \/ mpc = "openattach" /\ SendRequest("ATTACH", lines)
             \/ /\ mpc = "openinfo"
                /\ mpc' = "prompt"
                /\ UNCHANGED <<requests, asked>>
       \/ /\ InitializeFails(asked.tag)
          /\ mpc' = "prompt"
          /\ UNCHANGED <<requests, asked>>
    /\ UNCHANGED <<Running, Connected, open, lost, stream, infos, lines, mismatch, recvVars, urbs>>

\* The units a command receives are the response to its own request.
IsResponse == stream[1].cmd = asked.cmd /\ stream[1].tag = asked.tag /\ stream[1].at = 1

(***************************************************************************)
(* The command receives its response: as many units as the response        *)
(* structure has, whatever they are.  Neither the header nor the sequence  *)
(* number is looked at (a ping compares the command).  A device list is    *)
(* followed by DeviceCount entries; a misread count is any number.         *)
(***************************************************************************)
ReceiveResponse ==
    LET n == ResponseUnits(asked.cmd)
    IN /\ mpc = "await"
       /\ Available(n)
       /\ Take(n)
       /\ mismatch' = (mismatch \/ ~IsResponse)
       /\ \/ /\ asked.cmd = "LIST"
             /\ infos' \in 0..MaxListed
             /\ IsResponse => stream[1].len = n + infos' * InfoUnits
             /\ mpc' = "infos"
             /\ UNCHANGED asked
          \/ /\ asked.cmd # "LIST"
             /\ mpc' = "prompt"
             /\ asked' = NoCommand
             /\ UNCHANGED infos
       /\ UNCHANGED <<Running, Connected, open, lost, requests, lines, recvVars, dev, urbs>>

\* "Receive device info": the loop of VusbClientListDevices; it goes on after
\* a failed recv().
ReceiveInfo ==
    /\ mpc = "infos"
    /\ \/ /\ infos > 0
          /\ \/ Available(InfoUnits) /\ Take(InfoUnits)
             \/ RecvFails(InfoUnits) /\ stream' = <<>>
          /\ infos' = infos - 1
          /\ UNCHANGED <<mpc, asked>>
       \/ /\ infos = 0
          /\ mpc' = "prompt"
          /\ asked' = NoCommand
          /\ UNCHANGED <<infos, stream>>
    /\ UNCHANGED <<Running, Connected, open, lost, requests, lines, mismatch, recvVars, dev, urbs>>

\* recv() fails and the command returns -1.
CommandFails ==
    /\ mpc = "await"
    /\ RecvFails(ResponseUnits(asked.cmd))
    /\ mpc' = "prompt"
    /\ asked' = NoCommand
    /\ stream' = <<>>
    /\ UNCHANGED <<Running, Connected, open, lost, requests, infos, lines, mismatch,
                   recvVars, dev, urbs>>

\* The loop ends, at "quit", at the end of the input or when Connected is 0;
\* main() then clears Running and closes the socket.
LeaveLoop ==
    /\ mpc = "typing" \/ (mpc = "prompt" /\ ~Connected)
    /\ mpc' = "closing"
    /\ Running' = FALSE
    /\ open' = FALSE
    /\ UNCHANGED <<Connected, lost, stream, requests, asked, infos, lines, mismatch,
                   recvVars, dev, urbs>>

\* The wait for the receive thread ends, with the thread or after 2 s, and
\* UsbCaptureCleanup closes all devices.
CleanUp ==
    /\ mpc = "closing"
    /\ mpc' = "done"
    /\ dev' = [d \in Locals |-> NotOpened]
    /\ UNCHANGED <<Running, Connected, netVars, asked, infos, lines, mismatch, recvVars, urbs>>

----------------------------------------------------------------------------
(* The receive thread.                                                     *)

\* ReceiveThread reads a header; an invalid one is skipped.
ReceiveHeader ==
    /\ rpc = "header"
    /\ Running
    /\ Connected
    /\ Available(HeaderUnits)
    /\ Take(HeaderUnits)
    /\ \/ /\ stream[1].at = 1
          /\ header' = stream[1]
          /\ rpc' = IF stream[1].len > HeaderUnits THEN "payload" ELSE "header"
       \/ /\ stream[1].at # 1
          /\ UNCHANGED <<header, rpc>>
    /\ UNCHANGED <<Running, Connected, open, lost, requests, uiVars, serving, answers, dev, urbs>>

\* ... and Length more bytes, and calls ProcessServerMessage: responses are
\* "Unhandled", a URB is served.
ReceivePayload ==
    LET n == header.len - HeaderUnits
    IN /\ rpc = "payload"
       /\ Available(n)
       /\ Take(n)
       /\ \/ /\ header.cmd = "SUBMIT_URB"
             /\ rpc' = "urb"
             /\ serving' = [urb |-> header.tag, device |-> 0]
          \/ /\ header.cmd # "SUBMIT_URB"
             /\ rpc' = "header"
             /\ UNCHANGED serving
       /\ UNCHANGED <<Running, Connected, open, lost, requests, uiVars, header, answers, dev, urbs>>

\* A faulty variant: Connected is left as it is.
EndConnected ==
    /\ \/ rpc = "header" /\ (~Running \/ ~Connected \/ RecvFails(HeaderUnits))
       \/ rpc = "payload" /\ RecvFails(header.len - HeaderUnits)
    /\ rpc' = "ended"
    /\ stream' = <<>>
    /\ UNCHANGED <<Running, Connected, open, lost, requests, uiVars, header, serving, answers, dev, urbs>>

\* The loop ends: not Running any more, or recv() failed.
EndReceive ==
    /\ \/ rpc = "header" /\ (~Running \/ ~Connected \/ RecvFails(HeaderUnits))
       \/ rpc = "payload" /\ RecvFails(header.len - HeaderUnits)
    /\ rpc' = "ended"
    /\ stream' = <<>>
    /\ Connected' = FALSE
    /\ UNCHANGED <<Running, open, lost, requests, uiVars, header, serving, answers, dev, urbs>>

\* SendUrbCompletion: sent, or not (no memory, or send() fails).
SendUrbCompletion ==
    /\ \/ open /\ answers' = [answers EXCEPT ![serving.urb] = @ + 1]
       \/ UNCHANGED answers
    /\ rpc' = "header"
    /\ serving' = NoUrb

\* A faulty variant: no return after the completion with an error.
CompleteAndGoOn ==
    /\ rpc = "urb"
    /\ \/ open /\ answers' = [answers EXCEPT ![serving.urb] = @ + 1]
       \/ UNCHANGED answers
    /\ rpc' = "transfer"
    /\ UNCHANGED <<Running, Connected, netVars, uiVars, header, serving, dev, urbs>>

\* ClientUrbProcess gives up: no such device.
RefuseUrb ==
    /\ rpc = "urb"
    /\ SendUrbCompletion
    /\ UNCHANGED <<Running, Connected, netVars, uiVars, header, dev, urbs>>

\* ... finds the device open and starts the transfer, or opens it, or cannot.
StartUrb(d) ==
    /\ rpc = "urb"
    /\ \/ /\ serving' = [serving EXCEPT !.device = d]
          /\ \/ dev[d].Opened /\ rpc' = "transfer" /\ UNCHANGED dev
             \/ ~dev[d].Opened /\ rpc' = "open" /\ CreateHandle(d)
          /\ UNCHANGED answers
       \/ /\ ~dev[d].Opened
          /\ CreateFails(d)
          /\ SendUrbCompletion
    /\ UNCHANGED <<Running, Connected, netVars, uiVars, header, urbs>>

\* ... WinUsb_Initialize for it.
FinishOpenForUrb ==
    /\ rpc = "open"
    /\ \/ InitializeOk(serving.device) /\ rpc' = "transfer" /\ UNCHANGED <<serving, answers>>
       \/ InitializeFails(serving.device) /\ SendUrbCompletion
    /\ UNCHANGED <<Running, Connected, netVars, uiVars, header, urbs>>

\* No memory for the response; or the transfer ends, with data, an error or
\* its timeout of 5 s.
FinishUrb ==
    /\ rpc = "transfer"
    /\ SendUrbCompletion
    /\ UNCHANGED <<Running, Connected, netVars, uiVars, header, dev, urbs>>

----------------------------------------------------------------------------
CommandLoop == AwaitLine \/ FinishOpen \/ ReceiveResponse \/ ReceiveInfo \/ CommandFails \/ CleanUp
Receiver == ReceiveHeader \/ ReceivePayload \/ EndReceive \/ RefuseUrb
            \/ (\E d \in Locals : StartUrb(d)) \/ FinishOpenForUrb \/ FinishUrb

SessionNext ==
    \/ ServerResponds \/ ServerSubmits \/ ServerCloses
    \/ \E cmd \in Requests : Request(cmd)
    \/ \E d \in Locals, then \in {"openinfo", "openattach"} : StartOpen(d, then)
    \/ Ignored
    \/ LeaveLoop
    \/ CommandLoop
    \/ Receiver

SessionSpec == SessionInit /\ [][SessionNext]_sessionVars

(***************************************************************************)
(* Both threads run on.  Nobody has to type anything while main() is in    *)
(* fgets(), and nothing obliges the server.                                *)
(***************************************************************************)
SessionFairSpec == /\ SessionSpec
                   /\ WF_sessionVars(CommandLoop)
                   /\ WF_sessionVars(Receiver)
                   /\ WF_sessionVars(mpc = "prompt" /\ LeaveLoop)

----------------------------------------------------------------------------
(* Properties.                                                             *)

\* Types of all variables.
SessionTypes ==
    /\ {Running, Connected, open, lost, mismatch} \subseteq BOOLEAN
    /\ stream \in Seq([cmd: Requests \cup {"SUBMIT_URB"}, tag: Nat, at: Nat \ {0}, len: Nat])
    /\ requests \in Seq([cmd: Requests, tag: 1..MaxLines])
    /\ mpc \in {"prompt", "typing", "openinfo", "openattach", "await", "infos", "closing", "done"}
    /\ infos \in 0..MaxListed
    /\ rpc \in {"header", "payload", "urb", "open", "transfer", "ended", "absent"}
    /\ serving \in [urb: 0..MaxUrbs, device: 0..MaxLocals]
    /\ dev \in [Locals -> [Opened: BOOLEAN, handle: {"open", "invalid"}]]
    /\ lines \in 0..MaxLines
    /\ urbs \in 0..MaxUrbs
    /\ answers \in [Urbs -> Nat]

(***************************************************************************)
(* ClientUrbProcess has six ways out and the stream may be torn by the     *)
(* other thread, and still no URB is answered twice: the header of a       *)
(* SUBMIT_URB is only taken for one where it starts.                       *)
(***************************************************************************)
AnsweredOnce == \A u \in Urbs : answers[u] <= 1

(***************************************************************************)
(* When the server goes away, the client ends as soon as the user lets it: *)
(* the receive thread clears Connected, which is all that tells the        *)
(* interactive loop, and a command that waits for a response (even a       *)
(* stolen one) returns.  Nothing wakes fgets(), so the property is about a *)
(* user who keeps pressing a key, a key at which no command is needed.     *)
(* Without a receive thread (no thread, or no memory for its buffer)       *)
(* nobody clears Connected and the client goes on until "quit".            *)
(***************************************************************************)
LossEndsClient ==
    []<>(mpc # "typing") => ((lost /\ rpc # "absent") ~> mpc = "done")

(***************************************************************************)
(* vusb_protocol.h:120 "Sequence number for request/response matching":    *)
(* what a command takes for its response is the response to its request.   *)
(***************************************************************************)
ResponsesMatch == ~mismatch

(***************************************************************************)
(* vusb_client_urb.c "Make sure device is open": a transfer of the receive *)
(* thread works on an open device.                                         *)
(***************************************************************************)
TransferOnOpenDevice == rpc = "transfer" => dev[serving.device].handle = "open"

=============================================================================

------------------------------- MODULE IpcLink --------------------------------
(***************************************************************************)
(* One capture tool and the server thread that serves it, end to end:      *)
(*                                                                         *)
(*   CAN bus -> raw socket queue -> sniffer.c / ipc_bridge.c               *)
(*           -> Unix or TCP stream -> CANIPCServer._handle_client          *)
(*                                                                         *)
(* A frame is its number on the bus.  The struct written for frame f is    *)
(* FrameSize bytes, the j-th of them <<f, j>>: the properties tell apart   *)
(* which frame a byte is of and where it stands in it, and nothing else.   *)
(* The stream itself has no frame boundaries: a recv returns any run of    *)
(* bytes, and the handler cuts frames out of what it has collected.        *)
(***************************************************************************)
EXTENDS Integers, Sequences

CONSTANTS
    Tools,      \* the programs that may capture: "sniffer", "bridge"
    Transports, \* the streams they may use: "unix", "tcp"
    FrameSize,  \* sizeof(can_sentinel_ipc_frame_t), 24 in the code
    RecvMax,    \* the argument of recv(), 4096 in the code
    PipeCap,    \* bytes the stream buffers before a write blocks
    RxCap,      \* frames the CAN socket queues before the kernel drops
    MaxCount,   \* the sniffer's -c: frames to capture, 0 for no limit
    MaxBus      \* bound: frames the bus carries

ASSUME LinkAssumption ==
    /\ Tools \subseteq {"sniffer", "bridge"}
    /\ Transports \subseteq {"unix", "tcp"}
    /\ FrameSize \in Nat \ {0}
    /\ RecvMax \in Nat \ {0}
    /\ PipeCap \in Nat
    /\ FrameSize <= PipeCap
    /\ RxCap \in Nat \ {0}
    /\ MaxCount \in Nat
    /\ MaxBus \in Nat

VARIABLES
    program,    \* the tool that captures and the stream it writes to
    bus,        \* frames the bus has carried so far: 1..bus
    rxq,        \* frames queued on the tool's CAN socket
    toolPc,     \* where the tool stands in its main loop
    runFlag,    \* g_sniffer_running / g_bridge_running
    captured,   \* g_packets_captured
    frame,      \* the frame the tool has in hand
    woff,       \* bytes of its struct that the pending write has handed over
    link,       \* the tool's ipc_sock: "none" (-1) or "open"
    sent,       \* history: frames of which a byte entered the stream
    bridged,    \* completed writes (g_frames_bridged in the bridge)
    pipe,       \* bytes in the stream, not received yet
    buffer,     \* _handle_client's bytearray
    handler,    \* where the handler thread stands
    running,    \* CANIPCServer.running
    delivered,  \* history: byte blocks unpacked and dispatched to subscribers
    late        \* history: blocks dispatched since stop() cleared running

toolVars   == <<toolPc, runFlag, captured, frame, woff, link, sent, bridged>>
serverVars == <<buffer, handler, running, delivered, late>>
vars == <<program, bus, rxq, toolVars, pipe, serverVars>>

(* The sniffer only has the Unix socket.                                   *)
Programs == {p \in [tool : Tools, transport : Transports] :
                p.tool = "sniffer" => p.transport = "unix"}

Tool == program.tool
Transport == program.transport

Stopped == toolPc \in {"stopped", "killed"}

FrameBytes(f) == [j \in 1..FrameSize |-> <<f, j>>]

Room == PipeCap - Len(pipe)

(* The kernel tells a writer that nobody will read any more.               *)
PeerGone == handler = "closed"

Smaller(a, b) == IF a <= b THEN a ELSE b

(* A Unix stream takes the struct whole or not at all; TCP takes as many   *)
(* of the bytes that are left as it has room for, even when the server has *)
(* closed its end and nobody will read them.                               *)
Accepted ==
    IF Transport = "unix"
    THEN IF Room >= FrameSize THEN FrameSize ELSE 0
    ELSE Smaller(Room, FrameSize - woff)

(* Mutant: `>` for `>=` in the inner loop.                                 *)
MoreThanAFrame == Len(buffer) > FrameSize

(* The test of the handler's inner loop.                                   *)
BufferedFrame == Len(buffer) >= FrameSize

Init ==
    /\ program \in Programs
    /\ bus = 0
    /\ rxq = <<>>
    /\ toolPc = "connecting"
    /\ runFlag = TRUE
    /\ captured = 0
    /\ frame = 0
    /\ woff = 0
    /\ link = "none"
    /\ sent = <<>>
    /\ bridged = 0
    /\ pipe = <<>>
    /\ buffer = <<>>
    /\ handler = "none"
    /\ running = TRUE
    /\ delivered = <<>>
    /\ late = 0

-------------------------------------------------------------------------------
(* Plausible bugs that the properties below tell from the code: README.md  *)
(* says which property refutes which.                                      *)

(* Mutant: a write that had to wait starts again from the first byte.      *)
WriteRestarts ==
    /\ toolPc \in {"writing", "blocked"}
    /\ Transport = "unix" => ~PeerGone
    /\ Accepted > 0
    /\ pipe' = pipe \o SubSeq(FrameBytes(frame), 1, Accepted)
    /\ sent' = IF woff = 0 THEN Append(sent, frame) ELSE sent
    /\ woff' = (woff + Accepted) % FrameSize
    /\ toolPc' = IF woff' = 0 THEN "check" ELSE "blocked"
    /\ bridged' = IF woff' = 0 THEN bridged + 1 ELSE bridged
    /\ UNCHANGED <<bus, rxq, runFlag, captured, frame, link, serverVars>>

(* Mutant: the handler's loop does not look at running.                    *)
HandlerIgnoresStop ==
    /\ handler = "check"
    /\ handler' = "recv"
    /\ UNCHANGED <<bus, rxq, toolVars, pipe, buffer, running, delivered, late>>

(* Mutant: a moment without data is taken for the end of the stream.       *)
SilenceIsEof ==
    /\ handler = "recv"
    /\ pipe = <<>>
    /\ handler' = "closed"
    /\ UNCHANGED <<bus, rxq, toolVars, pipe, buffer, running, delivered, late>>

(* Mutant: b"" is not the end of the loop.                                 *)
EofIgnored ==
    /\ handler = "recv"
    /\ pipe = <<>>
    /\ link = "none"
    /\ handler' = "check"
    /\ UNCHANGED <<bus, rxq, toolVars, pipe, buffer, running, delivered, late>>

(* Mutant: the frame cut off loses one byte too few.                       *)
DispatchCutsShort ==
    /\ handler = "dispatch"
    /\ BufferedFrame
    /\ delivered' = Append(delivered, SubSeq(buffer, 1, FrameSize))
    /\ buffer' = SubSeq(buffer, FrameSize, Len(buffer))
    /\ late' = IF running THEN late ELSE late + 1
    /\ UNCHANGED <<bus, rxq, toolVars, pipe, handler, running>>

(* Mutant: the frame dispatched stays in the buffer.                       *)
DispatchKeepsFrame ==
    /\ handler = "dispatch"
    /\ BufferedFrame
    /\ delivered' = Append(delivered, SubSeq(buffer, 1, FrameSize))
    /\ late' = IF running THEN late ELSE late + 1
    /\ UNCHANGED <<bus, rxq, toolVars, pipe, buffer, handler, running>>

-------------------------------------------------------------------------------
(* The CAN side: the kernel queues each frame on the tool's raw socket, or *)
(* drops it when the tool has not read for too long.                       *)

BusFrame ==
    /\ ~Stopped
    /\ bus < MaxBus
    /\ bus' = bus + 1
    /\ rxq' = IF Len(rxq) < RxCap THEN Append(rxq, bus + 1) ELSE rxq
    /\ UNCHANGED <<toolVars, pipe, serverVars>>

-------------------------------------------------------------------------------
(* The capture tool.                                                       *)

(* The CAN socket is already bound when the tool connects: frames queue.   *)
Connect ==
    /\ toolPc = "connecting"
    /\ running
    /\ toolPc' = "check"
    /\ link' = "open"
    /\ handler' = "pending"
    /\ UNCHANGED <<bus, rxq, runFlag, captured, frame, woff, sent, bridged,
                   pipe, buffer, running, delivered, late>>

(* No server: the sniffer goes on as a console sniffer, the bridge exits.  *)
ConnectFails ==
    /\ toolPc = "connecting"
    /\ toolPc' = IF Tool = "sniffer" THEN "check" ELSE "stopped"
    /\ UNCHANGED <<bus, rxq, runFlag, captured, frame, woff, link, sent,
                   bridged, pipe, serverVars>>

(* -c is the sniffer's; the bridge has no limit.                           *)
LoopGuard ==
    runFlag /\ (Tool = "bridge" \/ MaxCount = 0 \/ captured < MaxCount)

(* The test at the head of the loop; when it fails the tool closes its     *)
(* sockets and returns from main.                                          *)
LoopCheck ==
    /\ toolPc = "check"
    /\ \/ /\ LoopGuard
          /\ toolPc' = "reading"
          /\ UNCHANGED link
       \/ /\ ~LoopGuard
          /\ toolPc' = "stopped"
          /\ link' = "none"
    /\ UNCHANGED <<bus, rxq, runFlag, captured, frame, woff, sent, bridged,
                   pipe, serverVars>>

ReadFrame ==
    /\ toolPc = "reading"
    /\ rxq # <<>>
    /\ frame' = Head(rxq)
    /\ rxq' = Tail(rxq)
    /\ captured' = captured + 1
    /\ toolPc' = IF link = "open" THEN "writing" ELSE "check"
    /\ UNCHANGED <<bus, runFlag, woff, link, sent, bridged, pipe, serverVars>>

(* read() fails (the interface went down): both tools leave the loop.      *)
ReadError ==
    /\ toolPc = "reading"
    /\ toolPc' = "stopped"
    /\ link' = "none"
    /\ UNCHANGED <<bus, rxq, runFlag, captured, frame, woff, sent, bridged,
                   pipe, serverVars>>

WriteBytes ==
    /\ toolPc \in {"writing", "blocked"}
    /\ Transport = "unix" => ~PeerGone
    /\ Accepted > 0
    /\ pipe' = pipe \o SubSeq(FrameBytes(frame), woff + 1, woff + Accepted)
    /\ sent' = IF woff = 0 THEN Append(sent, frame) ELSE sent
    /\ IF woff + Accepted = FrameSize
       THEN /\ woff' = 0
            /\ bridged' = bridged + 1
            /\ toolPc' = "check"
       ELSE /\ woff' = woff + Accepted
            /\ toolPc' = "blocked"
            /\ UNCHANGED bridged
    /\ UNCHANGED <<bus, rxq, runFlag, captured, frame, link, serverVars>>

WriteBlocks ==
    /\ toolPc = "writing"
    /\ ~PeerGone
    /\ Accepted = 0
    /\ toolPc' = "blocked"
    /\ UNCHANGED <<bus, rxq, runFlag, captured, frame, woff, link, sent,
                   bridged, pipe, serverVars>>

(* The write fails because the server closed its end.  A write that was    *)
(* already blocked returns the error (TCP can also return one at once):    *)
(* the sniffer drops the link and goes on to the console, the bridge       *)
(* leaves its loop.                                                        *)
WriteFails ==
    /\ PeerGone
    /\ toolPc = "blocked" \/ (toolPc = "writing" /\ Transport = "tcp")
    /\ toolPc' = IF Tool = "sniffer" THEN "check" ELSE "stopped"
    /\ link' = "none"
    /\ UNCHANGED <<bus, rxq, runFlag, captured, frame, woff, sent, bridged,
                   pipe, serverVars>>

(* A write to a closed peer raises SIGPIPE, which neither tool ignores.    *)
SigPipe ==
    /\ PeerGone
    /\ toolPc \in {"writing", "blocked"}
    /\ toolPc' = "killed"
    /\ link' = "none"
    /\ UNCHANGED <<bus, rxq, runFlag, captured, frame, woff, sent, bridged,
                   pipe, serverVars>>

(* handle_sigint only clears the flag.  signal() installs it with          *)
(* SA_RESTART, so a blocked read or write goes on waiting, except a TCP    *)
(* write that has handed over some bytes: it returns that short count, and *)
(* the bridge leaves its loop.                                             *)
SigInt ==
    /\ ~Stopped
    /\ runFlag' = FALSE
    /\ IF toolPc = "blocked" /\ woff > 0
       THEN toolPc' = "stopped" /\ link' = "none"
       ELSE UNCHANGED <<toolPc, link>>
    /\ UNCHANGED <<bus, rxq, captured, frame, woff, sent, bridged, pipe,
                   serverVars>>

-------------------------------------------------------------------------------
(* The server side.                                                        *)

(* The accept loop takes the connection and starts a handler thread.       *)
Accept ==
    /\ handler = "pending"
    /\ running
    /\ handler' = "check"
    /\ UNCHANGED <<bus, rxq, toolVars, pipe, buffer, running, delivered, late>>

(* stop() closed the listening socket with the connection still in its     *)
(* backlog.                                                                *)
BacklogReset ==
    /\ handler = "pending"
    /\ ~running
    /\ handler' = "closed"
    /\ UNCHANGED <<bus, rxq, toolVars, pipe, buffer, running, delivered, late>>

(* `while self.running`, and the finally that closes the client socket.    *)
HandlerCheck ==
    /\ handler = "check"
    /\ handler' = IF running THEN "recv" ELSE "closed"
    /\ UNCHANGED <<bus, rxq, toolVars, pipe, buffer, running, delivered, late>>

(* recv returns some of what has arrived, RecvMax bytes at most.           *)
Recv ==
    /\ handler = "recv"
    /\ \E n \in 1..Smaller(RecvMax, Len(pipe)) :
          /\ buffer' = buffer \o SubSeq(pipe, 1, n)
          /\ pipe' = SubSeq(pipe, n + 1, Len(pipe))
    /\ handler' = "dispatch"
    /\ UNCHANGED <<bus, rxq, toolVars, running, delivered, late>>

(* b"" once the tool has closed its end and every byte has been received.  *)
RecvEof ==
    /\ handler = "recv"
    /\ pipe = <<>>
    /\ link = "none"
    /\ handler' = "closed"
    /\ UNCHANGED <<bus, rxq, toolVars, pipe, buffer, running, delivered, late>>

(* One turn of `while len(buffer) >= IPC_FRAME_SIZE`: cut a frame off,     *)
(* unpack it and run the subscribers.  The loop does not look at running.  *)
Dispatch ==
    /\ handler = "dispatch"
    /\ BufferedFrame
    /\ delivered' = Append(delivered, SubSeq(buffer, 1, FrameSize))
    /\ buffer' = SubSeq(buffer, FrameSize + 1, Len(buffer))
    /\ late' = IF running THEN late ELSE late + 1
    /\ UNCHANGED <<bus, rxq, toolVars, pipe, handler, running>>

DispatchDone ==
    /\ handler = "dispatch"
    /\ ~BufferedFrame
    /\ handler' = "check"
    /\ UNCHANGED <<bus, rxq, toolVars, pipe, buffer, running, delivered, late>>

(* stop() clears the flag; it does not touch the client sockets.           *)
ServerStop ==
    /\ running
    /\ running' = FALSE
    /\ UNCHANGED <<bus, rxq, toolVars, pipe, buffer, handler, delivered, late>>

-------------------------------------------------------------------------------
ToolStep ==
    \/ Connect \/ ConnectFails \/ LoopCheck \/ ReadFrame \/ WriteBytes
    \/ WriteBlocks \/ WriteFails \/ SigPipe

HandlerStep ==
    \/ Accept \/ BacklogReset \/ HandlerCheck \/ Recv \/ RecvEof
    \/ Dispatch \/ DispatchDone

Step == BusFrame \/ ToolStep \/ ReadError \/ SigInt \/ HandlerStep \/ ServerStop

Next == Step /\ UNCHANGED program

Spec == Init /\ [][Next]_vars

(* The tool and the handler are threads the scheduler keeps running; the   *)
(* bus, the user, the interface and stop() owe nothing.                    *)
FairSpec ==
    /\ Spec
    /\ WF_vars(ToolStep /\ UNCHANGED program)
    /\ WF_vars(HandlerStep /\ UNCHANGED program)

-------------------------------------------------------------------------------
(* The type invariant.                                                     *)
TypeOK ==
    /\ program \in Programs
    /\ bus \in 0..MaxBus
    /\ rxq \in Seq(1..MaxBus)
    /\ toolPc \in {"connecting", "check", "reading", "writing", "blocked",
                   "stopped", "killed"}
    /\ runFlag \in BOOLEAN
    /\ captured \in Nat
    /\ frame \in 0..MaxBus
    /\ woff \in 0..(FrameSize - 1)
    /\ link \in {"none", "open"}
    /\ sent \in Seq(0..MaxBus)
    /\ bridged \in Nat
    /\ pipe \in Seq((0..MaxBus) \X (1..FrameSize))
    /\ buffer \in Seq((0..MaxBus) \X (1..FrameSize))
    /\ handler \in {"none", "pending", "check", "recv", "dispatch", "closed"}
    /\ running \in BOOLEAN
    /\ delivered \in Seq(Seq((0..MaxBus) \X (1..FrameSize)))
    /\ late \in Nat

(* Framing: whatever the sizes of the chunks recv returns, the i-th block  *)
(* handed to unpack_binary_frame is exactly the struct of the i-th frame   *)
(* written, never a block that straddles two frames, and never one whose   *)
(* write was cut short.                                                    *)
DeliveredIntact ==
    \A i \in 1..Len(delivered) :
        i <= bridged /\ delivered[i] = FrameBytes(sent[i])

(* From the bus to the subscribers no frame is duplicated or reordered:    *)
(* whatever the kernel dropped or a closing link lost, what is dispatched  *)
(* has increasing bus numbers.                                             *)
DeliveredInBusOrder ==
    \A i \in 1..Len(delivered) - 1 :
        delivered[i][1][1] < delivered[i + 1][1][1]

(* After stop() has cleared running a handler dispatches at most the       *)
(* frames that the chunk in progress completes.                            *)
LateIsBounded == late * FrameSize <= FrameSize - 1 + RecvMax

(* A tool is killed by its own write only because the server was stopped: a*)
(* server in service never closes the connection of a live tool.           *)
OnlyStopBreaksWriter == toolPc = "killed" => ~running

(* A frame whose write completed is dispatched, unless the server is       *)
(* stopped first.                                                          *)
WrittenIsDispatched ==
    \A k \in 1..MaxBus :
        (bridged >= k) ~> (Len(delivered) >= k \/ ~running)

(* When the tool is gone its handler thread ends.                          *)
HandlerEnds == (Stopped /\ handler # "none") ~> (handler = "closed")

(* The tool prints "Listening for CAN frames (Press Ctrl+C to stop)".      *)
CtrlCStops == (~runFlag) ~> Stopped

(* The link implements the abstract frame channel: a frame is put in when  *)
(* its write completes and comes out when it is dispatched.                *)
Channel == INSTANCE FrameChannel WITH
    Frames  <- 1..MaxBus,
    LateMax <- (FrameSize - 1 + RecvMax) \div FrameSize,
    input   <- SubSeq(sent, 1, bridged),
    output  <- [i \in 1..Len(delivered) |-> delivered[i][1][1]],
    serving <- running,
    late    <- late

ImplementsChannel == Channel!ChannelSpec

==============================================================================

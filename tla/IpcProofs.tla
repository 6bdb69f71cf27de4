------------------------------- MODULE IpcProofs -------------------------------
(***************************************************************************)
(* Theorems about CANIPCServer: about IpcLink, for every frame size,       *)
(* receive size, stream and queue capacity, either tool and either         *)
(* transport, and about IpcServer, for any number of starts and clients.   *)
(*                                                                         *)
(* The inductive invariant of the link is built in layers, each proved     *)
(* from those before it: types, the writer's bookkeeping, the contents of  *)
(* the stream (what is in the handler's buffer followed by what is in the  *)
(* socket), and the count of late dispatches.                              *)
(***************************************************************************)
EXTENDS IpcLink, IpcServer, SequenceTheorems, TLAPS

Byte == (0..MaxBus) \X (1..FrameSize)

(* A Unix write is all or nothing, so it never leaves a partial struct.    *)
TypeInv ==
    /\ TypeOK
    /\ Transport = "unix" => woff = 0

(* Cutting a sequence in two after its n-th element.                       *)
LEMMA CutSeq ==
    ASSUME NEW S, NEW s \in Seq(S), NEW n \in 0..Len(s)
    PROVE  /\ SubSeq(s, 1, n) \in Seq(S)
           /\ Len(SubSeq(s, 1, n)) = n
           /\ \A i \in 1..n : SubSeq(s, 1, n)[i] = s[i]
           /\ SubSeq(s, n + 1, Len(s)) \in Seq(S)
           /\ Len(SubSeq(s, n + 1, Len(s))) = Len(s) - n
           /\ \A i \in 1..Len(s) - n : SubSeq(s, n + 1, Len(s))[i] = s[n + i]
<1>1. Len(s) \in Nat /\ \A i \in 1..Len(s) : s[i] \in S
  BY LenProperties, ElementOfSeq
<1>2. \A i \in 1..n : s[i] \in S
  BY <1>1
<1>3. \A i \in n + 1..Len(s) : s[i] \in S
  BY <1>1
<1>4. /\ SubSeq(s, 1, n) \in Seq(S)
      /\ Len(SubSeq(s, 1, n)) = n
      /\ \A i \in 1..n : SubSeq(s, 1, n)[i] = s[i]
  BY <1>1, <1>2, SubSeqProperties
<1>5. /\ SubSeq(s, n + 1, Len(s)) \in Seq(S)
      /\ Len(SubSeq(s, n + 1, Len(s))) = Len(s) - n
      /\ \A i \in 1..Len(s) - n : SubSeq(s, n + 1, Len(s))[i] = s[n + i]
  BY <1>1, <1>3, SubSeqProperties
<1> QED BY <1>4, <1>5

(* Moving the head of one sequence to the end of another leaves their      *)
(* concatenation as it was.                                                *)
LEMMA ConcatCut ==
    ASSUME NEW S, NEW b \in Seq(S), NEW s \in Seq(S), NEW n \in 0..Len(s)
    PROVE  (b \o SubSeq(s, 1, n)) \o SubSeq(s, n + 1, Len(s)) = b \o s
<1> DEFINE h == SubSeq(s, 1, n)
           t == SubSeq(s, n + 1, Len(s))
<1>1. Len(s) \in Nat /\ Len(b) \in Nat
  BY LenProperties
<1>2. /\ h \in Seq(S) /\ Len(h) = n
      /\ \A i \in 1..n : h[i] = s[i]
      /\ t \in Seq(S) /\ Len(t) = Len(s) - n
      /\ \A i \in 1..Len(s) - n : t[i] = s[n + i]
  BY CutSeq
<1> HIDE DEF h, t
<1> DEFINE u == b \o h
           v == u \o t
           w == b \o s
<1>3. /\ u \in Seq(S) /\ Len(u) = Len(b) + n
      /\ \A i \in 1..Len(b) + n :
            u[i] = IF i <= Len(b) THEN b[i] ELSE h[i - Len(b)]
  BY <1>2, ConcatProperties
<1> HIDE DEF u
<1>4. /\ v \in Seq(S) /\ Len(v) = Len(b) + Len(s)
      /\ \A i \in 1..Len(b) + Len(s) :
            v[i] = IF i <= Len(b) + n THEN u[i] ELSE t[i - (Len(b) + n)]
  <2>1. /\ v \in Seq(S) /\ Len(v) = Len(u) + Len(t)
        /\ \A i \in 1..Len(u) + Len(t) :
              v[i] = IF i <= Len(u) THEN u[i] ELSE t[i - Len(u)]
    <3>1. u \in Seq(S) /\ t \in Seq(S)
      BY <1>2, <1>3
    <3> QED BY ONLY <3>1, ConcatProperties
  <2>2. Len(u) + Len(t) = Len(b) + Len(s)
    BY <1>1, <1>2, <1>3
  <2> QED BY <1>3, <2>1, <2>2
<1>5. /\ w \in Seq(S) /\ Len(w) = Len(b) + Len(s)
      /\ \A i \in 1..Len(b) + Len(s) :
            w[i] = IF i <= Len(b) THEN b[i] ELSE s[i - Len(b)]
  BY ConcatProperties
<1> HIDE DEF v, w
<1>6. ASSUME NEW i \in 1..Len(b) + Len(s)
      PROVE  v[i] = w[i]
  <2>1. CASE i <= Len(b)
    BY <1>1, <1>3, <1>4, <1>5, <2>1
  <2>2. CASE i > Len(b) /\ i <= Len(b) + n
    <3>1. PICK k \in 1..n : k = i - Len(b)
      BY <1>1, <2>2
    <3>2. v[i] = h[k] /\ w[i] = s[k]
      BY <1>1, <1>3, <1>4, <1>5, <2>2, <3>1
    <3> QED BY <1>2, <3>2
  <2>3. CASE i > Len(b) + n
    <3>1. PICK k \in 1..Len(s) - n : k = i - (Len(b) + n)
      <4>1. i - (Len(b) + n) \in 1..Len(s) - n
        BY <1>1, <2>3
      <4> QED BY <4>1
    <3>2. v[i] = t[k] /\ w[i] = s[n + k]
      <4>1. n + k = i - Len(b) /\ ~(i <= Len(b)) /\ ~(i <= Len(b) + n)
        BY <1>1, <2>3, <3>1
      <4>2. v[i] = t[k]
        BY <1>4, <3>1, <4>1
      <4>3. w[i] = s[i - Len(b)]
        BY <1>5, <4>1
      <4> QED BY <4>1, <4>2, <4>3
    <3> QED BY <1>2, <3>2
  <2> QED BY <1>1, <2>1, <2>2, <2>3
<1>7. v = w
  BY ONLY <1>4, <1>5, <1>6, SeqEqual
<1> QED BY <1>7 DEF h, t, u, v, w

(* The struct of a frame is FrameSize bytes.                               *)
LEMMA FrameBytesType ==
    ASSUME NEW f \in 0..MaxBus
    PROVE  /\ FrameBytes(f) \in Seq(Byte)
           /\ Len(FrameBytes(f)) = FrameSize
           /\ \A j \in 1..FrameSize : FrameBytes(f)[j] = <<f, j>>
<1> USE LinkAssumption DEF LinkAssumption, FrameBytes, Byte
<1>1. FrameBytes(f) \in [1..FrameSize -> Byte]
  OBVIOUS
<1>2. FrameBytes(f) \in Seq(Byte)
  BY <1>1, IsASeq
<1>3. DOMAIN FrameBytes(f) = 1..FrameSize
  BY <1>1
<1>4. Len(FrameBytes(f)) = FrameSize
  BY <1>2, <1>3, LenProperties
<1> QED BY <1>2, <1>4

(* A write never hands over more than is left of the struct.               *)
LEMMA AcceptedBound ==
    ASSUME TypeInv, Accepted > 0
    PROVE  /\ Accepted \in Nat
           /\ woff + Accepted <= FrameSize
BY LinkAssumption, LenProperties DEF LinkAssumption, TypeInv, TypeOK, Accepted, Room, Smaller

(* The types are right initially.                                          *)
LEMMA TypeInit == Init => TypeInv
BY LinkAssumption DEF LinkAssumption, Init, TypeInv, TypeOK

(* Every step of the tool, the bus and the server preserves them.          *)
LEMMA TypeStep == TypeInv /\ [Next]_vars => TypeInv'
<1> SUFFICES ASSUME TypeInv, [Next]_vars PROVE TypeInv'
  OBVIOUS
<1>0. /\ program' = program
      /\ Transport' = Transport
  BY DEF Next, vars, Transport
<1> USE LinkAssumption, <1>0 DEF LinkAssumption, TypeInv, TypeOK
<1>1. CASE BusFrame
  <2>1. rxq' \in Seq(1..MaxBus) /\ bus' \in 0..MaxBus
    <3>1. bus + 1 \in 1..MaxBus
      BY <1>1 DEF BusFrame
    <3>2. Append(rxq, bus + 1) \in Seq(1..MaxBus)
      BY ONLY <3>1, rxq \in Seq(1..MaxBus), AppendProperties
    <3>3. bus' = bus + 1 /\ (rxq' = Append(rxq, bus + 1) \/ rxq' = rxq)
      BY <1>1 DEF BusFrame
    <3>4. bus' \in 0..MaxBus
      BY <3>1, <3>3
    <3>5. rxq' \in Seq(1..MaxBus)
      BY ONLY <3>2, <3>3, rxq \in Seq(1..MaxBus)
    <3> QED BY <3>4, <3>5
  <2> QED BY <1>1, <2>1 DEF BusFrame, toolVars, serverVars
<1>2. CASE Connect
  BY <1>2 DEF Connect
<1>3. CASE ConnectFails
  BY <1>3 DEF ConnectFails, serverVars
<1>4. CASE LoopCheck
  BY <1>4 DEF LoopCheck, serverVars
<1>5. CASE ReadFrame
  BY <1>5 DEF ReadFrame, serverVars
<1>6. CASE ReadError
  BY <1>6 DEF ReadError, serverVars
<1>7. CASE WriteBytes
  <2>1. /\ Accepted \in Nat
        /\ woff + Accepted <= FrameSize
    BY <1>7, AcceptedBound DEF WriteBytes
  <2>2. SubSeq(FrameBytes(frame), woff + 1, woff + Accepted) \in Seq(Byte)
    BY <2>1, FrameBytesType, SubSeqProperties
  <2>3. pipe' \in Seq(Byte)
    BY <1>7, <2>2, ConcatProperties DEF WriteBytes, Byte
  <2>4. sent' \in Seq(0..MaxBus)
    BY <1>7, AppendProperties DEF WriteBytes
  <2>5. /\ woff' \in 0..(FrameSize - 1)
        /\ bridged' \in Nat
        /\ toolPc' \in {"check", "blocked"}
    BY <1>7, <2>1 DEF WriteBytes
  <2>6. Transport = "unix" => woff' = 0
    BY <1>7 DEF WriteBytes, Accepted
  <2> QED BY <1>7, <2>3, <2>4, <2>5, <2>6 DEF WriteBytes, serverVars, Byte
<1>8. CASE WriteBlocks
  BY <1>8 DEF WriteBlocks, serverVars
<1>9. CASE WriteFails
  BY <1>9 DEF WriteFails, serverVars
<1>10. CASE SigPipe
  BY <1>10 DEF SigPipe, serverVars
<1>11. CASE SigInt
  BY <1>11 DEF SigInt, serverVars
<1>12. CASE Accept
  BY <1>12 DEF Accept, toolVars
<1>13. CASE BacklogReset
  BY <1>13 DEF BacklogReset, toolVars
<1>14. CASE HandlerCheck
  BY <1>14 DEF HandlerCheck, toolVars
<1>15. CASE Recv
  <2>1. PICK n \in 1..Smaller(RecvMax, Len(pipe)) :
           /\ buffer' = buffer \o SubSeq(pipe, 1, n)
           /\ pipe' = SubSeq(pipe, n + 1, Len(pipe))
    BY <1>15 DEF Recv
  <2>2. n \in 1..Len(pipe)
    BY <2>1, LenProperties DEF Smaller
  <2>3. /\ SubSeq(pipe, 1, n) \in Seq(Byte)
        /\ SubSeq(pipe, n + 1, Len(pipe)) \in Seq(Byte)
    <3>1. pipe \in Seq(Byte) /\ n \in 0..Len(pipe)
      BY <2>2, LenProperties DEF Byte
    <3> QED BY ONLY <3>1, CutSeq
  <2>4. buffer' \in Seq(Byte) /\ pipe' \in Seq(Byte)
    BY <2>1, <2>3, ConcatProperties DEF Byte
  <2> QED BY <1>15, <2>4 DEF Recv, toolVars, Byte
<1>16. CASE RecvEof
  BY <1>16 DEF RecvEof, toolVars
<1>17. CASE Dispatch
  <2>1. /\ SubSeq(buffer, 1, FrameSize) \in Seq(Byte)
        /\ SubSeq(buffer, FrameSize + 1, Len(buffer)) \in Seq(Byte)
    <3>1. buffer \in Seq(Byte) /\ FrameSize \in 0..Len(buffer)
      BY <1>17, LenProperties DEF Dispatch, BufferedFrame, Byte
    <3> QED BY ONLY <3>1, CutSeq
  <2>2. delivered' \in Seq(Seq(Byte)) /\ buffer' \in Seq(Byte)
    BY <1>17, <2>1, AppendProperties DEF Dispatch, BufferedFrame, Byte
  <2> QED BY <1>17, <2>2 DEF Dispatch, BufferedFrame, toolVars, Byte
<1>18. CASE DispatchDone
  BY <1>18 DEF DispatchDone, BufferedFrame, toolVars
<1>19. CASE ServerStop
  BY <1>19 DEF ServerStop, toolVars
<1>20. CASE UNCHANGED vars
  BY <1>20 DEF vars, toolVars, serverVars
<1> QED
  BY <1>1, <1>2, <1>3, <1>4, <1>5, <1>6, <1>7, <1>8, <1>9, <1>10, <1>11,
     <1>12, <1>13, <1>14, <1>15, <1>16, <1>17, <1>18, <1>19, <1>20
  DEF Next, Step, ToolStep, HandlerStep

(* Type correctness: every variable of the link stays in its type.         *)
THEOREM TypeCorrect == Spec => []TypeOK
<1>1. TypeInv => TypeOK
  BY DEF TypeInv
<1> QED BY TypeInit, TypeStep, <1>1, PTL DEF Spec

-------------------------------------------------------------------------------
(* The writer's bookkeeping: a frame is partly written only while its      *)
(* write is blocked, or after that write cut the tool's life short.        *)
WriterInv ==
    /\ toolPc \in {"connecting", "check", "reading", "writing"} => woff = 0
    /\ woff = 0 => Len(sent) = bridged
    /\ woff > 0 => Len(sent) = bridged + 1 /\ sent[Len(sent)] = frame

(* No write is pending initially.                                          *)
LEMMA WriterInit == Init => WriterInv
BY DEF Init, WriterInv

(* What a pending write has handed over stays in step with sent and        *)
(* bridged.                                                                *)
LEMMA WriterStep == TypeInv /\ WriterInv /\ [Next]_vars => WriterInv'
<1> SUFFICES ASSUME TypeInv, WriterInv, [Next]_vars PROVE WriterInv'
  OBVIOUS
<1> USE LinkAssumption DEF LinkAssumption, TypeInv, TypeOK, WriterInv
<1>1. CASE UNCHANGED <<woff, sent, bridged, frame, toolPc>>
  BY <1>1
<1>2. CASE BusFrame \/ HandlerStep \/ ServerStop
  BY <1>1, <1>2 DEF BusFrame, HandlerStep, Accept, BacklogReset,
     HandlerCheck, Recv, RecvEof, Dispatch, DispatchDone, ServerStop, toolVars
<1>3. CASE \/ Connect \/ ConnectFails \/ LoopCheck \/ ReadError
           \/ WriteBlocks \/ SigPipe \/ SigInt
  BY <1>3 DEF Connect, ConnectFails, LoopCheck, ReadError, WriteBlocks,
     SigPipe, SigInt, Stopped
<1>4. CASE ReadFrame
  BY <1>4 DEF ReadFrame
<1>5. CASE WriteFails
  <2>1. Tool = "sniffer" => Transport = "unix"
    BY DEF Programs, Tool, Transport
  <2> QED BY <1>5, <2>1 DEF WriteFails
<1>6. CASE WriteBytes
  <2>1. /\ Accepted \in Nat
        /\ Accepted > 0
        /\ woff + Accepted <= FrameSize
    BY <1>6, AcceptedBound DEF WriteBytes
  <2>2. Len(sent) \in Nat
    BY LenProperties
  <2>3. woff = 0 => /\ Len(sent') = Len(sent) + 1
                    /\ sent'[Len(sent')] = frame
    BY <1>6, <2>2, AppendProperties DEF WriteBytes
  <2>4. woff > 0 => sent' = sent
    BY <1>6 DEF WriteBytes
  <2>5. CASE woff + Accepted = FrameSize
    BY <1>6, <2>1, <2>2, <2>3, <2>4, <2>5 DEF WriteBytes
  <2>6. CASE woff + Accepted # FrameSize
    <3>1. /\ woff' > 0
          /\ bridged' = bridged
          /\ frame' = frame
          /\ toolPc' = "blocked"
      BY <1>6, <2>1, <2>6 DEF WriteBytes
    <3>2. Len(sent') = bridged + 1 /\ sent'[Len(sent')] = frame
      <4>1. CASE woff = 0
        BY <4>1, <2>3
      <4>2. CASE woff > 0
        BY <4>2, <2>4
      <4> QED BY <4>1, <4>2
    <3> QED BY ONLY <3>1, <3>2 DEF WriterInv
  <2> QED BY <2>5, <2>6
<1>7. CASE UNCHANGED vars
  BY <1>1, <1>7 DEF vars, toolVars
<1> QED BY <1>2, <1>3, <1>4, <1>5, <1>6, <1>7 DEF Next, Step, ToolStep

-------------------------------------------------------------------------------
(* The two ends: a tool writes only to an open link, and its handler goes  *)
(* away only because the server stopped or the tool closed the link.       *)
LinkInv ==
    /\ toolPc = "connecting" => handler = "none"
    /\ toolPc \in {"writing", "blocked"} => link = "open"
    /\ handler = "closed" => ~running \/ link = "none"
    /\ OnlyStopBreaksWriter

(* There is no connection initially.                                       *)
LEMMA LinkInit == Init => LinkInv
BY DEF Init, LinkInv, OnlyStopBreaksWriter

(* A handler closes a live tool's connection only after stop().            *)
LEMMA LinkStep == TypeInv /\ LinkInv /\ [Next]_vars => LinkInv'
<1> SUFFICES ASSUME TypeInv, LinkInv, [Next]_vars PROVE LinkInv'
  OBVIOUS
<1>0. /\ running \in BOOLEAN
      /\ link \in {"none", "open"}
      /\ Tool \in {"sniffer", "bridge"}
  BY LinkAssumption DEF LinkAssumption, TypeInv, TypeOK, Tool, Programs
<1> USE <1>0 DEF LinkInv, OnlyStopBreaksWriter, PeerGone
<1>1. CASE BusFrame
  BY <1>1 DEF BusFrame, toolVars, serverVars
<1>2. CASE Connect \/ ConnectFails \/ LoopCheck \/ ReadFrame \/ ReadError
  BY <1>2 DEF Connect, ConnectFails, LoopCheck, ReadFrame, ReadError,
     serverVars
<1>3. CASE WriteBytes \/ WriteBlocks
  BY <1>3 DEF WriteBytes, WriteBlocks, serverVars
<1>4. CASE WriteFails \/ SigPipe
  BY <1>4 DEF WriteFails, SigPipe, serverVars
<1>5. CASE SigInt
  BY <1>5 DEF SigInt, Stopped, serverVars
<1>6. CASE HandlerStep
  BY <1>6 DEF HandlerStep, Accept, BacklogReset, HandlerCheck, Recv,
     RecvEof, Dispatch, DispatchDone, toolVars
<1>7. CASE ServerStop
  BY <1>7 DEF ServerStop, toolVars
<1>8. CASE UNCHANGED vars
  BY <1>8 DEF vars, toolVars, serverVars
<1> QED BY <1>1, <1>2, <1>3, <1>4, <1>5, <1>6, <1>7, <1>8 DEF Next, Step, ToolStep

(* No writer is killed while the server is in service.                     *)
THEOREM WriterSafeInService == Spec => []OnlyStopBreaksWriter
<1>1. LinkInv => OnlyStopBreaksWriter
  BY DEF LinkInv
<1> QED
  BY TypeInit, TypeStep, LinkInit, LinkStep, <1>1, PTL DEF Spec

-------------------------------------------------------------------------------
(* The stream: what the handler has received and not cut yet, followed by  *)
(* what is still in the socket.  It always starts at a frame boundary and  *)
(* holds the frames written and not dispatched, then the part of the frame *)
(* whose write is under way.  Receiving does not change it; a write adds   *)
(* to its end, a dispatch takes FrameSize bytes off its head.              *)
Stream == buffer \o pipe

InTransit == bridged - Len(delivered)

StreamInv ==
    /\ Len(delivered) <= bridged
    /\ Len(Stream) = InTransit * FrameSize + woff
    /\ \A q \in Nat, r \in 1..FrameSize :
          q < InTransit =>
             Stream[q * FrameSize + r] = <<sent[Len(delivered) + q + 1], r>>
    /\ \A r \in 1..woff : Stream[InTransit * FrameSize + r] = <<frame, r>>
    /\ DeliveredIntact

(* After stop() the handler only finishes the chunk it has.                *)
LateInv ==
    /\ running => late = 0
    /\ ~running /\ handler = "recv" => late = 0
    /\ handler # "dispatch" => Len(buffer) < FrameSize
    /\ handler = "dispatch" =>
          late * FrameSize + Len(buffer) <= FrameSize - 1 + RecvMax
    /\ LateIsBounded

(* Frames stand in bus order along the whole path.                         *)
OrderInv ==
    /\ \A i, j \in 1..Len(sent) : i < j => sent[i] < sent[j]
    /\ \A i \in 1..Len(sent) : sent[i] <= frame
    /\ toolPc \in {"writing", "blocked"} /\ woff = 0 =>
          \A i \in 1..Len(sent) : sent[i] < frame
    /\ frame <= bus
    /\ \A i \in 1..Len(rxq) : frame < rxq[i] /\ rxq[i] <= bus
    /\ \A i, j \in 1..Len(rxq) : i < j => rxq[i] < rxq[j]

(* Nothing is late before stop().                                          *)
LEMMA LateInit == Init => LateInv
BY LinkAssumption DEF LinkAssumption, Init, LateInv, LateIsBounded

(* What the handler has in hand after stop() is at most one chunk and a    *)
(* part of a frame, and shrinks with every late dispatch.                  *)
LEMMA LateStep == TypeInv /\ LinkInv /\ LateInv /\ [Next]_vars => LateInv'
<1> SUFFICES ASSUME TypeInv, LinkInv, LateInv, [Next]_vars PROVE LateInv'
  OBVIOUS
<1>0. /\ FrameSize \in Nat \ {0}
      /\ RecvMax \in Nat \ {0}
      /\ late \in Nat
      /\ running \in BOOLEAN
      /\ buffer \in Seq(Byte)
      /\ Len(buffer) \in Nat
      /\ pipe \in Seq(Byte)
      /\ Len(pipe) \in Nat
  BY LinkAssumption, LenProperties
  DEF LinkAssumption, TypeInv, TypeOK, Byte
<1> USE <1>0 DEF LateInv, LateIsBounded
<1>1. CASE UNCHANGED serverVars
  BY <1>1 DEF serverVars
<1>2. CASE BusFrame \/ ReadError \/ SigInt \/ (ToolStep /\ ~Connect)
  BY <1>1, <1>2 DEF BusFrame, ToolStep, ConnectFails, LoopCheck, ReadFrame,
     ReadError, WriteBytes, WriteBlocks, WriteFails, SigPipe, SigInt
<1>3. CASE Connect \/ Accept \/ BacklogReset \/ HandlerCheck \/ RecvEof
  <2>1. /\ UNCHANGED <<buffer, running, late>>
        /\ handler # "dispatch" => handler' # "dispatch"
        /\ handler' = "recv" => running
    BY <1>3 DEF Connect, Accept, BacklogReset, HandlerCheck, RecvEof
  <2>2. handler # "dispatch"
    BY <1>3 DEF LinkInv, Connect, Accept, BacklogReset, HandlerCheck, RecvEof
  <2> QED BY <2>1, <2>2
<1>4. CASE Recv
  <2>1. PICK n \in 1..Smaller(RecvMax, Len(pipe)) :
           buffer' = buffer \o SubSeq(pipe, 1, n)
    BY <1>4 DEF Recv
  <2>2. n \in 0..Len(pipe) /\ n <= RecvMax
    BY <2>1 DEF Smaller
  <2>3. SubSeq(pipe, 1, n) \in Seq(Byte) /\ Len(SubSeq(pipe, 1, n)) = n
    BY <2>2, CutSeq
  <2>4. Len(buffer') = Len(buffer) + n
    BY <2>1, <2>3, ConcatProperties
  <2>5. late = 0 /\ Len(buffer) < FrameSize
    BY <1>4 DEF Recv
  <2> QED BY <1>4, <2>2, <2>4, <2>5 DEF Recv
<1>5. CASE Dispatch
  <2>1. /\ handler = "dispatch"
        /\ handler' = handler
        /\ running' = running
        /\ late' = IF running THEN late ELSE late + 1
        /\ Len(buffer) >= FrameSize
    BY <1>5 DEF Dispatch, BufferedFrame
  <2>2. Len(buffer') = Len(buffer) - FrameSize
    BY <1>5, <2>1, CutSeq DEF Dispatch, BufferedFrame
  <2>3. (late + 1) * FrameSize = late * FrameSize + FrameSize
    OBVIOUS
  <2>4. late' * FrameSize + Len(buffer') <= FrameSize - 1 + RecvMax
    <3>1. CASE running
      BY <2>1, <2>2, <3>1
    <3>2. CASE ~running
      BY <2>1, <2>2, <2>3, <3>2
    <3> QED BY <3>1, <3>2
  <2> QED BY <2>1, <2>2, <2>4
<1>6. CASE DispatchDone
  BY <1>6 DEF DispatchDone, BufferedFrame
<1>7. CASE ServerStop
  BY <1>7 DEF ServerStop
<1>8. CASE UNCHANGED vars
  BY <1>1, <1>8 DEF vars
<1> QED BY <1>2, <1>3, <1>4, <1>5, <1>6, <1>7, <1>8
  DEF Next, Step, ToolStep, HandlerStep

(* After stop() at most the frames completed by one chunk are dispatched,  *)
(* for every frame size and receive size.                                  *)
THEOREM LateDispatchBounded == Spec => []LateIsBounded
<1>1. LateInv => LateIsBounded
  BY DEF LateInv
<1> QED
  BY TypeInit, TypeStep, LinkInit, LinkStep, LateInit, LateStep, <1>1, PTL DEF Spec

-------------------------------------------------------------------------------
(* Multiples of the frame size, without division.                          *)
LEMMA Multiples ==
    ASSUME NEW size \in Nat \ {0}
    PROVE  /\ \A a \in Nat : a * size \in Nat
           /\ \A a \in Nat : (a + 1) * size = a * size + size
           /\ \A a, b \in Nat : a < b => a * size + size <= b * size
           /\ 0 * size = 0
<1>1. \A a \in Nat : a * size \in Nat
  OBVIOUS
<1>2. \A a \in Nat : (a + 1) * size = a * size + size
  OBVIOUS
<1>3. ASSUME NEW a \in Nat, NEW b \in Nat, a < b
      PROVE  a * size + size <= b * size
  <2>1. PICK c \in Nat : b = a + 1 + c
    <3>1. b - a - 1 \in Nat /\ b = a + 1 + (b - a - 1)
      BY <1>3
    <3> QED BY <3>1
  <2>2. b * size = (a * size + size) + c * size
    BY <2>1
  <2>3. c * size \in Nat
    BY <2>1, <1>1
  <2> QED BY <2>2, <2>3, <1>1
<1> QED BY <1>1, <1>2, <1>3

(* The stream is empty initially.                                          *)
LEMMA StreamInit == Init => StreamInv
<1> SUFFICES ASSUME Init PROVE StreamInv
  OBVIOUS
<1> USE LinkAssumption DEF LinkAssumption, Init
<1>1. Stream = <<>> /\ Len(delivered) = 0 /\ InTransit = 0
  <2>1. Len(<<>>) = 0 /\ <<>> \in Seq(Byte)
    BY EmptySeq
  <2>2. <<>> \o <<>> = <<>>
    BY ONLY <2>1, ConcatEmptySeq
  <2>3. Stream = <<>>
    BY <2>2 DEF Stream
  <2>4. delivered = <<>> /\ bridged = 0
    OBVIOUS
  <2>5. Len(delivered) = 0
    BY <2>1, <2>4
  <2>6. InTransit = 0
    <3>1. bridged = 0
      BY <2>4
    <3> QED BY ONLY <2>5, <3>1 DEF InTransit
  <2> QED BY <2>3, <2>5, <2>6
<1> QED BY <1>1, Multiples DEF StreamInv, DeliveredIntact

(* Every byte between the writer and the subscribers stays at its place:   *)
(* frame by frame, whatever the writes accept and recv returns.            *)
LEMMA StreamStep ==
    TypeInv /\ WriterInv /\ StreamInv /\ [Next]_vars => StreamInv'
<1> SUFFICES ASSUME TypeInv, WriterInv, StreamInv, [Next]_vars
             PROVE  StreamInv'
  OBVIOUS
<1>0. /\ FrameSize \in Nat \ {0}
      /\ RecvMax \in Nat \ {0}
      /\ buffer \in Seq(Byte) /\ Len(buffer) \in Nat
      /\ pipe \in Seq(Byte) /\ Len(pipe) \in Nat
      /\ sent \in Seq(0..MaxBus) /\ Len(sent) \in Nat
      /\ delivered \in Seq(Seq(Byte)) /\ Len(delivered) \in Nat
      /\ bridged \in Nat
      /\ woff \in 0..FrameSize - 1
      /\ frame \in 0..MaxBus
  BY LinkAssumption, LenProperties
  DEF LinkAssumption, TypeInv, TypeOK, Byte
<1>00. /\ InTransit \in Nat
       /\ Stream \in Seq(Byte)
       /\ Len(Stream) = Len(buffer) + Len(pipe)
       /\ \A i \in 1..Len(Stream) :
             Stream[i] = IF i <= Len(buffer) THEN buffer[i]
                                             ELSE pipe[i - Len(buffer)]
  BY <1>0, ConcatProperties DEF StreamInv, Stream, InTransit
<1>1. CASE UNCHANGED <<Stream, delivered, bridged, sent, woff, frame>>
  <2>1. UNCHANGED InTransit
    BY <1>1 DEF InTransit
  <2> QED BY <1>1, <2>1 DEF StreamInv, DeliveredIntact, FrameBytes
<1>2. CASE \/ BusFrame \/ Connect \/ ConnectFails \/ LoopCheck \/ ReadError
           \/ WriteBlocks \/ WriteFails \/ SigPipe \/ SigInt
           \/ Accept \/ BacklogReset \/ HandlerCheck \/ RecvEof
           \/ DispatchDone \/ ServerStop
  <2>1. UNCHANGED <<buffer, pipe, delivered, bridged, sent, woff, frame>>
    BY <1>2 DEF BusFrame, Connect, ConnectFails, LoopCheck, ReadError,
       WriteBlocks, WriteFails, SigPipe, SigInt, Accept, BacklogReset,
       HandlerCheck, RecvEof, DispatchDone, ServerStop, toolVars, serverVars
  <2> QED BY <1>1, <2>1 DEF Stream
<1>3. CASE UNCHANGED vars
  BY <1>1, <1>3 DEF vars, toolVars, serverVars, Stream
<1>4. CASE ReadFrame
  <2>1. /\ UNCHANGED <<buffer, pipe, delivered, bridged, sent, woff>>
        /\ woff = 0
    BY <1>4 DEF ReadFrame, serverVars, WriterInv
  <2>2. UNCHANGED <<Stream, InTransit>>
    BY <2>1 DEF Stream, InTransit
  <2> QED BY <2>1, <2>2 DEF StreamInv, DeliveredIntact, FrameBytes
<1>5. CASE Recv
  <2>1. PICK n \in 1..Smaller(RecvMax, Len(pipe)) :
           /\ buffer' = buffer \o SubSeq(pipe, 1, n)
           /\ pipe' = SubSeq(pipe, n + 1, Len(pipe))
    BY <1>5 DEF Recv
  <2>2. n \in 0..Len(pipe)
    BY <1>0, <2>1 DEF Smaller
  <2>3. UNCHANGED Stream
    BY <1>0, <2>1, <2>2, ConcatCut DEF Stream
  <2> QED BY <1>1, <1>5, <2>3 DEF Recv, toolVars

<1>6. CASE Dispatch
  <2>1. /\ Len(buffer) >= FrameSize
        /\ delivered' = Append(delivered, SubSeq(buffer, 1, FrameSize))
        /\ buffer' = SubSeq(buffer, FrameSize + 1, Len(buffer))
        /\ UNCHANGED <<pipe, bridged, sent, woff, frame>>
    BY <1>6 DEF Dispatch, BufferedFrame, toolVars
  <2>2. FrameSize \in 0..Len(buffer)
    BY <1>0, <2>1
  <2>3. /\ SubSeq(buffer, 1, FrameSize) \in Seq(Byte)
        /\ Len(SubSeq(buffer, 1, FrameSize)) = FrameSize
        /\ \A i \in 1..FrameSize : SubSeq(buffer, 1, FrameSize)[i] = buffer[i]
        /\ buffer' \in Seq(Byte)
        /\ Len(buffer') = Len(buffer) - FrameSize
        /\ \A i \in 1..Len(buffer) - FrameSize :
              buffer'[i] = buffer[FrameSize + i]
    BY <1>0, <2>1, <2>2, CutSeq
  <2>4. InTransit > 0
    <3>1. ASSUME InTransit = 0 PROVE FALSE
      <4>1. Len(Stream) = woff
        BY <1>0, <3>1 DEF StreamInv
      <4> QED BY <1>0, <1>00, <2>1, <4>1
    <3> QED BY <1>00, <3>1
  <2>5. /\ delivered' \in Seq(Seq(Byte))
        /\ Len(delivered') = Len(delivered) + 1
        /\ \A i \in 1..Len(delivered) : delivered'[i] = delivered[i]
        /\ delivered'[Len(delivered) + 1] = SubSeq(buffer, 1, FrameSize)
    BY <1>0, <2>1, <2>3, AppendProperties
  <2>6. InTransit' = InTransit - 1 /\ InTransit' \in Nat
    BY <1>0, <1>00, <2>1, <2>4, <2>5 DEF InTransit
  <2>7. /\ Len(Stream') = Len(Stream) - FrameSize
        /\ \A i \in 1..Len(Stream) - FrameSize :
              Stream'[i] = Stream[FrameSize + i]
    <3>1. /\ Len(Stream') = Len(buffer') + Len(pipe)
          /\ \A i \in 1..Len(buffer') + Len(pipe) :
                Stream'[i] = IF i <= Len(buffer') THEN buffer'[i]
                                                  ELSE pipe[i - Len(buffer')]
      BY <1>0, <2>1, <2>3, ConcatProperties DEF Stream
    <3>2. Len(Stream') = Len(Stream) - FrameSize
      BY <1>0, <1>00, <2>3, <3>1
    <3>3. ASSUME NEW i \in 1..Len(Stream) - FrameSize
          PROVE  Stream'[i] = Stream[FrameSize + i]
      <4>1. /\ i \in 1..Len(buffer') + Len(pipe)
            /\ FrameSize + i \in 1..Len(Stream)
        BY <1>0, <1>00, <2>3, <3>3
      <4>2. CASE i <= Len(buffer')
        <5>1. Stream'[i] = buffer[FrameSize + i]
          BY <1>0, <2>3, <3>1, <4>1, <4>2
        <5>2. FrameSize + i <= Len(buffer)
          BY <1>0, <2>3, <4>2
        <5>3. Stream[FrameSize + i] = buffer[FrameSize + i]
          BY <1>00, <4>1, <5>2
        <5> QED BY <5>1, <5>3
      <4>3. CASE ~(i <= Len(buffer'))
        <5>1. Stream'[i] = pipe[i - Len(buffer')]
          BY <3>1, <4>1, <4>3
        <5>2. /\ ~(FrameSize + i <= Len(buffer))
              /\ FrameSize + i - Len(buffer) = i - Len(buffer')
          BY <1>0, <2>3, <4>3
        <5>3. PICK j \in 1..Len(Stream) : j = FrameSize + i
          BY <4>1
        <5>4. Stream[j] = pipe[j - Len(buffer)]
          BY <1>00, <5>2, <5>3
        <5>5. j - Len(buffer) = i - Len(buffer')
          BY <1>0, <2>3, <5>3
        <5>6. Stream[j] = Stream'[i]
          BY <5>1, <5>4, <5>5
        <5> QED BY <5>3, <5>6
      <4> QED BY <4>2, <4>3
    <3> QED BY <3>2, <3>3
  <2>8. InTransit * FrameSize = InTransit' * FrameSize + FrameSize
    <3>1. InTransit = InTransit' + 1
      BY <1>00, <2>6
    <3>2. FrameSize \in Nat \ {0}
      BY <1>0
    <3> QED BY ONLY <3>1, <3>2, <2>6, Multiples
  <2>9. Len(delivered') <= bridged' /\ Len(Stream') = InTransit' * FrameSize + woff'
    <3>1. Len(delivered') <= bridged'
      BY <1>0, <1>00, <2>1, <2>4, <2>5 DEF InTransit
    <3>2. InTransit' * FrameSize \in Nat /\ InTransit * FrameSize \in Nat
      BY <1>0, <1>00, <2>6, Multiples
    <3>3. Len(Stream) = InTransit * FrameSize + woff
      BY DEF StreamInv
    <3> QED BY <1>0, <2>1, <2>7, <2>8, <3>1, <3>2, <3>3
  <2>10. ASSUME NEW q \in Nat, NEW r \in 1..FrameSize, q < InTransit'
         PROVE  Stream'[q * FrameSize + r]
                  = <<sent'[Len(delivered') + q + 1], r>>
    <3>1. q * FrameSize \in Nat /\ q * FrameSize + FrameSize <= InTransit' * FrameSize
      BY <1>0, <2>6, <2>10, Multiples
    <3>2. q * FrameSize + r \in 1..Len(Stream) - FrameSize
      <4>1. InTransit' * FrameSize \in Nat
        BY <1>0, <2>6, Multiples
      <4>2. Len(Stream) - FrameSize = InTransit' * FrameSize + woff
        BY <1>0, <2>1, <2>7, <2>9
      <4> DEFINE a == q * FrameSize
                 b == InTransit' * FrameSize
      <4>3. a \in Nat /\ b \in Nat /\ a + FrameSize <= b
        BY <3>1, <4>1
      <4>4. Len(Stream) - FrameSize = b + woff
        BY <4>2
      <4> HIDE DEF a, b
      <4>5. a + r \in 1..Len(Stream) - FrameSize
        BY <1>0, <4>3, <4>4
      <4> QED BY <4>5 DEF a
    <3>3. Stream'[q * FrameSize + r] = Stream[(q + 1) * FrameSize + r]
      <4>1. FrameSize + (q * FrameSize + r) = (q + 1) * FrameSize + r
        BY <1>0, <3>1, Multiples
      <4> QED BY <2>7, <3>2, <4>1
    <3>4. Stream[(q + 1) * FrameSize + r]
            = <<sent[Len(delivered) + (q + 1) + 1], r>>
      BY <1>00, <2>6, <2>10 DEF StreamInv
    <3>5. Len(delivered) + (q + 1) + 1 = Len(delivered') + q + 1
      BY <1>0, <2>5
    <3> QED BY <2>1, <3>3, <3>4, <3>5
  <2>11. ASSUME NEW r \in 1..woff'
         PROVE  Stream'[InTransit' * FrameSize + r] = <<frame', r>>
    <3>1. /\ InTransit' * FrameSize \in Nat
          /\ InTransit' * FrameSize + r \in 1..Len(Stream) - FrameSize
      <4>1. InTransit' * FrameSize \in Nat
        BY <1>0, <2>6, Multiples
      <4>2. Len(Stream) - FrameSize = InTransit' * FrameSize + woff
        BY <1>0, <2>1, <2>7, <2>9
      <4> QED BY <1>0, <2>1, <4>1, <4>2
    <3>2. FrameSize + (InTransit' * FrameSize + r) = InTransit * FrameSize + r
      BY <1>0, <2>8, <3>1
    <3>3. Stream'[InTransit' * FrameSize + r] = Stream[InTransit * FrameSize + r]
      BY <2>7, <3>1, <3>2
    <3> QED BY <2>1, <2>11, <3>3 DEF StreamInv
  <2>12. SubSeq(buffer, 1, FrameSize) = FrameBytes(sent[Len(delivered) + 1])
    <3>1. Len(delivered) + 1 \in 1..Len(sent)
      BY <1>0, <1>00, <2>4 DEF InTransit, WriterInv
    <3>2. sent[Len(delivered) + 1] \in 0..MaxBus
      BY <1>0, <3>1, ElementOfSeq
    <3>3. ASSUME NEW r \in 1..FrameSize
          PROVE  buffer[r] = <<sent[Len(delivered) + 1], r>>
      <4>1. Stream[0 * FrameSize + r] = <<sent[Len(delivered) + 0 + 1], r>>
        BY <2>4 DEF StreamInv
      <4>2. 0 * FrameSize + r = r /\ Len(delivered) + 0 + 1 = Len(delivered) + 1
        BY <1>0
      <4>3. Stream[r] = buffer[r]
        BY <1>0, <1>00, <2>1
      <4> QED BY <4>1, <4>2, <4>3
    <3> DEFINE head == SubSeq(buffer, 1, FrameSize)
               struct == FrameBytes(sent[Len(delivered) + 1])
    <3>4. struct \in Seq(Byte) /\ Len(struct) = FrameSize
      BY <3>2, FrameBytesType
    <3>5. \A r \in 1..FrameSize : head[r] = struct[r]
      BY <2>3, <3>2, <3>3, FrameBytesType
    <3>6. head \in Seq(Byte) /\ Len(head) = FrameSize
      BY <2>3
    <3> HIDE DEF head, struct
    <3>7. head = struct
      BY ONLY <3>4, <3>5, <3>6, SeqEqual
    <3> QED BY <3>7 DEF head, struct
  <2>13. DeliveredIntact'
    <3> SUFFICES ASSUME NEW i \in 1..Len(delivered')
                 PROVE  i <= bridged' /\ delivered'[i] = FrameBytes(sent'[i])
      BY DEF DeliveredIntact, FrameBytes
    <3>1. CASE i = Len(delivered) + 1
      BY <1>0, <2>1, <2>5, <2>9, <2>12, <3>1
    <3>2. CASE i \in 1..Len(delivered)
      BY <2>1, <2>5, <3>2 DEF StreamInv, DeliveredIntact
    <3> QED BY <1>0, <2>5, <3>1, <3>2
  <2> QED BY <2>9, <2>10, <2>11, <2>13 DEF StreamInv
<1>7. CASE WriteBytes
  <2> DEFINE n == Accepted
             add == SubSeq(FrameBytes(frame), woff + 1, woff + n)
             base == InTransit * FrameSize
  <2>1. /\ n \in Nat /\ n > 0 /\ woff + n <= FrameSize
        /\ pipe' = pipe \o add
        /\ sent' = IF woff = 0 THEN Append(sent, frame) ELSE sent
        /\ UNCHANGED <<buffer, delivered, frame>>
    BY <1>7, AcceptedBound DEF WriteBytes, serverVars
  <2>2. /\ add \in Seq(Byte) /\ Len(add) = n
        /\ \A i \in 1..n : add[i] = <<frame, woff + i>>
    <3>1. /\ FrameBytes(frame) \in Seq(Byte)
          /\ Len(FrameBytes(frame)) = FrameSize
          /\ \A j \in 1..FrameSize : FrameBytes(frame)[j] = <<frame, j>>
      BY <1>0, FrameBytesType
    <3>2. \A i \in woff + 1..woff + n : FrameBytes(frame)[i] \in Byte
      BY <1>0, <2>1, <3>1, ElementOfSeq
    <3>3. /\ add \in Seq(Byte)
          /\ Len(add) = n
          /\ \A i \in 1..n : add[i] = FrameBytes(frame)[woff + i]
      BY <1>0, <2>1, <3>2, SubSeqProperties
    <3>4. ASSUME NEW i \in 1..n PROVE add[i] = <<frame, woff + i>>
      <4>1. woff + i \in 1..FrameSize
        BY <1>0, <2>1
      <4> QED BY <3>1, <3>3, <4>1
    <3> QED BY <3>3, <3>4
  <2> HIDE DEF n, add
  <2>3. base \in Nat /\ Len(Stream) = base + woff
    BY <1>0, <1>00, Multiples DEF StreamInv
  <2>4. /\ Len(Stream') = base + woff + n
        /\ \A i \in 1..base + woff : Stream'[i] = Stream[i]
        /\ \A i \in 1..n : Stream'[base + woff + i] = <<frame, woff + i>>
    <3>1. Stream' = Stream \o add
      <4>1. add \in Seq(Byte) /\ buffer \in Seq(Byte) /\ pipe \in Seq(Byte)
        BY <1>0, <2>2
      <4>2. buffer \o (pipe \o add) = (buffer \o pipe) \o add
        BY ONLY <4>1, ConcatAssociative
      <4> QED BY <2>1, <4>2 DEF Stream
    <3>2. /\ Len(Stream \o add) = Len(Stream) + Len(add)
          /\ \A i \in 1..Len(Stream) + Len(add) :
                (Stream \o add)[i] = IF i <= Len(Stream) THEN Stream[i]
                                     ELSE add[i - Len(Stream)]
      <4>1. add \in Seq(Byte) /\ Stream \in Seq(Byte)
        BY <1>00, <2>2
      <4> QED BY ONLY <4>1, ConcatProperties
    <3> HIDE DEF base
    <3>3. /\ Len(Stream') = base + woff + n
          /\ \A i \in 1..base + woff + n :
                Stream'[i] = IF i <= base + woff THEN Stream[i]
                             ELSE add[i - (base + woff)]
      BY <2>2, <2>3, <3>1, <3>2
    <3>4. \A i \in 1..base + woff : Stream'[i] = Stream[i]
      BY <1>0, <2>1, <2>3, <3>3
    <3>5. ASSUME NEW i \in 1..n
          PROVE  Stream'[base + woff + i] = <<frame, woff + i>>
      <4>1. PICK k \in 1..base + woff + n : k = base + woff + i
        <5>1. base + woff + i \in 1..base + woff + n
          BY <1>0, <2>1, <2>3
        <5> QED BY <5>1
      <4>2. ~(k <= base + woff) /\ k - (base + woff) = i
        BY <1>0, <2>1, <2>3, <4>1
      <4>3. Stream'[k] = add[i]
        BY <3>3, <4>2
      <4> QED BY <2>2, <4>1, <4>3
    <3> QED BY <3>3, <3>4, <3>5
  <2>5. /\ Len(sent') = bridged + 1
        /\ sent'[bridged + 1] = frame
        /\ \A i \in 1..bridged : sent'[i] = sent[i]
    <3>1. CASE woff = 0
      <4>1. Len(sent) = bridged /\ sent' = Append(sent, frame)
        BY <2>1, <3>1 DEF WriterInv
      <4> QED BY <1>0, <4>1, AppendProperties
    <3>2. CASE woff > 0
      BY <1>0, <2>1, <3>2 DEF WriterInv
    <3> QED BY <1>0, <3>1, <3>2
  <2>6. ASSUME NEW q \in Nat, NEW r \in 1..FrameSize, q < InTransit
        PROVE  Stream'[q * FrameSize + r]
                 = <<sent'[Len(delivered) + q + 1], r>>
    <3> DEFINE a == q * FrameSize
    <3>1. a \in Nat /\ a + FrameSize <= base
      BY <1>0, <1>00, <2>6, Multiples
    <3> HIDE DEF a, base
    <3>2. a + r \in 1..base + woff
      BY <1>0, <2>3, <3>1
    <3>3. Stream'[a + r] = Stream[a + r]
      BY <2>4, <3>2
    <3>4. Stream[a + r] = <<sent[Len(delivered) + q + 1], r>>
      BY <2>6 DEF StreamInv, a
    <3>5. Len(delivered) + q + 1 \in 1..bridged
      BY <1>0, <1>00, <2>6 DEF InTransit
    <3>6. Stream'[a + r] = <<sent'[Len(delivered) + q + 1], r>>
      BY <2>5, <3>3, <3>4, <3>5
    <3> QED BY <3>6 DEF a
  <2>7. ASSUME NEW r \in 1..woff + n
        PROVE  Stream'[base + r] = <<frame, r>>
    <3>1. CASE r <= woff
      <4>1. base + r \in 1..base + woff
        BY <1>0, <2>3, <3>1
      <4>2. Stream[base + r] = <<frame, r>>
        BY <1>0, <3>1 DEF StreamInv
      <4> QED BY <2>4, <4>1, <4>2
    <3>2. CASE r > woff
      <4>1. PICK i \in 1..n : r = woff + i
        <5>1. r - woff \in 1..n /\ r = woff + (r - woff)
          BY <1>0, <2>1, <3>2
        <5> QED BY <5>1
      <4> HIDE DEF base
      <4>2. base + r = base + woff + i
        BY <1>0, <2>3, <4>1
      <4> QED BY <2>4, <4>1, <4>2
    <3> QED BY <1>0, <2>1, <3>1, <3>2
  <2>8. DeliveredIntact' /\ Len(delivered') <= bridged'
    <3>1. bridged' >= bridged /\ bridged' \in Nat
      <4>1. bridged' = bridged \/ bridged' = bridged + 1
        BY <1>7 DEF WriteBytes
      <4> QED BY <1>0, <4>1
    <3>2. \A i \in 1..Len(delivered) :
             i <= bridged' /\ delivered[i] = FrameBytes(sent'[i])
      BY <1>0, <2>5, <3>1 DEF StreamInv, DeliveredIntact
    <3>3. Len(delivered) <= bridged
      BY DEF StreamInv
    <3>4. Len(delivered') <= bridged'
      BY <1>0, <2>1, <3>1, <3>3
    <3>5. DeliveredIntact'
      BY <2>1, <3>2 DEF DeliveredIntact, FrameBytes
    <3> QED BY <3>4, <3>5
  <2>9. CASE woff + n = FrameSize
    <3>1. woff' = 0 /\ bridged' = bridged + 1 /\ InTransit' = InTransit + 1
      BY <1>0, <1>00, <1>7, <2>1, <2>9 DEF WriteBytes, InTransit, n
    <3>2. Len(Stream') = InTransit' * FrameSize + woff'
      <4>1. InTransit' * FrameSize = base + FrameSize
        BY <1>0, <1>00, <3>1, Multiples
      <4> HIDE DEF base
      <4>2. Len(Stream') = base + FrameSize
        <5>1. base + woff + n = base + FrameSize
          BY <1>0, <2>1, <2>3, <2>9
        <5> QED BY <2>4, <5>1
      <4>3. InTransit' * FrameSize + 0 = InTransit' * FrameSize
        BY <1>0, <2>3, <4>1
      <4> QED BY <3>1, <4>1, <4>2, <4>3
    <3>3. ASSUME NEW q \in Nat, NEW r \in 1..FrameSize, q < InTransit'
          PROVE  Stream'[q * FrameSize + r]
                   = <<sent'[Len(delivered') + q + 1], r>>
      <4>1. CASE q < InTransit
        BY <2>1, <2>6, <4>1
      <4>2. CASE q = InTransit
        <5>1. Len(delivered') + q + 1 = bridged + 1
          BY <1>0, <2>1, <4>2 DEF InTransit
        <5> QED BY <2>5, <2>7, <2>9, <4>2, <5>1
      <4> QED BY <1>00, <3>1, <3>3, <4>1, <4>2
    <3>4. \A r \in 1..woff' : FALSE
      BY <3>1
    <3> QED BY <2>8, <3>2, <3>3, <3>4 DEF StreamInv
  <2>10. CASE woff + n # FrameSize
    <3>1. woff' = woff + n /\ bridged' = bridged /\ InTransit' = InTransit
      BY <1>0, <1>00, <1>7, <2>1, <2>10 DEF WriteBytes, InTransit, n
    <3>2. Len(Stream') = InTransit' * FrameSize + woff'
      <4> HIDE DEF base
      <4>1. Len(Stream') = base + woff'
        BY <1>0, <2>1, <2>3, <2>4, <3>1
      <4> QED BY <3>1, <4>1 DEF base
    <3>3. ASSUME NEW q \in Nat, NEW r \in 1..FrameSize, q < InTransit'
          PROVE  Stream'[q * FrameSize + r]
                   = <<sent'[Len(delivered') + q + 1], r>>
      BY <2>1, <2>6, <3>1, <3>3
    <3>4. ASSUME NEW r \in 1..woff'
          PROVE  Stream'[InTransit' * FrameSize + r] = <<frame', r>>
      BY <2>1, <2>7, <3>1
    <3> QED BY <2>8, <3>2, <3>3, <3>4 DEF StreamInv
  <2> QED BY <2>9, <2>10
<1> QED
  BY <1>2, <1>3, <1>4, <1>5, <1>6, <1>7 DEF Next, Step, ToolStep, HandlerStep

(* Framing, for every frame size, chunk size and stream capacity: what is  *)
(* dispatched is, struct by struct, what was written.                      *)
THEOREM FramingCorrect == Spec => []DeliveredIntact
<1>1. StreamInv => DeliveredIntact
  BY DEF StreamInv
<1> QED
  BY TypeInit, TypeStep, WriterInit, WriterStep, StreamInit, StreamStep,
     <1>1, PTL DEF Spec

-------------------------------------------------------------------------------
(* Nothing is in order to begin with: there are no frames.                 *)
LEMMA OrderInit == Init => OrderInv
<1> SUFFICES ASSUME Init PROVE OrderInv
  OBVIOUS
<1>1. Len(sent) = 0 /\ Len(rxq) = 0
  BY EmptySeq DEF Init
<1>2. frame = 0 /\ bus = 0
  BY DEF Init
<1> QED BY <1>1, <1>2 DEF OrderInv

(* The frames sent, in hand and queued keep their bus order.               *)
LEMMA OrderStep ==
    TypeInv /\ WriterInv /\ OrderInv /\ [Next]_vars => OrderInv'
<1> SUFFICES ASSUME TypeInv, WriterInv, OrderInv, [Next]_vars PROVE OrderInv'
  OBVIOUS
<1>0. /\ sent \in Seq(0..MaxBus) /\ Len(sent) \in Nat
      /\ rxq \in Seq(1..MaxBus) /\ Len(rxq) \in Nat
      /\ frame \in Nat /\ bus \in Nat /\ MaxBus \in Nat
      /\ frame \in 0..MaxBus
      /\ \A i \in 1..Len(sent) : sent[i] \in Nat
      /\ \A i \in 1..Len(rxq) : rxq[i] \in Nat
  <2>1. sent \in Seq(0..MaxBus) /\ rxq \in Seq(1..MaxBus) /\ MaxBus \in Nat
    BY LinkAssumption DEF LinkAssumption, TypeInv, TypeOK
  <2>2. /\ \A i \in 1..Len(sent) : sent[i] \in 0..MaxBus
        /\ \A i \in 1..Len(rxq) : rxq[i] \in 1..MaxBus
    BY <2>1, ElementOfSeq
  <2>3. Len(sent) \in Nat /\ Len(rxq) \in Nat
    BY <2>1, LenProperties
  <2>4. bus \in Nat /\ frame \in 0..MaxBus
    BY <2>1 DEF TypeInv, TypeOK
  <2> QED BY <2>1, <2>2, <2>3, <2>4
<1>1. CASE UNCHANGED <<bus, rxq, frame, sent, woff, toolPc>>
  BY <1>1 DEF OrderInv
<1>2. CASE BusFrame
  <2>1. /\ UNCHANGED <<frame, sent, woff, toolPc>>
        /\ bus' = bus + 1 /\ bus + 1 \in 1..MaxBus
        /\ rxq' = Append(rxq, bus + 1) \/ rxq' = rxq
    BY <1>0, <1>2 DEF BusFrame, toolVars
  <2>2. CASE rxq' = rxq
    BY <1>0, <2>1, <2>2 DEF OrderInv
  <2>3. CASE rxq' = Append(rxq, bus + 1)
    <3>1. /\ Len(rxq') = Len(rxq) + 1
          /\ \A i \in 1..Len(rxq) : rxq'[i] = rxq[i]
          /\ rxq'[Len(rxq) + 1] = bus + 1
      BY <1>0, <2>1, <2>3, AppendProperties
    <3>2. ASSUME NEW i \in 1..Len(rxq')
          PROVE  frame < rxq'[i] /\ rxq'[i] <= bus'
      <4>1. CASE i \in 1..Len(rxq)
        <5>1. frame < rxq[i] /\ rxq[i] <= bus /\ rxq[i] \in Nat
          BY <1>0, <4>1 DEF OrderInv
        <5> QED BY <1>0, <2>1, <3>1, <4>1, <5>1
      <4>2. CASE i = Len(rxq) + 1
        BY <1>0, <2>1, <3>1, <4>2 DEF OrderInv
      <4> QED BY <1>0, <3>1, <4>1, <4>2
    <3>3. ASSUME NEW i \in 1..Len(rxq'), NEW j \in 1..Len(rxq'), i < j
          PROVE  rxq'[i] < rxq'[j]
      <4>1. i \in 1..Len(rxq)
        BY <1>0, <3>1, <3>3
      <4>2. CASE j \in 1..Len(rxq)
        BY <3>1, <3>3, <4>1, <4>2 DEF OrderInv
      <4>3. CASE j = Len(rxq) + 1
        BY <1>0, <3>1, <4>1, <4>3 DEF OrderInv
      <4> QED BY <1>0, <3>1, <4>2, <4>3
    <3>4. frame' <= bus'
      BY <1>0, <2>1 DEF OrderInv
    <3> QED BY <2>1, <3>2, <3>3, <3>4 DEF OrderInv
  <2> QED BY <2>1, <2>2, <2>3
<1>3. CASE ReadFrame
  <2>1. /\ UNCHANGED <<bus, sent, woff>>
        /\ rxq # <<>>
        /\ frame' = Head(rxq)
        /\ rxq' = Tail(rxq)
    BY <1>3 DEF ReadFrame
  <2>2. /\ Len(rxq') = Len(rxq) - 1
        /\ \A i \in 1..Len(rxq') : rxq'[i] = rxq[i + 1]
    BY <1>0, <2>1, HeadTailProperties
  <2>3. Len(rxq) > 0 /\ frame' = rxq[1]
    BY <1>0, <2>1, EmptySeq
  <2>4. frame < frame' /\ frame' <= bus
    BY <1>0, <2>3 DEF OrderInv
  <2>5. \A i \in 1..Len(sent) : sent[i] < frame'
    BY <1>0, <2>1, <2>3, <2>4 DEF OrderInv
  <2>6. ASSUME NEW i \in 1..Len(rxq')
        PROVE  frame' < rxq'[i] /\ rxq'[i] <= bus
    <3>1. 1 \in 1..Len(rxq) /\ i + 1 \in 1..Len(rxq) /\ 1 < i + 1
      BY <1>0, <2>2, <2>3
    <3>2. rxq[1] < rxq[i + 1] /\ rxq[i + 1] <= bus
      BY <3>1 DEF OrderInv
    <3> QED BY <2>2, <2>3, <3>2
  <2>7. ASSUME NEW i \in 1..Len(rxq'), NEW j \in 1..Len(rxq'), i < j
        PROVE  rxq'[i] < rxq'[j]
    <3>1. i + 1 \in 1..Len(rxq) /\ j + 1 \in 1..Len(rxq) /\ i + 1 < j + 1
      BY <1>0, <2>2, <2>7
    <3>2. rxq[i + 1] < rxq[j + 1]
      BY <3>1 DEF OrderInv
    <3> QED BY <2>2, <3>2
  <2>8. frame' \in Nat
    BY <1>0, <2>3
  <2> QED BY <1>0, <2>1, <2>4, <2>5, <2>6, <2>7, <2>8 DEF OrderInv
<1>4. CASE WriteBytes
  <2>1. /\ UNCHANGED <<bus, rxq, frame>>
        /\ toolPc \in {"writing", "blocked"}
        /\ sent' = IF woff = 0 THEN Append(sent, frame) ELSE sent
        /\ toolPc' = "check" \/ (toolPc' = "blocked" /\ woff' # 0)
    <3>1. /\ Accepted \in Nat /\ Accepted > 0 /\ woff \in Nat
      BY <1>4, AcceptedBound, LinkAssumption
      DEF LinkAssumption, WriteBytes, TypeInv, TypeOK
    <3> QED BY <1>4, <3>1 DEF WriteBytes
  <2>2. CASE woff # 0
    BY <2>1, <2>2 DEF OrderInv
  <2>3. CASE woff = 0
    <3>1. /\ Len(sent') = Len(sent) + 1
          /\ \A i \in 1..Len(sent) : sent'[i] = sent[i]
          /\ sent'[Len(sent) + 1] = frame
      BY <1>0, <2>1, <2>3, AppendProperties
    <3>2. \A i \in 1..Len(sent) : sent[i] < frame
      BY <2>1, <2>3 DEF OrderInv
    <3>3. ASSUME NEW i \in 1..Len(sent')
          PROVE  sent'[i] <= frame
      <4>1. CASE i \in 1..Len(sent)
        BY <1>0, <3>1, <3>2, <4>1
      <4>2. CASE i = Len(sent) + 1
        BY <1>0, <3>1, <4>2
      <4> QED BY <1>0, <3>1, <4>1, <4>2
    <3>4. ASSUME NEW i \in 1..Len(sent'), NEW j \in 1..Len(sent'), i < j
          PROVE  sent'[i] < sent'[j]
      <4>1. i \in 1..Len(sent)
        BY <1>0, <3>1, <3>4
      <4>2. CASE j \in 1..Len(sent)
        BY <3>1, <3>4, <4>1, <4>2 DEF OrderInv
      <4>3. CASE j = Len(sent) + 1
        BY <3>1, <3>2, <4>1, <4>3
      <4> QED BY <1>0, <3>1, <4>2, <4>3
    <3> QED BY <2>1, <3>3, <3>4 DEF OrderInv
  <2> QED BY <2>2, <2>3
<1>5. CASE \/ Connect \/ ConnectFails \/ LoopCheck \/ ReadError
           \/ WriteBlocks \/ WriteFails \/ SigPipe \/ SigInt
  <2>1. /\ UNCHANGED <<bus, rxq, frame, sent, woff>>
        /\ toolPc' \in {"writing", "blocked"} =>
              toolPc \in {"writing", "blocked"}
    BY <1>5 DEF Connect, ConnectFails, LoopCheck, ReadError, WriteBlocks,
       WriteFails, SigPipe, SigInt
  <2> QED BY <2>1 DEF OrderInv
<1>6. CASE HandlerStep \/ ServerStop
  BY <1>1, <1>6 DEF HandlerStep, Accept, BacklogReset, HandlerCheck, Recv,
     RecvEof, Dispatch, DispatchDone, ServerStop, toolVars
<1>7. CASE UNCHANGED vars
  BY <1>1, <1>7 DEF vars, toolVars
<1> QED BY <1>2, <1>3, <1>4, <1>5, <1>6, <1>7 DEF Next, Step, ToolStep

(* The detector sees frames in bus order, each at most once, whatever was  *)
(* dropped or cut short on the way.                                        *)
THEOREM BusOrderCorrect == Spec => []DeliveredInBusOrder
<1>1. TypeInv /\ WriterInv /\ StreamInv /\ OrderInv => DeliveredInBusOrder
  <2> SUFFICES ASSUME TypeInv, WriterInv, StreamInv, OrderInv,
                      NEW i \in 1..Len(delivered) - 1
               PROVE  delivered[i][1][1] < delivered[i + 1][1][1]
    BY DEF DeliveredInBusOrder
  <2>1. /\ Len(delivered) \in Nat /\ Len(sent) \in Nat /\ bridged \in Nat
        /\ FrameSize \in Nat \ {0} /\ woff \in Nat
    BY LinkAssumption, LenProperties DEF LinkAssumption, TypeInv, TypeOK
  <2>2. /\ i \in 1..Len(delivered) /\ i + 1 \in 1..Len(delivered)
        /\ i \in 1..Len(sent) /\ i + 1 \in 1..Len(sent)
    <3>1. Len(delivered) <= bridged /\ bridged <= Len(sent)
      BY <2>1 DEF StreamInv, WriterInv
    <3> QED BY <2>1, <3>1
  <2>3. /\ delivered[i] = FrameBytes(sent[i])
        /\ delivered[i + 1] = FrameBytes(sent[i + 1])
    BY <2>2 DEF StreamInv, DeliveredIntact
  <2>4. \A f : FrameBytes(f)[1][1] = f
    BY <2>1 DEF FrameBytes
  <2>5. sent[i] < sent[i + 1]
    BY <2>1, <2>2 DEF OrderInv
  <2> QED BY <2>3, <2>4, <2>5
<1> QED
  BY TypeInit, TypeStep, WriterInit, WriterStep, StreamInit, StreamStep,
     OrderInit, OrderStep, <1>1, PTL DEF Spec

-------------------------------------------------------------------------------
(* IpcLink implements the safety part of FrameChannel: no step of the      *)
(* sockets, of the tool or of the handler does anything to the frames but  *)
(* put one in, take the oldest out, or end the service.                    *)
Input  == SubSeq(sent, 1, bridged)
Output == [i \in 1..Len(delivered) |-> delivered[i][1][1]]
Limit  == (FrameSize - 1 + RecvMax) \div FrameSize

(* A tool that writes has a frame in hand.                                 *)
HandInv == toolPc \in {"writing", "blocked"} => frame \in 1..MaxBus

(* The tool starts without one.                                            *)
LEMMA HandInit == Init => HandInv
BY DEF Init, HandInv

(* Only a read leads to a write.                                           *)
LEMMA HandStep == TypeInv /\ HandInv /\ [Next]_vars => HandInv'
<1> SUFFICES ASSUME TypeInv, HandInv, [Next]_vars PROVE HandInv'
  OBVIOUS
<1> USE DEF HandInv
<1>1. CASE ReadFrame
  <2>1. rxq \in Seq(1..MaxBus) /\ rxq # <<>>
    BY <1>1 DEF ReadFrame, TypeInv, TypeOK
  <2>2. Head(rxq) \in 1..MaxBus
    BY ONLY <2>1, HeadTailProperties
  <2> QED BY <1>1, <2>2 DEF ReadFrame
<1>2. CASE UNCHANGED <<toolPc, frame>>
  BY <1>2
<1>3. CASE ToolStep /\ ~ReadFrame
  BY <1>3 DEF ToolStep, Connect, ConnectFails, LoopCheck, WriteBytes,
     WriteBlocks, WriteFails, SigPipe
<1>4. CASE ReadError \/ SigInt
  BY <1>4 DEF ReadError, SigInt
<1>5. CASE BusFrame \/ HandlerStep \/ ServerStop \/ UNCHANGED vars
  BY <1>2, <1>5 DEF BusFrame, HandlerStep, Accept, BacklogReset, HandlerCheck,
     Recv, RecvEof, Dispatch, DispatchDone, ServerStop, vars, toolVars
<1> QED BY <1>1, <1>3, <1>4, <1>5 DEF Next, Step

(* Division without division: what is bounded by a product is bounded by   *)
(* the quotient.                                                           *)
LEMMA Quotient ==
    ASSUME NEW n \in Nat \ {0}, NEW a \in Nat, NEW b \in Nat, a * n <= b
    PROVE  a <= b \div n
<1> DEFINE d == b \div n
<1>1. d \in Nat /\ b < (d + 1) * n
  OBVIOUS
<1> QED BY <1>1

(* What comes out is, frame by frame, what was written.                    *)
LEMMA OutputIsInput ==
    ASSUME TypeInv, WriterInv, StreamInv
    PROVE  /\ Len(sent) \in Nat /\ bridged \in Nat /\ bridged <= Len(sent)
           /\ Input \in Seq(0..MaxBus) /\ Len(Input) = bridged
           /\ \A i \in 1..bridged : Input[i] = sent[i]
           /\ Output \in Seq(0..MaxBus) /\ Len(Output) = Len(delivered)
           /\ Len(delivered) \in Nat /\ Len(delivered) <= bridged
           /\ \A i \in 1..Len(delivered) : Output[i] = sent[i]
<1>1. /\ sent \in Seq(0..MaxBus) /\ Len(sent) \in Nat /\ bridged \in Nat
      /\ delivered \in Seq(Seq(Byte)) /\ Len(delivered) \in Nat
      /\ woff \in Nat /\ FrameSize \in Nat \ {0}
  BY LinkAssumption, LenProperties DEF LinkAssumption, TypeInv, TypeOK, Byte
<1>2. bridged <= Len(sent) /\ Len(delivered) <= bridged
  BY <1>1 DEF WriterInv, StreamInv
<1>3. /\ Input \in Seq(0..MaxBus) /\ Len(Input) = bridged
      /\ \A i \in 1..bridged : Input[i] = sent[i]
  <2>1. bridged \in 0..Len(sent)
    BY <1>1, <1>2
  <2> QED BY <1>1, <2>1, CutSeq DEF Input
<1>4. ASSUME NEW i \in 1..Len(delivered)
      PROVE  delivered[i][1][1] = sent[i] /\ sent[i] \in 0..MaxBus
  <2>1. delivered[i] = FrameBytes(sent[i])
    BY DEF StreamInv, DeliveredIntact
  <2>2. FrameBytes(sent[i])[1][1] = sent[i]
    BY <1>1 DEF FrameBytes
  <2>3. i \in 1..Len(sent)
    BY <1>1, <1>2
  <2> QED BY <1>1, <2>1, <2>2, <2>3, ElementOfSeq
<1>5. Output \in [1..Len(delivered) -> 0..MaxBus]
  BY <1>4 DEF Output
<1>6. Output \in Seq(0..MaxBus) /\ Len(Output) = Len(delivered)
  <2>1. Output \in Seq(0..MaxBus)
    <3>1. \A i \in 1..Len(delivered) : delivered[i][1][1] \in 0..MaxBus
      BY <1>4
    <3> QED BY ONLY <1>1, <3>1, IsASeq DEF Output
  <2>2. DOMAIN Output = 1..Len(delivered)
    BY <1>5
  <2> QED BY ONLY <1>1, <2>1, <2>2, LenProperties
<1>7. \A i \in 1..Len(delivered) : Output[i] = sent[i]
  BY <1>4 DEF Output
<1> QED BY <1>1, <1>2, <1>3, <1>6, <1>7

(* Growing a sequence by one element.                                      *)
LEMMA GrowSeq ==
    ASSUME NEW S, NEW s \in Seq(S), NEW t \in Seq(S), NEW e,
           Len(t) = Len(s) + 1, t[Len(s) + 1] = e,
           \A i \in 1..Len(s) : t[i] = s[i]
    PROVE  t = Append(s, e)
<1>1. Len(s) \in Nat /\ 1..Len(t) = 1..Len(s) \cup {Len(s) + 1}
  BY LenProperties
<1>2. e \in S
  BY <1>1, ElementOfSeq
<1>3. /\ Append(s, e) \in Seq(S) /\ Len(Append(s, e)) = Len(s) + 1
      /\ Append(s, e)[Len(s) + 1] = e
      /\ \A i \in 1..Len(s) : Append(s, e)[i] = s[i]
  BY <1>2, AppendProperties
<1>4. \A i \in 1..Len(t) : t[i] = Append(s, e)[i]
  BY <1>1, <1>3
<1> QED BY <1>3, <1>4, SeqEqual

-------------------------------------------------------------------------------
(* The steps of FrameChannel in terms of the link's state.                 *)
LEMMA Puts ==
    ASSUME NEW f \in 1..MaxBus, Input' = Append(Input, f),
           UNCHANGED <<Output, running, late>>
    PROVE  Channel!ChannelNext
BY DEF Input, Output, Channel!Put, Channel!ChannelNext

(* In service, the oldest frame comes out.                                 *)
LEMMA Takes ==
    ASSUME running, Len(Output) < Len(Input),
           Output' = Append(Output, Input[Len(Output) + 1]),
           UNCHANGED <<Input, running, late>>
    PROVE  Channel!ChannelNext
BY DEF Input, Output, Channel!ComeOut, Channel!TakeInService,
       Channel!ChannelNext

(* And after the stop, while the limit allows it.                          *)
LEMMA TakesLate ==
    ASSUME ~running, late < Limit, late' = late + 1,
           Len(Output) < Len(Input),
           Output' = Append(Output, Input[Len(Output) + 1]),
           UNCHANGED <<Input, running>>
    PROVE  Channel!ChannelNext
BY DEF Input, Output, Limit, Channel!ComeOut, Channel!TakeLate,
       Channel!ChannelNext

(* The rest of the link's steps stutter.                                   *)
LEMMA Stutters ==
    ASSUME UNCHANGED <<Input, Output, running, late>>
    PROVE  UNCHANGED Channel!channelVars
BY DEF Input, Output, Channel!channelVars

(* The link starts where the channel starts: empty.                        *)
LEMMA RefinesInit == Init => Channel!ChannelInit
<1> SUFFICES ASSUME Init PROVE Channel!ChannelInit
  OBVIOUS
<1>1. Input = <<>>
  BY DEF Init, Input
<1>2. Output = <<>>
  BY DEF Init, Output
<1> QED BY <1>1, <1>2 DEF Init, Input, Output, Channel!ChannelInit

(* Every step of the link is a step of the channel or leaves it as it was: *)
(* the write that completes a struct puts its frame in, a dispatch takes   *)
(* the oldest out, stop() ends the service.                                *)
LEMMA RefinesStep ==
        /\ TypeInv /\ WriterInv /\ HandInv /\ StreamInv /\ LateInv
        /\ TypeInv' /\ WriterInv' /\ StreamInv' /\ LateInv'
        /\ [Next]_vars
    =>  [Channel!ChannelNext]_(Channel!channelVars)
<1> SUFFICES ASSUME TypeInv, WriterInv, HandInv, StreamInv, LateInv,
                    TypeInv', WriterInv', StreamInv', LateInv', [Next]_vars
             PROVE  [Channel!ChannelNext]_(Channel!channelVars)
  OBVIOUS
<1>0. /\ Len(sent) \in Nat /\ bridged \in Nat /\ bridged <= Len(sent)
      /\ Input \in Seq(0..MaxBus) /\ Len(Input) = bridged
      /\ \A i \in 1..bridged : Input[i] = sent[i]
      /\ Output \in Seq(0..MaxBus) /\ Len(Output) = Len(delivered)
      /\ Len(delivered) \in Nat /\ Len(delivered) <= bridged
      /\ \A i \in 1..Len(delivered) : Output[i] = sent[i]
  BY OutputIsInput
<1>00. /\ Input' \in Seq(0..MaxBus) /\ Len(Input') = bridged'
       /\ \A i \in 1..bridged' : Input'[i] = sent'[i]
       /\ Output' \in Seq(0..MaxBus) /\ Len(Output') = Len(delivered')
       /\ Len(delivered') <= bridged'
       /\ \A i \in 1..Len(delivered') : Output'[i] = sent'[i]
  <2>1. TypeInv' /\ WriterInv' /\ StreamInv'
    OBVIOUS
  <2>2. (TypeInv /\ WriterInv /\ StreamInv =>
           /\ Input \in Seq(0..MaxBus) /\ Len(Input) = bridged
           /\ \A i \in 1..bridged : Input[i] = sent[i]
           /\ Output \in Seq(0..MaxBus) /\ Len(Output) = Len(delivered)
           /\ Len(delivered) <= bridged
           /\ \A i \in 1..Len(delivered) : Output[i] = sent[i])'
    BY OutputIsInput, PTL
  <2> QED BY <2>1, <2>2
<1>1. ASSUME UNCHANGED <<sent, bridged, delivered, running, late>>
      PROVE  UNCHANGED Channel!channelVars
  BY <1>1, Stutters DEF Input, Output
<1>2. CASE BusFrame \/ ReadError \/ SigInt \/ (ToolStep /\ ~WriteBytes)
  BY <1>1, <1>2 DEF BusFrame, ReadError, SigInt, ToolStep, Connect,
     ConnectFails, LoopCheck, ReadFrame, WriteBlocks, WriteFails, SigPipe,
     toolVars, serverVars
<1>3. CASE HandlerStep /\ ~Dispatch
  BY <1>1, <1>3 DEF HandlerStep, Accept, BacklogReset, HandlerCheck, Recv,
     RecvEof, DispatchDone, toolVars
<1>4. CASE WriteBytes
  <2>1. /\ UNCHANGED <<delivered, running, late>>
        /\ toolPc \in {"writing", "blocked"}
        /\ sent' = IF woff = 0 THEN Append(sent, frame) ELSE sent
        /\ \/ bridged' = bridged + 1
           \/ bridged' = bridged
    BY <1>4 DEF WriteBytes, serverVars
  <2>2. UNCHANGED Output
    BY <2>1 DEF Output
  <2>3. /\ sent'[bridged + 1] = frame
        /\ \A i \in 1..bridged : sent'[i] = sent[i]
    <3>1. CASE woff = 0
      <4>1. Len(sent) = bridged /\ sent' = Append(sent, frame)
        BY <2>1, <3>1 DEF WriterInv
      <4>2. sent \in Seq(0..MaxBus) /\ frame \in 0..MaxBus
        BY DEF TypeInv, TypeOK
      <4> QED BY ONLY <4>1, <4>2, AppendProperties
    <3>2. CASE woff # 0
      <4>1. woff > 0 /\ sent' = sent
        BY <2>1, <3>2, LinkAssumption DEF LinkAssumption, TypeInv, TypeOK
      <4> QED BY <1>0, <4>1 DEF WriterInv
    <3> QED BY <3>1, <3>2
  <2>4. CASE bridged' = bridged
    <3>1. /\ Input \in Seq(0..MaxBus) /\ Input' \in Seq(0..MaxBus)
          /\ Len(Input') = Len(Input)
          /\ \A i \in 1..Len(Input) : Input'[i] = Input[i]
      BY ONLY <1>0, <1>00, <2>3, <2>4
    <3>2. Input' = Input
      BY ONLY <3>1, SeqEqual
    <3> QED BY <2>1, <2>2, <3>2, Stutters
  <2>5. CASE bridged' = bridged + 1
    <3>1. PICK f \in 1..MaxBus : f = frame
      BY <2>1 DEF HandInv
    <3>2. /\ Len(Input') = Len(Input) + 1
          /\ Input'[Len(Input) + 1] = f
          /\ \A i \in 1..Len(Input) : Input'[i] = Input[i]
      <4>1. bridged + 1 \in 1..bridged' /\ 1..bridged \subseteq 1..bridged'
        BY <1>0, <2>5
      <4>2. Input'[bridged + 1] = sent'[bridged + 1]
        BY ONLY <1>00, <4>1
      <4>3. \A i \in 1..bridged : Input'[i] = sent'[i]
        BY ONLY <1>00, <4>1
      <4> QED BY ONLY <1>0, <1>00, <2>3, <2>5, <3>1, <4>2, <4>3
    <3>3. Input \in Seq(0..MaxBus) /\ Input' \in Seq(0..MaxBus)
      BY <1>0, <1>00
    <3>4. Input' = Append(Input, f)
      BY ONLY <3>2, <3>3, GrowSeq
    <3> QED BY <2>1, <2>2, <3>4, Puts
  <2> QED BY <2>1, <2>4, <2>5
<1>5. CASE Dispatch
  <2>1. /\ UNCHANGED <<sent, bridged, running, handler>>
        /\ handler = "dispatch"
        /\ delivered' = Append(delivered, SubSeq(buffer, 1, FrameSize))
        /\ late' = IF running THEN late ELSE late + 1
    BY <1>5 DEF Dispatch, toolVars
  <2>2. UNCHANGED Input
    BY <2>1 DEF Input
  <2>3. Len(delivered') = Len(delivered) + 1
    <3>1. /\ buffer \in Seq(Byte) /\ FrameSize \in 0..Len(buffer)
          /\ delivered \in Seq(Seq(Byte))
      BY <1>5, LinkAssumption, LenProperties
      DEF LinkAssumption, Dispatch, BufferedFrame, TypeInv, TypeOK, Byte
    <3>2. SubSeq(buffer, 1, FrameSize) \in Seq(Byte)
      BY ONLY <3>1, CutSeq
    <3> QED BY ONLY <2>1, <3>1, <3>2, AppendProperties
  <2>4. Len(Output) < Len(Input)
    BY <1>0, <1>00, <2>1, <2>3
  <2>5. /\ Len(Output') = Len(Output) + 1
        /\ Output'[Len(Output) + 1] = Input[Len(Output) + 1]
        /\ \A i \in 1..Len(Output) : Output'[i] = Output[i]
    BY <1>0, <1>00, <2>1, <2>3, <2>4
  <2>6. Output' = Append(Output, Input[Len(Output) + 1])
    <3>1. Output \in Seq(0..MaxBus) /\ Output' \in Seq(0..MaxBus)
      BY <1>0, <1>00
    <3> QED BY ONLY <2>5, <3>1, GrowSeq
  <2>7. CASE running
    BY <2>1, <2>2, <2>4, <2>6, <2>7, Takes
  <2>8. CASE ~running
    <3>1. late' = late + 1 /\ late \in Nat
      BY <2>1, <2>8 DEF TypeInv, TypeOK
    <3>2. /\ FrameSize \in Nat \ {0} /\ RecvMax \in Nat \ {0}
          /\ FrameSize - 1 + RecvMax \in Nat
      BY LinkAssumption DEF LinkAssumption
    <3>3. (late + 1) * FrameSize <= FrameSize - 1 + RecvMax
      BY <3>1 DEF LateInv, LateIsBounded
    <3>4. late + 1 <= Limit
      BY ONLY <3>1, <3>2, <3>3, Quotient DEF Limit
    <3>5. late < Limit
      <4>1. Limit \in Int
        BY ONLY <3>2 DEF Limit
      <4> QED BY ONLY <3>1, <3>4, <4>1
    <3> QED BY <2>1, <2>2, <2>4, <2>6, <2>8, <3>1, <3>5, TakesLate
  <2> QED BY <2>7, <2>8
<1>6. CASE ServerStop
  <2>1. /\ UNCHANGED <<sent, bridged, delivered, late>>
        /\ running /\ running' = FALSE
    BY <1>6 DEF ServerStop, toolVars
  <2>2. Channel!EndService
    BY <2>1 DEF Channel!EndService
  <2> QED BY <2>2 DEF Channel!ChannelNext
<1>7. CASE UNCHANGED vars
  BY <1>1, <1>7 DEF vars, toolVars, serverVars
<1> QED BY <1>2, <1>3, <1>4, <1>5, <1>6, <1>7 DEF Next, Step, HandlerStep, ToolStep

(* The link implements the safety part of the abstract channel: whatever   *)
(* the sizes of the writes and of the reads, frames come out whole, in     *)
(* order, at most once and only after they went in, and after stop() no    *)
(* more of them than one chunk completes.                                  *)
THEOREM LinkImplementsChannel == Spec => Channel!SafeChannel
<1> QED
  BY TypeInit, TypeStep, WriterInit, WriterStep, LinkInit, LinkStep, HandInit,
     HandStep, StreamInit, StreamStep, LateInit, LateStep, RefinesInit,
     RefinesStep, PTL DEF Spec, Channel!SafeChannel

-------------------------------------------------------------------------------
(* The life cycle of the server, for any number of starts and clients.     *)
(* Its theorems rest on one inductive invariant: a thread of an earlier    *)
(* run is never left outside its accept loop, so what start() and stop()   *)
(* race with is the newest thread alone.                                   *)

Ended(g) == thread[g] \in {"check", "accept", "dead"}

(* Where the threads of each run can be.                                   *)
RunsInv ==
    /\ \A g \in Runs : g < starts => Ended(g)
    /\ \A g \in Runs : g > starts => thread[g] = "none"
    /\ mainPc # "idle" => ~isRunning
    /\ isRunning => starts > 0
    /\ (mainPc = "idle" /\ ~isRunning /\ starts > 0) => Ended(starts)

(* What the newest thread finds at each step while nobody stops it.        *)
ServingInv ==
    isRunning =>
        /\ thread[starts] \notin {"none", "dead"}
        /\ thread[starts] = "remove" => path # Absent
        /\ thread[starts] \in {"socket", "bind"} => path = Absent
        /\ thread[starts] = "bind" =>
              serverSock = starts /\ sock[starts] = "made"
        /\ thread[starts] = "listen" =>
              serverSock = starts /\ sock[starts] = "bound" /\ path = starts
        /\ InLoop(starts) =>
              serverSock = starts /\ sock[starts] = "listening" /\ path = starts
        /\ thread[starts] = "accept" => on[starts] = starts

(* What stop() leaves behind it, step by step, when it began orderly.      *)
OrderlyInv ==
    /\ \A g \in Runs : sock[g] = "listening" => g = serverSock
    /\ (orderly /\ ~isRunning /\ starts > 0) =>
          /\ Ended(starts)
          /\ mainPc # "close" => \A g \in Runs : sock[g] # "listening"
          /\ mainPc \in {"join", "idle"} => path = Absent

ServerInv == ServerTypeOK /\ RunsInv /\ ServingInv /\ OrderlyInv

(* The invariant holds before the first start().                           *)
LEMMA ServerInvInit == ServerInit => ServerInv
<1> SUFFICES ASSUME ServerInit PROVE ServerInv
  OBVIOUS
<1> USE ServerAssumption DEF ServerAssumption, ServerInit, Runs, Absent, Stale
<1>1. ServerTypeOK
  <2>1. path \in 0..MaxStarts + 1
    OBVIOUS
  <2>2. starts \in 0..MaxStarts /\ serverSock \in 0..MaxStarts
    OBVIOUS
  <2>3. on \in [Runs -> 0..MaxStarts] /\ queuedOn \in [Clients -> 0..MaxStarts]
    OBVIOUS
  <2> QED BY <2>1, <2>2, <2>3 DEF ServerTypeOK
<1>2. RunsInv /\ ServingInv /\ OrderlyInv
  BY DEF RunsInv, ServingInv, OrderlyInv
<1> QED BY <1>1, <1>2 DEF ServerInv

(* Every step of the control thread, the server threads, the handlers and  *)
(* the tools preserves it.                                                 *)
LEMMA ServerStepInv == ServerInv /\ [ServerNext]_lifeVars => ServerInv'
<1> SUFFICES ASSUME ServerInv, [ServerNext]_lifeVars PROVE ServerInv'
  OBVIOUS
<1> USE ServerAssumption
    DEF ServerAssumption, ServerInv, ServerTypeOK, RunsInv, ServingInv, OrderlyInv,
        Ended, InLoop, Runs, Absent, Stale
<1>0. \A g \in Runs :
          thread[g] \in {"exists", "remove", "socket", "bind", "listen"} =>
              g = starts
  <2> SUFFICES ASSUME NEW g \in Runs,
                      thread[g] \in {"exists", "remove", "socket", "bind",
                                    "listen"}
               PROVE  g = starts
    OBVIOUS
  <2>1. ~(g < starts) /\ ~(g > starts)
    OBVIOUS
  <2>2. g \in Nat /\ starts \in Nat
    OBVIOUS
  <2> QED BY ONLY <2>1, <2>2
<1>1. CASE Start
  BY <1>1 DEF Start, connVars
<1>2. CASE Stop
  <2>1. orderly' \in BOOLEAN
    <3>1. (thread[starts] \in {"check", "accept"}) \in BOOLEAN
      BY ONLY Z3
    <3>2. orderly' = (IF isRunning THEN thread[starts] \in {"check", "accept"}
                      ELSE orderly)
      BY ONLY <1>2 DEF Stop, InLoop
    <3>3. orderly \in BOOLEAN
      OBVIOUS
    <3> QED BY ONLY <3>1, <3>2, <3>3
  <2>2. ServerTypeOK'
    BY <1>2, <2>1 DEF Stop, connVars
  <2>3. RunsInv' /\ ServingInv'
    BY <1>2 DEF Stop, connVars
  <2>4. OrderlyInv'
    BY <1>2 DEF Stop, connVars
  <2> QED BY <2>2, <2>3, <2>4
<1>3. CASE StopClose
  BY <1>3 DEF StopClose, connVars
<1>4. CASE StopExists
  BY <1>4 DEF StopExists, connVars
<1>5. CASE StopRemove
  BY <1>5 DEF StopRemove, connVars
<1>6. CASE StopJoin
  BY <1>6 DEF StopJoin, connVars
<1>7. ASSUME NEW g \in Runs, PathExists(g) PROVE ServerInv'
  BY <1>7 DEF PathExists, Goto, mainVars, connVars
<1>8. ASSUME NEW g \in Runs, RemoveStale(g) PROVE ServerInv'
  <2>1. /\ g = starts /\ thread[g] = "remove" /\ path' = Absent
        /\ thread' = [thread EXCEPT ![g] = IF path # Absent THEN "socket"
                                           ELSE "dead"]
        /\ UNCHANGED <<mainPc, starts, orderly, isRunning, serverSock, sock, on,
                       conn, queuedOn>>
    BY <1>0, <1>8 DEF RemoveStale, Goto, mainVars, connVars
  <2>2. isRunning => path # Absent
    BY <2>1
  <2>3. ServerTypeOK' /\ RunsInv'
    BY <2>1
  <2>4. ServingInv'
    BY <2>1, <2>2
  <2>5. OrderlyInv'
    BY <2>1
  <2> QED BY <2>3, <2>4, <2>5
<1>9. ASSUME NEW g \in Runs, MakeSocket(g) PROVE ServerInv'
  <2>1. /\ g = starts /\ thread[g] = "socket" /\ serverSock' = g
        /\ thread' = [thread EXCEPT ![g] = "bind"]
        /\ sock' = [h \in Runs |-> IF h = g THEN "made"
                                   ELSE IF h = serverSock THEN "closed"
                                   ELSE sock[h]]
        /\ UNCHANGED <<mainPc, starts, orderly, isRunning, path, on, conn,
                       queuedOn>>
    BY <1>0, <1>9 DEF MakeSocket, Goto, mainVars, connVars
  <2>2. sock'[starts] = "made" /\ thread'[starts] = "bind"
    BY <2>1
  <2>3. ServerTypeOK' /\ RunsInv'
    BY <2>1
  <2>4. ServingInv'
    BY <2>1, <2>2
  <2>5. OrderlyInv'
    BY <2>1
  <2> QED BY <2>3, <2>4, <2>5
<1>10. ASSUME NEW g \in Runs, Bind(g) PROVE ServerInv'
  <2>1. /\ g = starts /\ thread[g] = "bind"
        /\ UNCHANGED <<mainPc, starts, orderly, isRunning, serverSock, on, conn,
                       queuedOn>>
    BY <1>0, <1>10 DEF Bind, mainVars, connVars
  <2>2. CASE /\ sock[serverSock] = "made" /\ path = Absent
             /\ thread' = [thread EXCEPT ![g] = "listen"]
             /\ sock' = [sock EXCEPT ![serverSock] = "bound"]
             /\ path' = serverSock
    <3>1. ServerTypeOK' /\ RunsInv'
      <4>1. sock' \in [Runs -> {"none", "made", "bound", "listening", "closed"}]
        BY <2>2
      <4>2. thread' \in [Runs -> {"none", "exists", "remove", "socket", "bind",
                                 "listen", "check", "accept", "dead"}]
        BY <2>2
      <4>3. path' \in 0..MaxStarts + 1
        BY <2>2
      <4>4. RunsInv'
        BY <2>1, <2>2
      <4> QED BY <2>1, <4>1, <4>2, <4>3, <4>4
    <3>2. thread'[starts] = "listen" /\ (isRunning => sock'[starts] = "bound")
      BY <2>1, <2>2
    <3>3. ServingInv'
      BY <2>1, <2>2, <3>2
    <3>4. ~(orderly /\ ~isRunning) /\ \A h \in Runs : h # serverSock =>
                                       sock[h] # "listening"
      BY <2>1
    <3>5. OrderlyInv'
      BY <2>1, <2>2, <3>4
    <3> QED BY <3>1, <3>3, <3>5
  <2>3. CASE /\ sock[serverSock] # "made" \/ path # Absent
             /\ thread' = [thread EXCEPT ![g] = "dead"]
             /\ UNCHANGED <<sock, path>>
    <3>1. ~isRunning
      BY <2>1, <2>3
    <3> QED BY <2>1, <2>3, <3>1
  <2> QED BY <1>10, <2>2, <2>3 DEF Bind, Goto
<1>11. ASSUME NEW g \in Runs, Listen(g) PROVE ServerInv'
  <2>1. /\ g = starts /\ thread[g] = "listen"
        /\ UNCHANGED <<mainPc, starts, orderly, isRunning, serverSock, path, on,
                       conn, queuedOn>>
    BY <1>0, <1>11 DEF Listen, mainVars, connVars
  <2>2. CASE /\ sock[serverSock] = "bound"
             /\ thread' = [thread EXCEPT ![g] = "check"]
             /\ sock' = [sock EXCEPT ![serverSock] = "listening"]
    <3>1. ServerTypeOK' /\ RunsInv'
      BY <2>1, <2>2
    <3>2. thread'[starts] = "check" /\ (isRunning => sock'[starts] = "listening")
      BY <2>1, <2>2
    <3>3. ServingInv'
      BY <2>1, <2>2, <3>2
    <3>4. ~(orderly /\ ~isRunning) /\ \A h \in Runs : h # serverSock =>
                                       sock[h] # "listening"
      BY <2>1
    <3>5. OrderlyInv'
      BY <2>1, <2>2, <3>4
    <3> QED BY <3>1, <3>3, <3>5
  <2>3. CASE /\ sock[serverSock] # "bound"
             /\ thread' = [thread EXCEPT ![g] = "dead"]
             /\ UNCHANGED sock
    <3>1. ~isRunning
      BY <2>1, <2>3
    <3> QED BY <2>1, <2>3, <3>1
  <2> QED BY <1>11, <2>2, <2>3 DEF Listen, Goto
<1>12. ASSUME NEW g \in Runs, Check(g) PROVE ServerInv'
  BY <1>12 DEF Check, Goto, mainVars, connVars
<1>13. ASSUME NEW g \in Runs, AcceptClient(g) PROVE ServerInv'
  BY <1>13 DEF AcceptClient, Backlog, Goto, mainVars
<1>14. ASSUME NEW g \in Runs, AcceptTimeout(g) PROVE ServerInv'
  BY <1>14 DEF AcceptTimeout, Goto, mainVars, connVars
<1>15. ASSUME NEW g \in Runs, AcceptFails(g) PROVE ServerInv'
  BY <1>15 DEF AcceptFails, Goto, mainVars, connVars
<1>16. ASSUME NEW c \in Clients,
              \/ ToolConnects(c) \/ QueuedReset(c) \/ HandlerTests(c)
              \/ HandlerRecv(c)
       PROVE  ServerInv'
  <2>1. UNCHANGED <<mainVars, isRunning, serverSock, sock, path, thread, on>>
    BY <1>16 DEF ToolConnects, QueuedReset, HandlerTests, HandlerRecv
  <2>2. conn' \in [Clients -> {"off", "queued", "check", "recv", "closed"}]
    BY <1>16 DEF ToolConnects, QueuedReset, HandlerTests, HandlerRecv
  <2>3. queuedOn' \in [Clients -> 0..MaxStarts]
    <3>1. CASE ToolConnects(c)
      <4>1. queuedOn' = [queuedOn EXCEPT ![c] = path] /\ path \in 0..MaxStarts
        BY <3>1 DEF ToolConnects
      <4> QED BY <4>1
    <3>2. CASE QueuedReset(c) \/ HandlerTests(c) \/ HandlerRecv(c)
      BY <3>2 DEF QueuedReset, HandlerTests, HandlerRecv
    <3> QED BY <1>16, <3>1, <3>2
  <2> QED BY <2>1, <2>2, <2>3 DEF mainVars
<1>17. CASE UNCHANGED lifeVars
  BY <1>17 DEF lifeVars
<1> QED
  BY <1>1, <1>2, <1>3, <1>4, <1>5, <1>6, <1>7, <1>8, <1>9, <1>10, <1>11,
     <1>12, <1>13, <1>14, <1>15, <1>16, <1>17
     DEF ServerNext, StopStep, ServerStep

(* The server's state has its types, for any number of starts and clients. *)
THEOREM ServerTypeCorrect == ServerSpec => []ServerTypeOK
<1>1. ServerInv => ServerTypeOK
  BY DEF ServerInv
<1> QED BY ServerInvInit, ServerStepInv, <1>1, PTL DEF ServerSpec

(* While the server is in service its file names its listening socket,     *)
(* however many runs came before and whatever their threads still do.      *)
THEOREM ServiceReachableCorrect == ServerSpec => []ServiceReachable
<1>1. ServerInv => ServiceReachable
  BY DEF ServerInv, ServingInv, ServiceReachable
<1> QED BY ServerInvInit, ServerStepInv, <1>1, PTL DEF ServerSpec

(* stop() of a server that is up leaves neither file nor listener.         *)
THEOREM OrderlyStopCorrect == ServerSpec => []OrderlyStopCleansUp
<1>1. ServerInv => OrderlyStopCleansUp
  BY DEF ServerInv, OrderlyInv, OrderlyStopCleansUp
<1> QED BY ServerInvInit, ServerStepInv, <1>1, PTL DEF ServerSpec

==============================================================================

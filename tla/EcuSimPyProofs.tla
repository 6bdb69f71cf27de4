---------------------------- MODULE EcuSimPyProofs ----------------------------
(***************************************************************************)
(* Theorems about EcuSimPy for any of its loops, any number of runs and    *)
(* batches of any length.                                                  *)
(***************************************************************************)
EXTENDS EcuSimPy, SequenceTheorems, TLAPS

-------------------------------------------------------------------------------
(* The frames of a turn: at most as many as in the first.                  *)
LEMMA FramesType ==
    ASSUME NEW n \in Loops, NEW k \in Nat
    PROVE  /\ FramesOf(n, k) \in Seq(Ids)
           /\ Len(FramesOf(n, k)) <= Len(FramesOf(n, 0))
           /\ Len(FramesOf(n, k)) \in Nat
<1>1. /\ <<"rpm">> \in Seq(Ids) /\ <<"speed">> \in Seq(Ids)
      /\ <<"temperature">> \in Seq(Ids) /\ <<"transmission">> \in Seq(Ids)
      /\ <<"brake">> \in Seq(Ids) /\ <<"doors">> \in Seq(Ids)
      /\ <<"climate">> \in Seq(Ids) /\ <<"lighting">> \in Seq(Ids)
      /\ <<>> \in Seq(Ids)
  BY DEF Ids
<1>2. ASSUME NEW a \in Seq(Ids), NEW b \in Seq(Ids), NEW c \in Seq(Ids)
      PROVE  /\ a \o b \o c \in Seq(Ids)
             /\ Len(a \o b \o c) = Len(a) + Len(b) + Len(c)
  <2>1. a \o b \in Seq(Ids) /\ Len(a \o b) = Len(a) + Len(b)
    BY ConcatProperties
  <2> QED BY <2>1, ConcatProperties
<1>3. /\ Len(<<"rpm">>) = 1 /\ Len(<<"speed">>) = 1 /\ Len(<<"temperature">>) = 1
      /\ Len(<<"doors">>) = 1 /\ Len(<<"climate">>) = 1
      /\ Len(<<"lighting">>) = 1 /\ Len(<<>>) = 0
      /\ 0 % 2 = 0 /\ 0 % 5 = 0
  OBVIOUS
<1>7. ASSUME NEW x \in {0, 1}, NEW y \in {0, 1}
      PROVE  1 + x + y \in {1, 2, 3}
  OBVIOUS
<1>8. \A x \in {1, 2, 3} : x <= 3 /\ x \in Nat
  OBVIOUS
<1>4. CASE n = "engine"
  <2> DEFINE b == IF k % 2 = 0 THEN <<"speed">> ELSE <<>>
             c == IF k % 5 = 0 THEN <<"temperature">> ELSE <<>>
  <2>1. /\ b \in Seq(Ids) /\ c \in Seq(Ids)
        /\ Len(b) \in {0, 1} /\ Len(c) \in {0, 1}
    BY <1>1, <1>3
  <2>2. FramesOf(n, k) = <<"rpm">> \o b \o c
    BY <1>4 DEF FramesOf
  <2>3. FramesOf(n, 0) = <<"rpm">> \o <<"speed">> \o <<"temperature">>
    BY <1>3, <1>4 DEF FramesOf
  <2>4. Len(FramesOf(n, 0)) = 3
    BY <1>1, <1>2, <1>3, <2>3
  <2> HIDE DEF b, c
  <2>5. /\ FramesOf(n, k) \in Seq(Ids)
        /\ Len(FramesOf(n, k)) = 1 + Len(b) + Len(c)
    BY <1>1, <1>2, <1>3, <2>1, <2>2
  <2>6. 1 + Len(b) + Len(c) \in {1, 2, 3}
    BY ONLY <1>7, <2>1
  <2>7. Len(FramesOf(n, k)) \in {1, 2, 3}
    BY ONLY <2>5, <2>6, Zenon
  <2>8. Len(FramesOf(n, k)) <= 3 /\ Len(FramesOf(n, k)) \in Nat
    BY ONLY <1>8, <2>7, Zenon
  <2> QED BY ONLY <2>4, <2>5, <2>8, Zenon
<1>5. CASE n = "body"
  <2> DEFINE b == IF k % 2 = 0 THEN <<"climate">> ELSE <<>>
             c == <<"lighting">>
  <2>1. /\ b \in Seq(Ids) /\ c \in Seq(Ids)
        /\ Len(b) \in {0, 1} /\ Len(c) \in {0, 1}
    BY <1>1, <1>3
  <2>2. FramesOf(n, k) = <<"doors">> \o b \o c
    BY <1>5 DEF FramesOf
  <2>3. FramesOf(n, 0) = <<"doors">> \o <<"climate">> \o <<"lighting">>
    BY <1>3, <1>5 DEF FramesOf
  <2>4. Len(FramesOf(n, 0)) = 3
    BY <1>1, <1>2, <1>3, <2>3
  <2> HIDE DEF b, c
  <2>5. /\ FramesOf(n, k) \in Seq(Ids)
        /\ Len(FramesOf(n, k)) = 1 + Len(b) + Len(c)
    BY <1>1, <1>2, <1>3, <2>1, <2>2
  <2>6. 1 + Len(b) + Len(c) \in {1, 2, 3}
    BY ONLY <1>7, <2>1
  <2>7. Len(FramesOf(n, k)) \in {1, 2, 3}
    BY ONLY <2>5, <2>6, Zenon
  <2>8. Len(FramesOf(n, k)) <= 3 /\ Len(FramesOf(n, k)) \in Nat
    BY ONLY <1>8, <2>7, Zenon
  <2> QED BY ONLY <2>4, <2>5, <2>8, Zenon
<1>6. CASE n \in {"transmission", "brake"}
  <2>1. /\ FramesOf(n, k) \in {<<"transmission">>, <<"brake">>}
        /\ FramesOf(n, k) = FramesOf(n, 0)
    BY <1>6 DEF FramesOf
  <2>2. FramesOf(n, k) \in Seq(Ids)
    BY <1>1, <2>1
  <2>3. Len(FramesOf(n, k)) \in Nat
    BY <2>2, LenProperties
  <2> QED BY <2>1, <2>2, <2>3
<1> QED BY <1>4, <1>5, <1>6, SimulatorAssumption DEF SimulatorAssumption

(* A thread that sends or calls back is a sender, and the head of its list *)
(* is the frame it has at the bus or in the callbacks.                     *)
TypeInv ==
    /\ TypeOK
    /\ \A t \in Thread : pc[t] \in {"send", "callback"} => t \in Sender
    /\ \A t \in Thread : pc[t] = "callback" => todo[t] # <<>>

LEMMA TypeInit == Init => TypeInv
<1> SUFFICES ASSUME Init PROVE TypeInv
  OBVIOUS
<1>1. <<>> \in Seq(Ids) /\ <<>> \in Seq(Ids \X Nat)
  OBVIOUS
<1>2. 0 \in 0..MaxRuns /\ 0 \in 0..MaxSteps
  BY SimulatorAssumption DEF SimulatorAssumption
<1>3. mainPc \in {"idle", "start", "join", "batch"}
  BY DEF Init
<1>6. /\ 0 \in 0..9 /\ 0 \in Nat
      /\ "none" \in {"none", "check", "send", "callback"} \cup Done
      /\ {} \subseteq Names
  OBVIOUS
<1>7. /\ pc \in [Thread -> {"none", "check", "send", "callback"} \cup Done]
      /\ tick \in [Thread -> 0..9]
      /\ todo \in [Thread -> Seq(Ids)]
      /\ late \in [Thread -> Nat]
  BY <1>1, <1>6 DEF Init
<1>4. TypeOK
  BY <1>1, <1>2, <1>3, <1>6, <1>7 DEF Init, TypeOK
<1>5. \A t \in Thread : pc[t] = "none"
  BY DEF Init
<1> QED BY <1>4, <1>5 DEF TypeInv

LEMMA ThreadType ==
    ASSUME NEW t \in Thread
    PROVE  /\ t = <<t[1], t[2]>> /\ t[1] \in 1..MaxRuns /\ t[2] \in Names
           /\ t \in Sender <=> t[2] \in Loops
BY DEF Thread, Sender, Names

LEMMA TypeStep == TypeInv /\ [Next]_vars => TypeInv'
<1> SUFFICES ASSUME TypeInv, [Next]_vars PROVE TypeInv'
  OBVIOUS
<1> USE SimulatorAssumption DEF SimulatorAssumption, TypeOK, TypeInv, Done
<1>1. CASE Start
  BY <1>1 DEF Start, batchVars
<1>2. CASE Stop
  BY <1>2 DEF Stop, threadVars, batchVars
<1>3. ASSUME NEW n \in Names, StartThread(n) PROVE TypeInv'
  <2>1. \A t \in Thread : pc'[t] \in {pc[t], "check"}
    BY <1>3 DEF StartThread
  <2>2. pc' \in [Thread -> {"none", "check", "send", "callback"} \cup Done]
    BY <1>3 DEF StartThread
  <2> QED BY <1>3, <2>1, <2>2 DEF StartThread, batchVars
<1>4. CASE StartReturns
  BY <1>4 DEF StartReturns, threadVars, batchVars
<1>5. ASSUME NEW n \in Names, JoinEnded(n) PROVE TypeInv'
  BY <1>5 DEF JoinEnded, threadVars, batchVars
<1>6. ASSUME NEW n \in Names, JoinTimeout(n) PROVE TypeInv'
  BY <1>6 DEF JoinTimeout, threadVars, batchVars
<1>7. CASE StopReturns
  BY <1>7 DEF StopReturns, threadVars, batchVars
<1>8. CASE CloseBus
  BY <1>8 DEF CloseBus, controlVars, threadVars, batchVars
<1>9. ASSUME NEW t \in Thread, Check(t) PROVE TypeInv'
  <2>1. FramesOf(t[2], tick[t]) \in Seq(Ids)
    <3>1. t[2] \in Loops /\ tick[t] \in Nat
      <4>1. t \in Sender /\ tick[t] \in 0..9
        BY <1>9 DEF Check
      <4> QED BY <4>1, ThreadType
    <3> QED BY <3>1, FramesType
  <2> QED BY <1>9, <2>1 DEF Check, controlVars, batchVars
<1>10. ASSUME NEW t \in Thread, End(t) PROVE TypeInv'
  BY <1>10 DEF End, controlVars, batchVars
<1>11. ASSUME NEW t \in Thread, Send(t) PROVE TypeInv'
  BY <1>11 DEF Send, controlVars, batchVars
<1>12. ASSUME NEW t \in Thread, SendRaises(t) PROVE TypeInv'
  BY <1>12 DEF SendRaises, controlVars, batchVars
<1>13. ASSUME NEW t \in Thread, Callback(t) PROVE TypeInv'
  <2>1. Tail(todo[t]) \in Seq(Ids)
    BY <1>13, HeadTailProperties DEF Callback
  <2> QED BY <1>13, <2>1 DEF Callback, controlVars, batchVars
<1>14. ASSUME NEW t \in Thread, Sleep(t) PROVE TypeInv'
  <2>1. TickPeriod(t[2]) \in {1, 2, 10}
    BY DEF TickPeriod
  <2>2. (tick[t] + 1) % TickPeriod(t[2]) \in 0..9
    <3>1. tick[t] \in 0..9
      BY <1>14
    <3>2. \A n \in 0..9 : (n + 1) % 1 \in 0..9 /\ (n + 1) % 2 \in 0..9
                           /\ (n + 1) % 10 \in 0..9
      BY ONLY SMT
    <3> QED BY ONLY <2>1, <3>1, <3>2
  <2> QED BY <1>14, <2>2 DEF Sleep, controlVars, batchVars
<1>15. CASE BatchStep
  <2>1. \A id \in Ids : Due(id) \in Seq(Ids \X Nat)
    <3>1. ASSUME NEW id \in Ids PROVE <<<<id, step>>>> \in Seq(Ids \X Nat)
      <4>1. <<id, step>> \in Ids \X Nat
        OBVIOUS
      <4> QED BY <4>1
    <3>2. <<>> \in Seq(Ids \X Nat)
      OBVIOUS
    <3> QED BY <3>1, <3>2 DEF Due
  <2>2. ASSUME NEW a \in Seq(Ids \X Nat), NEW id \in Ids
        PROVE  a \o Due(id) \in Seq(Ids \X Nat)
    BY <2>1, ConcatProperties
  <2>3. /\ "brake" \in Ids /\ "rpm" \in Ids /\ "speed" \in Ids
        /\ "transmission" \in Ids /\ "temperature" \in Ids
        /\ "doors" \in Ids /\ "lighting" \in Ids /\ "climate" \in Ids
    BY DEF Ids
  <2>4. batch' \in Seq(Ids \X Nat)
    <3> DEFINE b1 == batch \o Due("brake")
               b2 == b1 \o Due("rpm")
               b3 == b2 \o Due("speed")
               b4 == b3 \o Due("transmission")
               b5 == b4 \o Due("temperature")
               b6 == b5 \o Due("doors")
               b7 == b6 \o Due("lighting")
               b8 == b7 \o Due("climate")
    <3>1. batch' = b8
      BY <1>15 DEF BatchStep
    <3>2. b1 \in Seq(Ids \X Nat)
      BY <2>2, <2>3
    <3>3. b2 \in Seq(Ids \X Nat)
      <4> HIDE DEF b1
      <4> QED BY <2>2, <2>3, <3>2
    <3>4. b3 \in Seq(Ids \X Nat)
      <4> HIDE DEF b2
      <4> QED BY <2>2, <2>3, <3>3
    <3>5. b4 \in Seq(Ids \X Nat)
      <4> HIDE DEF b3
      <4> QED BY <2>2, <2>3, <3>4
    <3>6. b5 \in Seq(Ids \X Nat)
      <4> HIDE DEF b4
      <4> QED BY <2>2, <2>3, <3>5
    <3>7. b6 \in Seq(Ids \X Nat)
      <4> HIDE DEF b5
      <4> QED BY <2>2, <2>3, <3>6
    <3>8. b7 \in Seq(Ids \X Nat)
      <4> HIDE DEF b6
      <4> QED BY <2>2, <2>3, <3>7
    <3>9. b8 \in Seq(Ids \X Nat)
      <4> HIDE DEF b7
      <4> QED BY <2>2, <2>3, <3>8
    <3> HIDE DEF b8
    <3> QED BY <3>1, <3>9
  <2>5. step' \in 0..MaxSteps
    BY <1>15 DEF BatchStep
  <2> QED BY <1>15, <2>4, <2>5 DEF BatchStep, controlVars, threadVars
<1>16. CASE UNCHANGED vars
  BY <1>16 DEF vars, controlVars, threadVars, batchVars
<1> QED BY <1>1, <1>2, <1>3, <1>4, <1>5, <1>6, <1>7, <1>8, <1>9, <1>10,
           <1>11, <1>12, <1>13, <1>14, <1>15, <1>16
        DEF Next, ControlStep, ThreadStep

(* Type correctness.                                                       *)
THEOREM TypeCorrect == Spec => []TypeOK
<1>1. TypeInv => TypeOK
  BY DEF TypeInv
<1> QED BY <1>1, TypeInit, TypeStep, PTL DEF Spec

-------------------------------------------------------------------------------
(* Where the control thread stands against running, and that a run with    *)
(* threads has a number.                                                   *)
ControlInv ==
    /\ mainPc = "batch" => ~running
    /\ mainPc = "start" => running
    /\ mainPc = "join" => ~running
    /\ running \/ mainPc = "join" => run \in 1..MaxRuns

(* Of the threads of this run all but those still to be started are alive. *)
Started == Names \ (IF mainPc = "start" THEN left ELSE {})

Served == running /\ isOpen => \A n \in Started : Alive(<<run, n>>)

ServedInv == ControlInv /\ Served

LEMMA ControlStepInv == TypeInv /\ ControlInv /\ [Next]_vars => ControlInv'
<1> SUFFICES ASSUME TypeInv, ControlInv, [Next]_vars PROVE ControlInv'
  OBVIOUS
<1> USE SimulatorAssumption DEF SimulatorAssumption, ControlInv
<1>1. run \in 0..MaxRuns
  BY DEF TypeInv, TypeOK
<1>2. CASE Start
  BY <1>1, <1>2 DEF Start
<1>3. CASE Stop
  BY <1>3 DEF Stop
<1>4. ASSUME NEW n \in Names, StartThread(n) PROVE ControlInv'
  BY <1>4 DEF StartThread
<1>5. CASE StartReturns
  BY <1>5 DEF StartReturns
<1>6. ASSUME NEW n \in Names, JoinEnded(n) PROVE ControlInv'
  BY <1>6 DEF JoinEnded
<1>7. ASSUME NEW n \in Names, JoinTimeout(n) PROVE ControlInv'
  BY <1>7 DEF JoinTimeout
<1>8. CASE StopReturns
  BY <1>8 DEF StopReturns
<1>9. CASE UNCHANGED controlVars
  BY <1>9 DEF controlVars
<1>10. CASE CloseBus
  BY <1>9, <1>10 DEF CloseBus
<1>11. ASSUME NEW t \in Thread, ThreadStep(t) PROVE ControlInv'
  BY <1>9, <1>11 DEF ThreadStep, Check, End, Send, SendRaises, Callback, Sleep
<1>12. CASE BatchStep
  BY <1>9, <1>12 DEF BatchStep
<1>13. CASE UNCHANGED vars
  BY <1>9, <1>13 DEF vars
<1> QED BY <1>2, <1>3, <1>4, <1>5, <1>6, <1>7, <1>8, <1>10, <1>11, <1>12,
           <1>13 DEF Next, ControlStep

(* What a step of thread t does to the state of every thread.              *)
LEMMA ThreadStepPc ==
    ASSUME TypeInv, NEW t \in Thread, ThreadStep(t)
    PROVE  /\ UNCHANGED <<controlVars, isOpen, slow>>
           /\ Alive(t)
           /\ \A s \in Thread : Alive(s)' => Alive(s)
           /\ running /\ isOpen => \A s \in Thread : Alive(s) => Alive(s)'
<1> USE DEF TypeInv, TypeOK, Alive, Done
<1>1. CASE Check(t)
  BY <1>1 DEF Check
<1>2. CASE End(t)
  BY <1>2 DEF End
<1>3. CASE Send(t)
  BY <1>3 DEF Send
<1>4. CASE SendRaises(t)
  BY <1>4 DEF SendRaises
<1>5. CASE Callback(t)
  BY <1>5 DEF Callback
<1>6. CASE Sleep(t)
  BY <1>6 DEF Sleep
<1> QED BY <1>1, <1>2, <1>3, <1>4, <1>5, <1>6 DEF ThreadStep

LEMMA ServedStep ==
    TypeInv /\ ControlInv /\ Served /\ [Next]_vars => Served'
<1> SUFFICES ASSUME TypeInv, ControlInv, Served, [Next]_vars,
                    running', isOpen', NEW n \in Started'
             PROVE  Alive(<<run, n>>)'
  BY DEF Served
<1>1. n \in Names
  BY DEF Started
<1>2. CASE Start
  BY <1>2 DEF Start, Started
<1>3. CASE Stop
  BY <1>3 DEF Stop
<1>4. ASSUME NEW m \in Names, StartThread(m) PROVE Alive(<<run, n>>)'
  <2>1. /\ mainPc = "start" /\ mainPc' = "start" /\ run' = run /\ isOpen /\ running
        /\ run \in 1..MaxRuns /\ left' = left \ {m}
        /\ pc' = [pc EXCEPT ![<<run, m>>] = "check"]
    BY <1>4 DEF StartThread, ControlInv
  <2>2. pc \in [Thread -> {"none", "check", "send", "callback"} \cup Done]
    BY DEF TypeInv, TypeOK
  <2>3. <<run, n>> \in Thread /\ <<run, m>> \in Thread
    BY <1>1, <2>1 DEF Thread
  <2>4. CASE n = m
    BY <2>1, <2>2, <2>3, <2>4 DEF Alive, Done
  <2>5. CASE n # m
    <3>1. n \in Started
      BY <1>1, <2>1, <2>5 DEF Started
    <3>2. Alive(<<run, n>>)
      BY <2>1, <3>1 DEF Served
    <3>3. pc'[<<run, n>>] = pc[<<run, n>>]
      BY <2>1, <2>2, <2>3, <2>5
    <3> QED BY <2>1, <3>2, <3>3 DEF Alive
  <2> QED BY <2>4, <2>5
<1>5. CASE StartReturns
  BY <1>1, <1>5 DEF StartReturns, ControlInv, Served, Started, Alive, threadVars
<1>6. ASSUME NEW m \in Names, JoinEnded(m) \/ JoinTimeout(m)
      PROVE  Alive(<<run, n>>)'
  BY <1>6 DEF JoinEnded, JoinTimeout, ControlInv
<1>7. CASE StopReturns
  BY <1>7 DEF StopReturns, ControlInv
<1>8. CASE CloseBus
  BY <1>8 DEF CloseBus
<1>9. ASSUME NEW t \in Thread, ThreadStep(t) PROVE Alive(<<run, n>>)'
  <2>1. /\ run' = run /\ running /\ isOpen /\ Started' = Started
        /\ \A s \in Thread : Alive(s) => Alive(s)'
    BY <1>9, ThreadStepPc DEF controlVars, Started
  <2>2. <<run, n>> \in Thread
    BY <1>1, <2>1 DEF Thread, ControlInv
  <2>3. Alive(<<run, n>>)
    BY <2>1 DEF Served
  <2> QED BY <2>1, <2>2, <2>3 DEF Alive
<1>10. CASE UNCHANGED <<controlVars, isOpen, threadVars>>
  BY <1>10 DEF controlVars, threadVars, Served, Started, Alive
<1>11. CASE BatchStep
  BY <1>10, <1>11 DEF BatchStep
<1>12. CASE UNCHANGED vars
  BY <1>10, <1>12 DEF vars
<1> QED BY <1>2, <1>3, <1>4, <1>5, <1>6, <1>7, <1>8, <1>9, <1>11, <1>12
        DEF Next, ControlStep

(* While the simulation runs on an open bus, every ECU is there.           *)
THEOREM AlwaysServed == Spec => []RunningIsServed
<1>1. Init => ControlInv /\ Served
  BY DEF Init, ControlInv, Served
<1>2. Served => RunningIsServed
  BY DEF Served, RunningIsServed, Started
<1> QED BY <1>1, <1>2, TypeInit, TypeStep, ControlStepInv, ServedStep, PTL
        DEF Spec

-------------------------------------------------------------------------------
(* Unless callbacks hold a turn for as long as join waits, only threads of *)
(* this run are alive: while stop() waits those it has not joined, and     *)
(* none when it has returned.                                              *)
OneInv ==
    ~slow => \A t \in Thread :
                 Alive(t) => /\ t[1] = run
                             /\ mainPc = "join" => t[2] \in left
                             /\ mainPc = "idle" => running

LEMMA OneStep ==
    TypeInv /\ ControlInv /\ OneInv /\ [Next]_vars => OneInv'
<1> SUFFICES ASSUME TypeInv, ControlInv, OneInv, [Next]_vars, ~slow',
                    NEW t \in Thread, Alive(t)'
             PROVE  /\ t[1] = run'
                    /\ mainPc' = "join" => t[2] \in left'
                    /\ mainPc' = "idle" => running'
  BY DEF OneInv
<1> DEFINE Goal == /\ t[1] = run'
                   /\ mainPc' = "join" => t[2] \in left'
                   /\ mainPc' = "idle" => running'
<1>1. CASE Start
  BY <1>1 DEF Start, OneInv, Alive
<1>2. CASE Stop
  BY <1>2, ThreadType DEF Stop, OneInv, Alive, threadVars
<1>3. ASSUME NEW n \in Names, StartThread(n) PROVE Goal
  <2>1. /\ run' = run /\ mainPc' = "start" /\ mainPc = "start" /\ ~slow
        /\ pc' = [pc EXCEPT ![<<run, n>>] = "check"]
    BY <1>3 DEF StartThread
  <2>2. CASE t = <<run, n>>
    BY <2>1, <2>2
  <2>3. CASE t # <<run, n>>
    <3>1. pc'[t] = pc[t]
      BY <2>1, <2>3 DEF TypeInv, TypeOK
    <3> QED BY <2>1, <3>1 DEF OneInv, Alive
  <2> QED BY <2>2, <2>3
<1>4. CASE StartReturns
  <2>1. running
    BY <1>4 DEF StartReturns, ControlInv
  <2> QED BY <1>4, <2>1 DEF StartReturns, OneInv, Alive, threadVars
<1>5. ASSUME NEW n \in Names, JoinEnded(n) PROVE Goal
  <2>1. /\ run' = run /\ mainPc' = "join" /\ mainPc = "join" /\ ~slow
        /\ pc' = pc /\ left' = left \ {n} /\ pc[<<run, n>>] \in Done
    BY <1>5 DEF JoinEnded, threadVars
  <2>2. t[1] = run /\ t[2] \in left /\ Alive(t)
    BY <2>1 DEF OneInv, Alive
  <2>3. t[2] # n
    BY <2>1, <2>2, ThreadType DEF Alive
  <2> QED BY <2>1, <2>2, <2>3
<1>6. ASSUME NEW n \in Names, JoinTimeout(n) PROVE Goal
  BY <1>6 DEF JoinTimeout
<1>7. CASE StopReturns
  BY <1>7 DEF StopReturns, OneInv, Alive, threadVars
<1>8. ASSUME NEW s \in Thread, ThreadStep(s) PROVE Goal
  <2>1. UNCHANGED <<controlVars, isOpen, slow>> /\ Alive(t)
    BY <1>8, ThreadStepPc
  <2> QED BY <2>1 DEF OneInv, controlVars
<1>9. CASE UNCHANGED <<controlVars, slow, threadVars>>
  BY <1>9 DEF controlVars, threadVars, OneInv, Alive
<1>10. CASE CloseBus
  BY <1>9, <1>10 DEF CloseBus
<1>11. CASE BatchStep
  BY <1>9, <1>11 DEF BatchStep
<1>12. CASE UNCHANGED vars
  BY <1>9, <1>12 DEF vars
<1> QED BY <1>1, <1>2, <1>3, <1>4, <1>5, <1>6, <1>7, <1>8, <1>10, <1>11,
           <1>12 DEF Next, ControlStep

(* With callbacks that, taken together, do not hold a turn for a second,   *)
(* stop() ends every thread and no ECU runs twice.                         *)
THEOREM NeverTwice == Spec => []OneOfEach
<1>1. Init => ControlInv /\ OneInv
  BY DEF Init, ControlInv, OneInv, Alive
<1>2. OneInv => OneOfEach
  BY DEF OneInv, OneOfEach
<1> QED BY <1>1, <1>2, TypeInit, TypeStep, ControlStepInv, OneStep, PTL
        DEF Spec

-------------------------------------------------------------------------------
(* What a sender may still send once running is cleared: with what it has  *)
(* sent it is a full turn at most.  A frame in the callbacks is sent and   *)
(* still the head of todo.                                                 *)
FullTurn(t) == Len(FramesOf(t[2], 0))

LateOf(t) ==
    /\ running => late[t] = 0
    /\ late[t] <= FullTurn(t)
    /\ pc[t] = "send" => late[t] + Len(todo[t]) <= FullTurn(t)
    /\ pc[t] = "callback" => late[t] + Len(todo[t]) <= FullTurn(t) + 1

LateInv == \A t \in Sender : LateOf(t)

LEMMA FullTurnType ==
    ASSUME NEW t \in Sender
    PROVE  t \in Thread /\ t[2] \in Loops /\ FullTurn(t) \in Nat
<1>1. t \in Thread /\ t[2] \in Loops
  BY DEF Thread, Sender, Names
<1>2. 0 \in Nat
  OBVIOUS
<1> QED BY <1>1, <1>2, FramesType DEF FullTurn

LEMMA LateStep ==
    TypeInv /\ TypeInv' /\ LateInv /\ [Next]_vars => LateInv'
<1> SUFFICES ASSUME TypeInv, TypeInv', LateInv, [Next]_vars, NEW t \in Sender
             PROVE  LateOf(t)'
  BY DEF LateInv, Sender
<1> DEFINE F == FullTurn(t)
<1>1. t \in Thread /\ t[2] \in Loops /\ F \in Nat /\ F' = F
  BY FullTurnType DEF FullTurn, FramesOf
<1>2. /\ late[t] \in Nat /\ late'[t] \in Nat
      /\ todo[t] \in Seq(Ids) /\ todo'[t] \in Seq(Ids)
  BY <1>1 DEF TypeInv, TypeOK
<1>3. Len(todo[t]) \in Nat /\ Len(todo'[t]) \in Nat
  BY <1>2, LenProperties
<1>4. /\ running => late[t] = 0
      /\ late[t] <= F
      /\ pc[t] = "send" => late[t] + Len(todo[t]) <= F
      /\ pc[t] = "callback" => late[t] + Len(todo[t]) <= F + 1
  BY DEF LateInv, LateOf
<1>5. ASSUME /\ running' => late'[t] = 0
             /\ late'[t] <= F
             /\ pc'[t] = "send" => late'[t] + Len(todo'[t]) <= F
             /\ pc'[t] = "callback" => late'[t] + Len(todo'[t]) <= F + 1
      PROVE  LateOf(t)'
  BY <1>1, <1>5 DEF LateOf
<1> HIDE DEF F
<1>6. CASE /\ pc'[t] = pc[t] /\ todo'[t] = todo[t] /\ late'[t] = late[t]
           /\ running' => running
  BY <1>4, <1>5, <1>6
<1>7. CASE Start
  <2>1. late'[t] = 0 /\ pc'[t] = pc[t] /\ todo'[t] = todo[t]
    BY <1>1, <1>7 DEF Start
  <2> QED BY ONLY <1>1, <1>2, <1>3, <1>4, <1>5, <2>1
<1>8. CASE Stop
  BY <1>6, <1>8 DEF Stop, threadVars
<1>9. ASSUME NEW n \in Names, StartThread(n) PROVE LateOf(t)'
  <2>1. /\ late'[t] = late[t] /\ todo'[t] = todo[t] /\ running' = running
        /\ pc'[t] \in {pc[t], "check"}
    BY <1>1, <1>9 DEF StartThread, TypeInv, TypeOK
  <2> QED BY <1>4, <1>5, <2>1
<1>10. CASE StartReturns \/ StopReturns \/ CloseBus
  BY <1>6, <1>10 DEF StartReturns, StopReturns, CloseBus, controlVars, threadVars
<1>11. ASSUME NEW n \in Names, JoinEnded(n) \/ JoinTimeout(n) PROVE LateOf(t)'
  BY <1>6, <1>11 DEF JoinEnded, JoinTimeout, threadVars
<1>12. ASSUME NEW s \in Thread, ThreadStep(s), s # t PROVE LateOf(t)'
  <2>1. pc'[t] = pc[t] /\ todo'[t] = todo[t] /\ late'[t] = late[t]
    BY <1>1, <1>12
       DEF ThreadStep, Check, End, Send, SendRaises, Callback, Sleep,
           TypeInv, TypeOK
  <2>2. running' = running
    BY <1>12, ThreadStepPc DEF controlVars
  <2> QED BY <1>6, <2>1, <2>2
<1>13. CASE Check(t)
  <2>1. /\ late'[t] = late[t] /\ running' = running /\ running
        /\ pc'[t] = "send" /\ todo'[t] = FramesOf(t[2], tick[t])
    BY <1>1, <1>13 DEF Check, controlVars, TypeInv, TypeOK
  <2>2. tick[t] \in Nat
    <3>1. tick[t] \in 0..9
      BY <1>1 DEF TypeInv, TypeOK
    <3> QED BY ONLY <3>1
  <2>3. Len(todo'[t]) <= F
    BY <1>1, <2>1, <2>2, FramesType DEF F, FullTurn
  <2>4. late'[t] = 0
    BY <1>4, <2>1
  <2>5. late'[t] + Len(todo'[t]) <= F
    BY ONLY <1>3, <2>3, <2>4
  <2> QED BY <1>4, <1>5, <2>1, <2>4, <2>5
<1>14. CASE End(t)
  <2>1. /\ late'[t] = late[t] /\ running' = running /\ pc'[t] = "ended"
    BY <1>1, <1>14 DEF End, controlVars, TypeInv, TypeOK
  <2> QED BY <1>4, <1>5, <2>1
<1>15. CASE Send(t)
  <2>1. /\ running' = running /\ pc[t] = "send" /\ pc'[t] = "callback"
        /\ todo'[t] = todo[t] /\ todo[t] # <<>>
        /\ late'[t] = IF running THEN 0 ELSE late[t] + 1
    BY <1>1, <1>15 DEF Send, controlVars, TypeInv, TypeOK
  <2>2. Len(todo[t]) > 0
    BY <1>2, <2>1, EmptySeq, LenProperties
  <2>3. /\ running' => late'[t] = 0
        /\ late'[t] <= F
        /\ late'[t] + Len(todo'[t]) <= F + 1
    BY ONLY <1>1, <1>2, <1>3, <1>4, <2>1, <2>2
  <2> QED BY <1>5, <2>1, <2>3
<1>16. CASE SendRaises(t)
  <2>1. /\ late'[t] = late[t] /\ running' = running /\ pc'[t] = "died"
    BY <1>1, <1>16 DEF SendRaises, controlVars, TypeInv, TypeOK
  <2> QED BY <1>4, <1>5, <2>1
<1>17. CASE Callback(t)
  <2>1. /\ late'[t] = late[t] /\ running' = running /\ pc[t] = "callback"
        /\ pc'[t] = "send" /\ todo'[t] = Tail(todo[t])
    BY <1>1, <1>17 DEF Callback, controlVars, TypeInv, TypeOK
  <2>2. todo[t] # <<>>
    BY <1>1, <2>1 DEF TypeInv
  <2>3. Len(todo'[t]) = Len(todo[t]) - 1
    BY <1>2, <2>1, <2>2, HeadTailProperties
  <2>4. late'[t] + Len(todo'[t]) <= F
    BY ONLY <1>1, <1>2, <1>3, <1>4, <2>1, <2>3
  <2> QED BY <1>4, <1>5, <2>1, <2>4
<1>18. CASE Sleep(t)
  <2>1. /\ late'[t] = late[t] /\ running' = running /\ pc'[t] = "check"
    BY <1>1, <1>18 DEF Sleep, controlVars, TypeInv, TypeOK
  <2> QED BY <1>4, <1>5, <2>1
<1>19. CASE BatchStep \/ UNCHANGED vars
  BY <1>6, <1>19 DEF BatchStep, vars, controlVars, threadVars
<1>20. ASSUME NEW s \in Thread, ThreadStep(s) PROVE LateOf(t)'
  BY <1>12, <1>13, <1>14, <1>15, <1>16, <1>17, <1>18, <1>20 DEF ThreadStep
<1> QED BY <1>7, <1>8, <1>9, <1>10, <1>11, <1>19, <1>20 DEF Next, ControlStep

LEMMA LateInit == Init => LateInv
<1> SUFFICES ASSUME Init, NEW t \in Sender PROVE LateOf(t)
  BY DEF LateInv
<1>1. t \in Thread /\ FullTurn(t) \in Nat
  BY FullTurnType
<1>2. ~running /\ pc[t] = "none" /\ late[t] = 0
  BY <1>1 DEF Init
<1> QED BY <1>1, <1>2 DEF LateOf

(* What outlives stop() sends no more than the rest of its turn.           *)
THEOREM LateNeverMoreThanATurn == Spec => []LateIsBounded
<1>1. LateInv => LateIsBounded
  BY DEF LateInv, LateOf, LateIsBounded, FullTurn
<1>2. TypeInv /\ [Next]_vars => TypeInv'
  BY TypeStep
<1> QED BY <1>1, <1>2, TypeInit, LateInit, LateStep, PTL DEF Spec

-------------------------------------------------------------------------------
(* b lists the frames of the set S: all of them, each once, in time order. *)
Listing(b, S) ==
    /\ b \in Seq(Ids \X Nat)
    /\ \A i, j \in DOMAIN b : i < j => b[i][2] <= b[j][2]
    /\ \A i, j \in DOMAIN b : b[i] = b[j] => i = j
    /\ {b[i] : i \in DOMAIN b} = S

DueSet(id) == IF step % Every(id) = 0 THEN {<<id, step>>} ELSE {}

(* What one id adds in a step.                                             *)
LEMMA ListingGrows ==
    ASSUME step \in Nat, NEW id \in Ids, NEW b, NEW S, Listing(b, S),
           <<id, step>> \notin S, \A f \in S : f[2] <= step
    PROVE  /\ Listing(b \o Due(id), S \cup DueSet(id))
           /\ \A f \in S \cup DueSet(id) : f[2] <= step
<1>1. CASE step % Every(id) # 0
  <2>1. Due(id) = <<>> /\ DueSet(id) = {}
    BY <1>1 DEF Due, DueSet
  <2>2. b \o <<>> = b
    BY ConcatEmptySeq DEF Listing
  <2> QED BY <2>1, <2>2
<1>2. CASE step % Every(id) = 0
  <2> DEFINE f == <<id, step>>
             c == Append(b, f)
  <2>1. Due(id) = <<f>> /\ DueSet(id) = {f}
    BY <1>2 DEF Due, DueSet
  <2>2. f \in Ids \X Nat /\ f[2] = step
    OBVIOUS
  <2>3. b \in Seq(Ids \X Nat) /\ Len(b) \in Nat /\ DOMAIN b = 1..Len(b)
    BY LenProperties DEF Listing
  <2> HIDE DEF f
  <2>4. b \o <<f>> = c
    BY <2>2, <2>3, AppendIsConcat
  <2>5. /\ c \in Seq(Ids \X Nat)
        /\ DOMAIN c = 1..Len(b) + 1
        /\ \A i \in DOMAIN b : c[i] = b[i]
        /\ c[Len(b) + 1] = f
    BY <2>2, <2>3
  <2> HIDE DEF c
  <2>6. \A i \in DOMAIN b : c[i] \in S /\ c[i] # f /\ c[i][2] <= step
    BY <2>5 DEF Listing, f
  <2>7. \A i \in DOMAIN c : i \in DOMAIN b \/ i = Len(b) + 1
    BY <2>3, <2>5
  <2>8. \A i, j \in DOMAIN c : i < j => c[i][2] <= c[j][2]
    <3> SUFFICES ASSUME NEW i \in DOMAIN c, NEW j \in DOMAIN c, i < j
                 PROVE  c[i][2] <= c[j][2]
      OBVIOUS
    <3>1. i \in DOMAIN b
      BY <2>3, <2>5
    <3>2. CASE j \in DOMAIN b
      BY <2>5, <3>1, <3>2 DEF Listing
    <3>3. CASE j = Len(b) + 1
      BY <2>2, <2>5, <2>6, <3>1, <3>3
    <3> QED BY <2>7, <3>2, <3>3
  <2>9. \A i, j \in DOMAIN c : c[i] = c[j] => i = j
    BY <2>3, <2>5, <2>6, <2>7 DEF Listing
  <2>10. {c[i] : i \in DOMAIN c} = S \cup {f}
    <3>1. {b[i] : i \in DOMAIN b} = S
      BY DEF Listing
    <3>2. \A i \in DOMAIN b : i \in DOMAIN c
      BY <2>3, <2>5
    <3>3. Len(b) + 1 \in DOMAIN c
      BY <2>3, <2>5
    <3>4. ASSUME NEW x PROVE x \in S \cup {f} <=> \E i \in DOMAIN c : x = c[i]
      <4>1. ASSUME x \in S PROVE \E i \in DOMAIN c : x = c[i]
        BY <2>5, <3>1, <3>2, <4>1
      <4>2. ASSUME x = f PROVE \E i \in DOMAIN c : x = c[i]
        BY <2>5, <3>3, <4>2
      <4>3. ASSUME NEW i \in DOMAIN c, x = c[i] PROVE x \in S \cup {f}
        BY <2>5, <2>6, <2>7, <4>3
      <4> QED BY <4>1, <4>2, <4>3
    <3> QED BY <3>4
  <2>11. Listing(c, S \cup {f})
    BY <2>5, <2>8, <2>9, <2>10 DEF Listing
  <2>12. \A g \in S \cup {f} : g[2] <= step
    BY <2>2
  <2> QED BY ONLY <2>1, <2>4, <2>11, <2>12, Zenon
<1> QED BY <1>1, <1>2

(* The frames due in the first n steps, and that the steps from one frame  *)
(* of an id to the next are its period.                                    *)
Scheduled(n) ==
    {f \in Ids \X (0..n - 1) : (5 * f[2]) % PeriodMs(f[1]) = 0}

LEMMA EveryIsPeriod ==
    ASSUME NEW id \in Ids, NEW n \in Nat
    PROVE  n % Every(id) = 0 <=> (5 * n) % PeriodMs(id) = 0
<1>1. /\ n % 2 = 0 <=> (5 * n) % 10 = 0
      /\ n % 4 = 0 <=> (5 * n) % 20 = 0
      /\ n % 10 = 0 <=> (5 * n) % 50 = 0
  BY SMTT(60)
<1>2. /\ n % 20 = 0 <=> (5 * n) % 100 = 0
      /\ n % 40 = 0 <=> (5 * n) % 200 = 0
  BY SMTT(60)
<1> QED BY <1>1, <1>2 DEF Every, PeriodMs, Ids

BatchInv == Listing(batch, Scheduled(step))

LEMMA BatchStepInv ==
    TypeInv /\ BatchInv /\ [Next]_vars => BatchInv'
<1> SUFFICES ASSUME TypeInv, BatchInv, [Next]_vars PROVE BatchInv'
  OBVIOUS
<1>1. CASE BatchStep
  <2>1. step \in Nat /\ step' = step + 1
    BY <1>1, SimulatorAssumption
       DEF BatchStep, TypeInv, TypeOK, SimulatorAssumption
  <2> DEFINE S0 == Scheduled(step)
             S1 == S0 \cup DueSet("brake")
             S2 == S1 \cup DueSet("rpm")
             S3 == S2 \cup DueSet("speed")
             S4 == S3 \cup DueSet("transmission")
             S5 == S4 \cup DueSet("temperature")
             S6 == S5 \cup DueSet("doors")
             S7 == S6 \cup DueSet("lighting")
             S8 == S7 \cup DueSet("climate")
             b1 == batch \o Due("brake")
             b2 == b1 \o Due("rpm")
             b3 == b2 \o Due("speed")
             b4 == b3 \o Due("transmission")
             b5 == b4 \o Due("temperature")
             b6 == b5 \o Due("doors")
             b7 == b6 \o Due("lighting")
             b8 == b7 \o Due("climate")
  <2>2. batch' = b8
    BY <1>1 DEF BatchStep
  <2>3. /\ Ids = {"rpm", "speed", "temperature", "transmission", "brake",
                  "doors", "climate", "lighting"}
    BY DEF Ids
  <2>4. \A id \in Ids : DueSet(id) \subseteq {<<id, step>>}
    BY DEF DueSet
  <2>5. \A f \in S0 : f[2] <= step /\ f[2] # step
    BY <2>1 DEF Scheduled
  <2>6. Listing(batch, S0)
    BY DEF BatchInv
  <2>7. \A id \in Ids : <<id, step>> \notin S0
    BY <2>5
  <2> HIDE DEF S0
  <2>8. Listing(b1, S1) /\ \A f \in S1 : f[2] <= step
    BY <2>1, <2>3, <2>5, <2>6, <2>7, ListingGrows
  <2>9. \A id \in Ids \ {"brake"} : <<id, step>> \notin S1
    BY <2>3, <2>4, <2>7
  <2> HIDE DEF S1, b1
  <2>10. Listing(b2, S2) /\ \A f \in S2 : f[2] <= step
    BY <2>1, <2>3, <2>8, <2>9, ListingGrows
  <2>11. \A id \in Ids \ {"brake", "rpm"} : <<id, step>> \notin S2
    BY <2>3, <2>4, <2>9
  <2> HIDE DEF S2, b2
  <2>12. Listing(b3, S3) /\ \A f \in S3 : f[2] <= step
    BY <2>1, <2>3, <2>10, <2>11, ListingGrows
  <2>13. \A id \in {"transmission", "temperature", "doors", "lighting",
                    "climate"} : <<id, step>> \notin S3
    BY <2>3, <2>4, <2>11
  <2> HIDE DEF S3, b3
  <2>14. Listing(b4, S4) /\ \A f \in S4 : f[2] <= step
    BY <2>1, <2>3, <2>12, <2>13, ListingGrows
  <2>15. \A id \in {"temperature", "doors", "lighting", "climate"} :
            <<id, step>> \notin S4
    BY <2>3, <2>4, <2>13
  <2> HIDE DEF S4, b4
  <2>16. Listing(b5, S5) /\ \A f \in S5 : f[2] <= step
    BY <2>1, <2>3, <2>14, <2>15, ListingGrows
  <2>17. \A id \in {"doors", "lighting", "climate"} : <<id, step>> \notin S5
    BY <2>3, <2>4, <2>15
  <2> HIDE DEF S5, b5
  <2>18. Listing(b6, S6) /\ \A f \in S6 : f[2] <= step
    BY <2>1, <2>3, <2>16, <2>17, ListingGrows
  <2>19. \A id \in {"lighting", "climate"} : <<id, step>> \notin S6
    BY <2>3, <2>4, <2>17
  <2> HIDE DEF S6, b6
  <2>20. Listing(b7, S7) /\ \A f \in S7 : f[2] <= step
    BY <2>1, <2>3, <2>18, <2>19, ListingGrows
  <2>21. <<"climate", step>> \notin S7
    BY <2>3, <2>4, <2>19
  <2> HIDE DEF S7, b7
  <2>22. Listing(b8, S8)
    BY <2>1, <2>3, <2>20, <2>21, ListingGrows
  <2>23. \A f : f \in S8 <=>
              f \in S0 \/ \E id \in Ids : f \in DueSet(id)
    BY <2>3 DEF S1, S2, S3, S4, S5, S6, S7
  <2> HIDE DEF S8, b8
  <2>24. \A f : (\E id \in Ids : f \in DueSet(id)) <=>
              \E id \in Ids : f = <<id, step>> /\ (5 * step) % PeriodMs(id) = 0
    BY <2>1, EveryIsPeriod DEF DueSet
  <2>25. \A f : f \in Scheduled(step + 1) <=>
              \/ f \in S0
              \/ \E id \in Ids : f = <<id, step>> /\ (5 * step) % PeriodMs(id) = 0
    <3>1. 0..(step + 1) - 1 = (0..step - 1) \cup {step}
      BY <2>1
    <3> QED BY <3>1 DEF S0, Scheduled
  <2>26. S8 = Scheduled(step + 1)
    BY <2>23, <2>24, <2>25
  <2>27. Scheduled(step)' = Scheduled(step + 1)
    BY <2>1 DEF Scheduled, Ids, PeriodMs
  <2>28. Listing(batch', Scheduled(step)')
    BY <2>2, <2>22, <2>26, <2>27
  <2> QED BY <2>28 DEF BatchInv, Listing, Ids
<1>2. CASE UNCHANGED batchVars
  BY <1>2 DEF batchVars, BatchInv, Listing, Scheduled
<1>3. CASE Start \/ Stop \/ CloseBus \/ ControlStep
  BY <1>2, <1>3 DEF Start, Stop, CloseBus, ControlStep, StartReturns,
     StopReturns, StartThread, JoinEnded, JoinTimeout
<1>4. ASSUME NEW t \in Thread, ThreadStep(t) PROVE BatchInv'
  BY <1>2, <1>4 DEF ThreadStep, Check, End, Send, SendRaises, Callback, Sleep
<1>5. CASE UNCHANGED vars
  BY <1>2, <1>5 DEF vars
<1> QED BY <1>1, <1>3, <1>4, <1>5 DEF Next

(* generate_batch() lists the frames that are due, each once, in time      *)
(* order: every id has the rate of the id table.                           *)
THEOREM BatchRates == Spec => []BatchHasRates
<1>1. Init => BatchInv
  <2> SUFFICES ASSUME Init PROVE BatchInv
    OBVIOUS
  <2>1. batch = <<>> /\ step = 0
    BY DEF Init
  <2>2. 0..step - 1 = {} /\ DOMAIN batch = {} /\ batch \in Seq(Ids \X Nat)
    BY <2>1
  <2> QED BY <2>2 DEF BatchInv, Listing, Scheduled
<1>2. BatchInv => BatchHasRates
  BY DEF BatchInv, Listing, Scheduled, BatchHasRates
<1> QED BY <1>1, <1>2, TypeInit, TypeStep, BatchStepInv, PTL DEF Spec

==============================================================================

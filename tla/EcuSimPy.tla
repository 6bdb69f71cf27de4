------------------------------ MODULE EcuSimPy --------------------------------
(***************************************************************************)
(* VehicleECUSimulator: a control thread starts and stops a physics thread *)
(* and the loops of the ECUs, again and again; each loop sends its frames  *)
(* on a VirtualCANBus and calls the callbacks in its own thread.  stop()   *)
(* waits one second for each thread and then forgets it.                   *)
(*                                                                         *)
(* generate_batch() touches no thread; the programs that call it never     *)
(* start the simulation.  Init chooses which kind of program this is.      *)
(*                                                                         *)
(* What the vehicle does and that _state_lock keeps its readings whole is  *)
(* the subject of EcuSimC, whose physics is the same; here the physics     *)
(* thread only lives and ends, and a reading carries no data.              *)
(***************************************************************************)
EXTENDS Integers, Sequences

CONSTANTS
    Loops,     \* the ECU loops
    MaxRuns,   \* bound: calls of start() that start something
    MaxSteps   \* bound: steps of generate_batch()

ASSUME SimulatorAssumption ==
    /\ Loops \subseteq {"engine", "transmission", "brake", "body"}
    /\ MaxRuns \in Nat
    /\ MaxSteps \in Nat

VARIABLES
    running,  \* running
    run,      \* how many times start() has started the threads
    mainPc,   \* where the control thread stands
    left,     \* the threads start() has still to start, or stop() to join
    slow,     \* the callbacks of one turn may together outlast join's second
    isOpen,   \* the bus accepts frames
    pc,       \* where each thread stands
    tick,     \* its count of turns
    todo,     \* the frames of this turn it has still to broadcast
    late,     \* history: frames it has sent since running was cleared
    step,     \* the step of generate_batch()
    batch     \* its list of frames, each with its step

controlVars == <<running, run, mainPc, left>>
threadVars == <<pc, tick, todo, late>>
batchVars == <<step, batch>>
vars == <<controlVars, slow, isOpen, threadVars, batchVars>>

Names == {"physics"} \cup Loops
Thread == (1..MaxRuns) \X Names
Sender == (1..MaxRuns) \X Loops

Done == {"ended", "died"}
Alive(t) == pc[t] \notin Done \cup {"none"}

(* tick matters modulo 2 and 5 in the engine, modulo 2 in the body.        *)
TickPeriod(n) == CASE n = "engine" -> 10 [] n = "body" -> 2 [] OTHER -> 1

Init ==
    /\ running = FALSE
    /\ run = 0
    /\ mainPc \in {"idle", "batch"}
    /\ left = {}
    /\ slow \in BOOLEAN
    /\ isOpen = TRUE
    /\ pc = [t \in Thread |-> "none"]
    /\ tick = [t \in Thread |-> 0]
    /\ todo = [t \in Thread |-> <<>>]
    /\ late = [t \in Thread |-> 0]
    /\ step = 0
    /\ batch = <<>>

(* The frames of one turn of a loop.                                       *)
FramesOf(n, k) ==
    CASE n = "engine" ->
             <<"rpm">> \o (IF k % 2 = 0 THEN <<"speed">> ELSE <<>>)
                       \o (IF k % 5 = 0 THEN <<"temperature">> ELSE <<>>)
      [] n = "transmission" -> <<"transmission">>
      [] n = "brake" -> <<"brake">>
      [] OTHER ->
             <<"doors">> \o (IF k % 2 = 0 THEN <<"climate">> ELSE <<>>)
                         \o <<"lighting">>

-------------------------------------------------------------------------------
(* Plausible bugs that the properties below tell from the code: README.md  *)
(* says which property refutes which.                                      *)

(* Mutant: stop() does not wait for a thread.                              *)
NoJoin(n) ==
    /\ mainPc = "join"
    /\ n \in left
    /\ left' = left \ {n}
    /\ UNCHANGED <<running, run, mainPc, slow, isOpen, threadVars, batchVars>>

(* Mutant: nothing catches what a callback raises.                         *)
CallbackRaises(t) ==
    /\ pc[t] = "callback"
    /\ \/ pc' = [pc EXCEPT ![t] = "send"]
       \/ pc' = [pc EXCEPT ![t] = "died"]
    /\ todo' = [todo EXCEPT ![t] = Tail(todo[t])]
    /\ UNCHANGED <<controlVars, slow, isOpen, tick, late, batchVars>>

(* Mutant: stop() waits until a thread says that it has ended, which one   *)
(* that died never does.                                                   *)
JoinsEndedOnly(n) ==
    /\ mainPc = "join"
    /\ n \in left
    /\ pc[<<run, n>>] = "ended"
    /\ left' = left \ {n}
    /\ UNCHANGED <<running, run, mainPc, slow, isOpen, threadVars, batchVars>>

(* Mutant: a loop broadcasts its frames over and over until it sleeps.     *)
LoopsInTurn(t) ==
    /\ pc[t] = "callback"
    /\ pc' = [pc EXCEPT ![t] = "send"]
    /\ todo' = [todo EXCEPT ![t] = IF Len(todo[t]) = 1
                                   THEN FramesOf(t[2], tick[t])
                                   ELSE Tail(todo[t])]
    /\ UNCHANGED <<controlVars, slow, isOpen, tick, late, batchVars>>

(* Mutant: the handler around the callbacks also covers send(), and a      *)
(* closed bus is retried.                                                  *)
SendSwallowed(t) ==
    /\ pc[t] = "send"
    /\ todo[t] # <<>>
    /\ ~isOpen
    /\ pc' = [pc EXCEPT ![t] = "callback"]
    /\ UNCHANGED <<controlVars, slow, isOpen, tick, todo, late, batchVars>>

(* Mutant: the speed is sent every 40 ms, as the live loop does.           *)
EveryAsLive(id) ==
    CASE id = "brake" -> 2
      [] id = "rpm" -> 4
      [] id = "speed" -> 8
      [] id = "transmission" -> 10
      [] id \in {"temperature", "doors", "lighting"} -> 20
      [] OTHER -> 40

-------------------------------------------------------------------------------
(* The control thread.  start() of a running simulation and stop() of a    *)
(* stopped one change nothing.  The order in which threads are started and *)
(* joined shows in nothing, so any order is allowed.                       *)

Start ==
    /\ mainPc = "idle"
    /\ ~running
    /\ run < MaxRuns
    /\ running' = TRUE
    /\ run' = run + 1
    /\ left' = Names
    /\ mainPc' = "start"
    /\ late' = [t \in Thread |-> 0]
    /\ UNCHANGED <<slow, isOpen, pc, tick, todo, batchVars>>

StartThread(n) ==
    /\ mainPc = "start"
    /\ n \in left
    /\ left' = left \ {n}
    /\ pc' = [pc EXCEPT ![<<run, n>>] = "check"]
    /\ UNCHANGED <<running, run, mainPc, slow, isOpen, tick, todo, late,
                   batchVars>>

StartReturns ==
    /\ mainPc = "start"
    /\ left = {}
    /\ mainPc' = "idle"
    /\ UNCHANGED <<running, run, left, slow, isOpen, threadVars, batchVars>>

Stop ==
    /\ mainPc = "idle"
    /\ running
    /\ running' = FALSE
    /\ left' = Names
    /\ mainPc' = "join"
    /\ UNCHANGED <<run, slow, isOpen, threadVars, batchVars>>

JoinEnded(n) ==
    /\ mainPc = "join"
    /\ n \in left
    /\ pc[<<run, n>>] \in Done
    /\ left' = left \ {n}
    /\ UNCHANGED <<running, run, mainPc, slow, isOpen, threadVars, batchVars>>

(* Without its callbacks a turn and its sleep are far shorter than a       *)
(* second, and the physics thread has none.                                *)
JoinTimeout(n) ==
    /\ mainPc = "join"
    /\ n \in left
    /\ slow
    /\ n # "physics"
    /\ left' = left \ {n}
    /\ UNCHANGED <<running, run, mainPc, slow, isOpen, threadVars, batchVars>>

StopReturns ==
    /\ mainPc = "join"
    /\ left = {}
    /\ mainPc' = "idle"
    /\ UNCHANGED <<running, run, left, slow, isOpen, threadVars, batchVars>>

(* Whoever owns the bus may close it under the simulation.                 *)
CloseBus ==
    /\ mainPc # "batch"
    /\ isOpen
    /\ isOpen' = FALSE
    /\ UNCHANGED <<controlVars, slow, threadVars, batchVars>>

-------------------------------------------------------------------------------
(* The threads.                                                            *)

(* Where running is tested the physics thread goes on, which shows in      *)
(* nothing here, or ends.                                                  *)
Check(t) ==
    /\ pc[t] = "check"
    /\ running /\ t \in Sender
    /\ pc' = [pc EXCEPT ![t] = "send"]
    /\ todo' = [todo EXCEPT ![t] = FramesOf(t[2], tick[t])]
    /\ UNCHANGED <<controlVars, slow, isOpen, tick, late, batchVars>>

End(t) ==
    /\ pc[t] = "check"
    /\ ~running
    /\ pc' = [pc EXCEPT ![t] = "ended"]
    /\ UNCHANGED <<controlVars, slow, isOpen, tick, todo, late, batchVars>>

(* _broadcast: first the bus, then the callbacks.                          *)
Send(t) ==
    /\ pc[t] = "send"
    /\ todo[t] # <<>>
    /\ isOpen
    /\ pc' = [pc EXCEPT ![t] = "callback"]
    /\ late' = [late EXCEPT ![t] = IF running THEN 0 ELSE late[t] + 1]
    /\ UNCHANGED <<controlVars, slow, isOpen, tick, todo, batchVars>>

(* send() on a closed bus raises, nothing catches it, the thread dies and  *)
(* running stays as it is.                                                 *)
SendRaises(t) ==
    /\ pc[t] = "send"
    /\ todo[t] # <<>>
    /\ ~isOpen
    /\ pc' = [pc EXCEPT ![t] = "died"]
    /\ UNCHANGED <<controlVars, slow, isOpen, tick, todo, late, batchVars>>

(* A callback that raises is as good as one that returns.                  *)
Callback(t) ==
    /\ pc[t] = "callback"
    /\ pc' = [pc EXCEPT ![t] = "send"]
    /\ todo' = [todo EXCEPT ![t] = Tail(todo[t])]
    /\ UNCHANGED <<controlVars, slow, isOpen, tick, late, batchVars>>

Sleep(t) ==
    /\ pc[t] = "send"
    /\ todo[t] = <<>>
    /\ tick' = [tick EXCEPT ![t] = (tick[t] + 1) % TickPeriod(t[2])]
    /\ pc' = [pc EXCEPT ![t] = "check"]
    /\ UNCHANGED <<controlVars, slow, isOpen, todo, late, batchVars>>

-------------------------------------------------------------------------------
(* generate_batch(): the number of steps of 5 ms from one frame of an id   *)
(* to the next.                                                            *)
Every(id) ==
    CASE id = "brake" -> 2
      [] id = "rpm" -> 4
      [] id \in {"speed", "transmission"} -> 10
      [] id \in {"temperature", "doors", "lighting"} -> 20
      [] OTHER -> 40

Due(id) == IF step % Every(id) = 0 THEN <<<<id, step>>>> ELSE <<>>

(* One turn of its loop.                                                   *)
BatchStep ==
    /\ mainPc = "batch"
    /\ step < MaxSteps
    /\ batch' = batch \o Due("brake") \o Due("rpm") \o Due("speed")
                      \o Due("transmission") \o Due("temperature")
                      \o Due("doors") \o Due("lighting") \o Due("climate")
    /\ step' = step + 1
    /\ UNCHANGED <<controlVars, slow, isOpen, threadVars>>

-------------------------------------------------------------------------------
ControlStep ==
    \/ StartReturns \/ StopReturns
    \/ \E n \in Names : StartThread(n) \/ JoinEnded(n) \/ JoinTimeout(n)

ThreadStep(t) ==
    \/ Check(t) \/ End(t)
    \/ Send(t) \/ SendRaises(t) \/ Callback(t) \/ Sleep(t)

Next ==
    \/ Start \/ Stop \/ ControlStep \/ CloseBus
    \/ \E t \in Thread : ThreadStep(t)
    \/ BatchStep

Spec == Init /\ [][Next]_vars

(* Threads run, callbacks return, and a call of start() or stop() goes on. *)
FairSpec ==
    /\ Spec
    /\ WF_vars(ControlStep)
    /\ \A t \in Thread : WF_vars(ThreadStep(t))

-------------------------------------------------------------------------------
(* The type invariant.                                                     *)
Ids == {"rpm", "speed", "temperature", "transmission", "brake", "doors",
        "climate", "lighting"}

TypeOK ==
    /\ running \in BOOLEAN
    /\ run \in 0..MaxRuns
    /\ mainPc \in {"idle", "start", "join", "batch"}
    /\ left \subseteq Names
    /\ slow \in BOOLEAN
    /\ isOpen \in BOOLEAN
    /\ pc \in [Thread -> {"none", "check", "send", "callback"} \cup Done]
    /\ tick \in [Thread -> 0..9]
    /\ todo \in [Thread -> Seq(Ids)]
    /\ late \in [Thread -> Nat]
    /\ step \in 0..MaxSteps
    /\ batch \in Seq(Ids \X Nat)

(* While the simulation runs on an open bus, every ECU is there: no thread *)
(* that start() has started dies or sees the flag of another run.          *)
RunningIsServed ==
    running /\ mainPc = "idle" /\ isOpen =>
        \A n \in Names : Alive(<<run, n>>)

(* Unless the callbacks of one turn, all taken together, hold a thread for *)
(* as long as join waits, stop() ends every thread and no ECU runs twice   *)
(* (ecu_generator.py:55-61, 204-208).                                      *)
OneOfEach ==
    ~slow => \A t \in Thread :
                 Alive(t) => t[1] = run /\ (mainPc = "idle" => running)

(* A thread that outlives stop() sends what is left of its turn, no more;  *)
(* no turn has more frames than the first.                                 *)
LateIsBounded ==
    ~running => \A t \in Sender : late[t] <= Len(FramesOf(t[2], 0))

(* stop() returns, also with slow callbacks and dead threads.              *)
StopEnds == mainPc = "join" ~> mainPc = "idle"

(* Every sender ends on a closed bus, whether stop() is called or not.     *)
ClosedBusEndsSenders == ~isOpen ~> \A t \in Sender : ~Alive(t)

(* The list of frames has the rates of the id table: it is in time order,  *)
(* and of every id it has the frames that are due up to now, each of them  *)
(* once: the first at time zero and then one a period, without gap.        *)
PeriodMs(id) ==
    CASE id = "brake" -> 10 [] id = "rpm" -> 20
      [] id \in {"speed", "transmission"} -> 50
      [] id = "climate" -> 200 [] OTHER -> 100

BatchHasRates ==
    /\ \A i, j \in DOMAIN batch : i < j => batch[i][2] <= batch[j][2]
    /\ \A i, j \in DOMAIN batch : batch[i] = batch[j] => i = j
    /\ {batch[i] : i \in DOMAIN batch} =
          {f \in Ids \X (0..step - 1) : (5 * f[2]) % PeriodMs(f[1]) = 0}

==============================================================================

------------------------------- MODULE EcuSimC --------------------------------
(***************************************************************************)
(* ecu_sim.c: one physics thread writes the state of a simulated vehicle,  *)
(* ECU threads turn snapshots of it into CAN frames, main prints a status  *)
(* line every second and ends the simulation after its duration or on      *)
(* SIGINT.  state_mutex guards the vehicle, g_stats_mutex the counter of   *)
(* frames; g_bus_mutex surrounds a single write and shows nowhere else.    *)
(*                                                                         *)
(* Of the vehicle the model keeps the three fields whose combinations mean *)
(* something to one reader: the throttle is 0 (released) or 1, and a speed *)
(* is 0, 1 (below 10 km/h) or the largest threshold of the gear box that   *)
(* it reaches.                                                             *)
(***************************************************************************)
EXTENDS Naturals, Sequences

CONSTANTS
    Ecus,        \* the ECU threads
    Modes,       \* the profiles -m may select
    AccelSpeeds, \* speeds of the acceleration phase
    BrakeSpeeds, \* speeds of the braking phase
    Verbose,     \* -v: frames are printed, main prints no status
    Duration,    \* -d in seconds, 0 for no limit
    Nobody,      \* a mutex is free
    MaxFrames    \* bound: writes that succeed

ASSUME SimAssumption ==
    /\ Ecus \subseteq {"engine", "transmission", "brake", "body"}
    /\ Modes \subseteq {"normal", "idle", "highway", "city"}
    /\ AccelSpeeds \subseteq {0, 1, 10, 15, 30, 35, 55}
    /\ BrakeSpeeds \subseteq {0, 1, 10, 15, 30, 35, 55}
    /\ Verbose \in BOOLEAN
    /\ Duration \in Nat
    /\ Nobody \notin Ecus
    /\ MaxFrames \in Nat

VARIABLES
    running,    \* g_sim_running
    mode,       \* g_sim_mode
    phase,      \* the part of the driving cycle that time_sec is in
    vehicle,    \* g_vehicle
    physics,    \* where the physics thread stands; "write": in state_mutex
    target,     \* the values this turn of the physics thread assigns
    assigned,   \* how many of the fields it has assigned
    pc,         \* where each ECU thread stands
    tick,       \* its count of turns
    snapshot,   \* the values it has read of the vehicle
    todo,       \* the frames of this turn it has still to transmit
    statsOwner, \* who holds g_stats_mutex
    read,       \* the value of the counter each ECU thread has read
    total,      \* g_total_frames_sent
    written,    \* history: frames that reached the bus
    mainPc,     \* where main stands
    status,     \* the values it has read for its status line
    elapsed     \* seconds main has counted

physicsVars == <<phase, vehicle, physics, target, assigned>>
ecuVars     == <<pc, tick, snapshot, todo>>
statsVars   == <<statsOwner, read, total>>
mainVars    == <<mainPc, status, elapsed>>
vars == <<running, mode, physicsVars, ecuVars, statsVars, written, mainVars>>

Field == {"throttle", "speed", "gear"}

Parked == [throttle |-> 0, speed |-> 0, gear |-> 0]

(* What a reader has copied out of the vehicle; at first nothing.          *)
View(fields) == [f \in fields |-> vehicle[f]]
Nothing == [f \in {} |-> 0]

(* The fields each ECU thread reads in its critical section.               *)
Reads(e) ==
    CASE e = "engine" -> {"throttle", "speed"}
      [] e = "transmission" -> {"gear", "throttle"}
      [] e = "brake" -> {"speed"}
      [] OTHER -> {}

(* tick only matters modulo 2 and 5 in the engine, modulo 2 in the body;   *)
(* the other threads have none.                                            *)
TickPeriod(e) == CASE e = "engine" -> 10 [] e = "body" -> 2 [] OTHER -> 1

Init ==
    /\ running = TRUE
    /\ mode \in Modes
    /\ phase = "accelerate"
    /\ vehicle = Parked
    /\ physics = "check"
    /\ target = Parked
    /\ assigned = 0
    /\ pc = [e \in Ecus |-> "check"]
    /\ tick = [e \in Ecus |-> 0]
    /\ snapshot = [e \in Ecus |-> Nothing]
    /\ todo = [e \in Ecus |-> <<>>]
    /\ statsOwner = Nobody
    /\ read = [e \in Ecus |-> 0]
    /\ total = 0
    /\ written = 0
    /\ mainPc = "loop"
    /\ status = Nothing
    /\ elapsed = 0

-------------------------------------------------------------------------------
(* Plausible bugs that the properties below tell from the code: README.md  *)
(* says which property refutes which.                                      *)

(* Mutant: an ECU reads the vehicle without the mutex.                     *)
NoStateMutex == TRUE

(* Mutant: the counter is incremented without the mutex.                   *)
NoStatsMutex == TRUE

(* Mutant: the flag is not volatile, and an ECU's loop never reloads it.   *)
FlagNotReloaded(e) ==
    /\ pc[e] = "check"
    /\ pc' = [pc EXCEPT ![e] = "read"]
    /\ UNCHANGED <<running, mode, physicsVars, tick, snapshot, todo,
                   statsVars, written, mainVars>>

-------------------------------------------------------------------------------
(* state_mutex and g_stats_mutex can be locked.                            *)
StateFree == physics # "write"
StatsFree == statsOwner = Nobody

-------------------------------------------------------------------------------
(* The physics thread.                                                     *)

GearUp(v) == IF v < 15 THEN 1 ELSE IF v < 35 THEN 2 ELSE IF v < 55 THEN 3 ELSE 4

(* Braking leaves the gear alone until the car is slow.                    *)
GearDown(v) == IF v < 10 THEN 1 ELSE IF v < 30 THEN 2 ELSE vehicle.gear

IdleTurn == Parked

HighwayTurn == [throttle |-> 1, speed |-> 55, gear |-> 6]

AccelerateTurn(v) ==
    [throttle |-> 1, speed |-> v, gear |-> GearUp(v)]

CruiseTurn == [throttle |-> 1, speed |-> 55, gear |-> 4]

BrakeTurn(v) ==
    [throttle |-> 0, speed |-> v, gear |-> GearDown(v)]

StopTurn == [throttle |-> 0, speed |-> 0, gear |-> 0]

(* What one turn may assign.  "city" is the same cycle as "normal".        *)
Turns ==
    CASE mode = "idle" -> {IdleTurn}
      [] mode = "highway" -> {HighwayTurn}
      [] OTHER ->
           CASE phase = "accelerate" -> {AccelerateTurn(v) : v \in AccelSpeeds}
             [] phase = "cruise" -> {CruiseTurn}
             [] phase = "brake" -> {BrakeTurn(v) : v \in BrakeSpeeds}
             [] OTHER -> {StopTurn}

(* time_sec grows by 0.05 a turn: a phase lasts many turns, and the next   *)
(* one follows, round and round.                                           *)
NextPhases ==
    CASE phase = "accelerate" -> {"accelerate", "cruise"}
      [] phase = "cruise" -> {"cruise", "brake"}
      [] phase = "brake" -> {"brake", "stop"}
      [] OTHER -> {"stop", "accelerate"}

(* Only this thread holds state_mutex for long, so it never waits for it.  *)
PhysicsLock ==
    /\ physics = "check"
    /\ running
    /\ physics' = "write"
    /\ target' \in Turns
    /\ UNCHANGED <<running, mode, phase, vehicle, assigned, ecuVars, statsVars,
                   written, mainVars>>

PhysicsEnd ==
    /\ physics = "check"
    /\ ~running
    /\ physics' = "ended"
    /\ UNCHANGED <<running, mode, phase, vehicle, target, assigned, ecuVars,
                   statsVars, written, mainVars>>

(* The fields are assigned one by one; the highway branch starts with the  *)
(* speed.                                                                  *)
Order == IF mode = "highway" THEN <<"speed", "gear", "throttle">>
                             ELSE <<"throttle", "speed", "gear">>

PhysicsWrite ==
    /\ physics = "write"
    /\ assigned < Len(Order)
    /\ assigned' = assigned + 1
    /\ LET f == Order[assigned + 1]
       IN  vehicle' = [vehicle EXCEPT ![f] = target[f]]
    /\ UNCHANGED <<running, mode, phase, physics, target, ecuVars, statsVars,
                   written, mainVars>>

PhysicsUnlock ==
    /\ physics = "write"
    /\ assigned = Len(Order)
    /\ physics' = "check"
    /\ phase' \in NextPhases
    /\ target' = Parked
    /\ assigned' = 0
    /\ UNCHANGED <<running, mode, vehicle, ecuVars, statsVars,
                   written, mainVars>>

-------------------------------------------------------------------------------
(* The ECU threads.                                                        *)

EngineFrames(t) ==
    <<"rpm">> \o (IF t % 2 = 0 THEN <<"speed">> ELSE <<>>)
              \o (IF t % 5 = 0 THEN <<"temperature">> ELSE <<>>)

TransmissionFrames == <<"transmission">>

BrakeFrames == <<"brake">>

BodyFrames(t) ==
    <<"doors">> \o (IF t % 2 = 0 THEN <<"climate">> ELSE <<>>) \o <<"lighting">>

FramesOf(e, t) ==
    CASE e = "engine" -> EngineFrames(t)
      [] e = "transmission" -> TransmissionFrames
      [] e = "brake" -> BrakeFrames
      [] OTHER -> BodyFrames(t)

EcuCheck(e) ==
    /\ pc[e] = "check"
    /\ pc' = [pc EXCEPT ![e] = IF running THEN "read" ELSE "ended"]
    /\ UNCHANGED <<running, mode, physicsVars, tick, snapshot, todo,
                   statsVars, written, mainVars>>

EcuRead(e) ==
    /\ pc[e] = "read"
    /\ StateFree
    /\ snapshot' = [snapshot EXCEPT ![e] = View(Reads(e))]
    /\ todo' = [todo EXCEPT ![e] = FramesOf(e, tick[e])]
    /\ pc' = [pc EXCEPT ![e] = "transmit"]
    /\ UNCHANGED <<running, mode, physicsVars, tick, statsVars, written,
                   mainVars>>

(* transmit_frame: the write under g_bus_mutex.                            *)
Transmit(e) ==
    /\ pc[e] = "transmit"
    /\ todo[e] # <<>>
    /\ written < MaxFrames
    /\ written' = written + 1
    /\ pc' = [pc EXCEPT ![e] = "count"]
    /\ UNCHANGED <<running, mode, physicsVars, tick, snapshot, todo,
                   statsVars, mainVars>>

(* On to the next frame; the values read are gone with the last one.       *)
NextFrame(e) ==
    /\ todo' = [todo EXCEPT ![e] = Tail(todo[e])]
    /\ snapshot' = [snapshot EXCEPT ![e] =
                       IF Len(todo[e]) = 1 THEN Nothing ELSE snapshot[e]]

(* Its callers ignore that a write failed.                                 *)
TransmitFails(e) ==
    /\ pc[e] = "transmit"
    /\ todo[e] # <<>>
    /\ NextFrame(e)
    /\ UNCHANGED <<running, mode, physicsVars, pc, tick, statsVars, written,
                   mainVars>>

(* g_total_frames_sent++ reads the counter and stores the sum.             *)
CountRead(e) ==
    /\ pc[e] = "count"
    /\ StatsFree
    /\ statsOwner' = e
    /\ read' = [read EXCEPT ![e] = total]
    /\ pc' = [pc EXCEPT ![e] = "store"]
    /\ UNCHANGED <<running, mode, physicsVars, tick, snapshot, todo, total,
                   written, mainVars>>

CountStore(e) ==
    /\ pc[e] = "store"
    /\ total' = read[e] + 1
    /\ statsOwner' = Nobody
    /\ read' = [read EXCEPT ![e] = 0]
    /\ NextFrame(e)
    /\ pc' = [pc EXCEPT ![e] = "transmit"]
    /\ UNCHANGED <<running, mode, physicsVars, tick, written, mainVars>>

EcuSleep(e) ==
    /\ pc[e] = "transmit"
    /\ todo[e] = <<>>
    /\ tick' = [tick EXCEPT ![e] = (tick[e] + 1) % TickPeriod(e)]
    /\ pc' = [pc EXCEPT ![e] = "check"]
    /\ UNCHANGED <<running, mode, physicsVars, snapshot, todo, statsVars,
                   written, mainVars>>

-------------------------------------------------------------------------------
(* main and the signal handler.                                            *)

(* Seconds matter up to the duration: elapsed stops counting there.        *)
MainSleep ==
    /\ mainPc = "loop"
    /\ IF running
       THEN /\ mainPc' = IF Verbose THEN "timed" ELSE "status"
            /\ elapsed' = IF elapsed < Duration THEN elapsed + 1 ELSE elapsed
       ELSE /\ mainPc' = "join"
            /\ UNCHANGED elapsed
    /\ UNCHANGED <<running, mode, physicsVars, ecuVars, statsVars, written,
                   status>>

(* The status line needs both mutexes, one after the other.                *)
MainStatus ==
    /\ mainPc = "status"
    /\ StateFree
    /\ status' = View({"speed", "gear"})
    /\ mainPc' = "statistics"
    /\ UNCHANGED <<running, mode, physicsVars, ecuVars, statsVars, written,
                   elapsed>>

MainStatistics ==
    /\ mainPc = "statistics"
    /\ StatsFree
    /\ status' = Nothing
    /\ mainPc' = "timed"
    /\ UNCHANGED <<running, mode, physicsVars, ecuVars, statsVars, written,
                   elapsed>>

MainTimed ==
    /\ mainPc = "timed"
    /\ IF Duration > 0 /\ elapsed >= Duration
       THEN running' = FALSE /\ mainPc' = "join"
       ELSE mainPc' = "loop" /\ UNCHANGED running
    /\ UNCHANGED <<mode, physicsVars, ecuVars, statsVars, written, status,
                   elapsed>>

(* The five joins, the report with the total, and close().                 *)
MainJoin ==
    /\ mainPc = "join"
    /\ physics = "ended"
    /\ \A e \in Ecus : pc[e] = "ended"
    /\ mainPc' = "closed"
    /\ UNCHANGED <<running, mode, physicsVars, ecuVars, statsVars, written,
                   status, elapsed>>

SigInt ==
    /\ running
    /\ running' = FALSE
    /\ UNCHANGED <<mode, physicsVars, ecuVars, statsVars, written, mainVars>>

-------------------------------------------------------------------------------
PhysicsStep == PhysicsEnd \/ PhysicsLock \/ PhysicsWrite \/ PhysicsUnlock

EcuStep(e) ==
    \/ EcuCheck(e) \/ EcuRead(e) \/ Transmit(e) \/ TransmitFails(e)
    \/ CountRead(e) \/ CountStore(e) \/ EcuSleep(e)

MainStep == MainSleep \/ MainStatus \/ MainStatistics \/ MainTimed \/ MainJoin

Next ==
    \/ PhysicsStep
    \/ \E e \in Ecus : EcuStep(e)
    \/ MainStep
    \/ SigInt

Spec == Init /\ [][Next]_vars

(* Threads run, and one that waits for a mutex gets it in the end: whoever *)
(* holds one sleeps 10 ms or more before it locks it again.                *)
FairSpec ==
    /\ Spec
    /\ WF_vars(PhysicsStep)
    /\ \A e \in Ecus : WF_vars(EcuStep(e))
    /\ SF_vars(MainStep)

-------------------------------------------------------------------------------
(* The type invariant.                                                     *)
Vehicle == [Field -> Nat]
Views == UNION {[fields -> Nat] : fields \in SUBSET Field}
Frames == {"rpm", "speed", "temperature", "transmission", "brake", "doors",
           "climate", "lighting"}

TypeOK ==
    /\ running \in BOOLEAN
    /\ mode \in Modes
    /\ phase \in {"accelerate", "cruise", "brake", "stop"}
    /\ vehicle \in Vehicle
    /\ physics \in {"check", "write", "ended"}
    /\ target \in Vehicle
    /\ assigned \in 0..3
    /\ pc \in [Ecus -> {"check", "read", "transmit", "count", "store", "ended"}]
    /\ tick \in [Ecus -> 0..9]
    /\ snapshot \in [Ecus -> Views]
    /\ todo \in [Ecus -> Seq(Frames)]
    /\ statsOwner \in Ecus \cup {Nobody}
    /\ read \in [Ecus -> Nat]
    /\ total \in Nat
    /\ written \in Nat
    /\ mainPc \in {"loop", "status", "statistics", "timed", "join", "closed"}
    /\ status \in Views
    /\ elapsed \in 0..Duration

(* No frame and no status line shows a vehicle that cannot be: the engine  *)
(* pulling (0x180 sends torque with the gear) or the car rolling (status   *)
(* line) in neutral.  Every reader sees the state between two turns of the *)
(* physics thread, never in one, and the gear that braking leaves alone is *)
(* one of driving.                                                         *)
Plausible(v) ==
    /\ {"throttle", "gear"} \subseteq DOMAIN v =>
           (v["throttle"] > 0 => v["gear"] > 0)
    /\ {"speed", "gear"} \subseteq DOMAIN v =>
           (v["speed"] > 0 => v["gear"] > 0)

ReadingsPlausible ==
    /\ \A e \in Ecus : Plausible(snapshot[e])
    /\ Plausible(status)

(* The total that main reports is the number of frames on the bus.         *)
FinalTotal == mainPc = "closed" => total = written

(* Ctrl+C ends every thread and main, and so does the end of the duration, *)
(* without a signal, when one is given.                                    *)
AllThreadsEnd == (~running \/ Duration > 0) ~> mainPc = "closed"

==============================================================================

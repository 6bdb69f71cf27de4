---------------------------- MODULE EcuSimCProofs ----------------------------
(***************************************************************************)
(* Theorems about EcuSimC for any of its ECU threads, profiles, speeds and *)
(* durations: what the two mutexes give every reader of the vehicle and    *)
(* the counter of frames.                                                  *)
(***************************************************************************)
EXTENDS EcuSimC, FiniteSetTheorems, SequenceTheorems, TLAPS

-------------------------------------------------------------------------------
(* What a reader copies is a view, and the frames of a turn are a sequence.*)
LEMMA ViewType ==
    ASSUME vehicle \in Vehicle, NEW fields \in SUBSET Field
    PROVE  View(fields) \in Views
BY DEF View, Views, Vehicle

LEMMA NothingType == Nothing \in Views
<1>1. Nothing \in [{} -> Nat]
  BY DEF Nothing
<1> QED BY <1>1 DEF Views

LEMMA FramesType ==
    ASSUME NEW e \in Ecus, NEW t \in 0..9
    PROVE  FramesOf(e, t) \in Seq(Frames)
<1>1. EngineFrames(t) \in Seq(Frames)
  <2>1. /\ <<"rpm">> \in Seq(Frames) /\ <<>> \in Seq(Frames)
        /\ <<"speed">> \in Seq(Frames) /\ <<"temperature">> \in Seq(Frames)
    BY DEF Frames
  <2> QED BY <2>1, ConcatProperties DEF EngineFrames
<1>2. BodyFrames(t) \in Seq(Frames)
  <2>1. /\ <<"doors">> \in Seq(Frames) /\ <<"lighting">> \in Seq(Frames)
        /\ <<"climate">> \in Seq(Frames) /\ <<>> \in Seq(Frames)
    BY DEF Frames
  <2> QED BY <2>1, ConcatProperties DEF BodyFrames
<1>3. TransmissionFrames \in Seq(Frames) /\ BrakeFrames \in Seq(Frames)
  BY DEF TransmissionFrames, BrakeFrames, Frames
<1> QED BY <1>1, <1>2, <1>3 DEF FramesOf

(* Every turn of the physics thread assigns numbers.                       *)
LEMMA TurnsType ==
    ASSUME TypeOK, NEW v \in Turns
    PROVE  v \in Vehicle
<1> USE DEF Vehicle, Field, TypeOK
<1>1. \A s \in AccelSpeeds \cup BrakeSpeeds : s \in Nat
  BY SimAssumption DEF SimAssumption
<1>2. \A s \in AccelSpeeds : AccelerateTurn(s) \in Vehicle
  BY <1>1 DEF AccelerateTurn, GearUp
<1>3. \A s \in BrakeSpeeds : BrakeTurn(s) \in Vehicle
  BY <1>1 DEF BrakeTurn, GearDown
<1>4. /\ IdleTurn \in Vehicle /\ HighwayTurn \in Vehicle
      /\ CruiseTurn \in Vehicle /\ StopTurn \in Vehicle
  BY DEF IdleTurn, Parked, HighwayTurn, CruiseTurn, StopTurn
<1>5. CASE mode \in {"idle", "highway"}
  BY <1>4, <1>5 DEF Turns
<1>6. CASE mode \notin {"idle", "highway"}
  <2>1. \/ phase = "accelerate" /\ v \in {AccelerateTurn(s) : s \in AccelSpeeds}
        \/ phase = "cruise" /\ v = CruiseTurn
        \/ phase = "brake" /\ v \in {BrakeTurn(s) : s \in BrakeSpeeds}
        \/ phase = "stop" /\ v = StopTurn
    BY <1>6 DEF Turns
  <2>2. CASE v \in {AccelerateTurn(s) : s \in AccelSpeeds}
    BY <1>2, <2>2
  <2>3. CASE v \in {BrakeTurn(s) : s \in BrakeSpeeds}
    BY <1>3, <2>3
  <2> QED BY <2>1, <2>2, <2>3, <1>4
<1> QED BY <1>5, <1>6

(* A thread at the counter still has the frame it has sent at the head.    *)
TypeInv ==
    /\ TypeOK
    /\ \A e \in Ecus : pc[e] \in {"count", "store"} => todo[e] # <<>>

LEMMA TypeInit == Init => TypeInv
<1> SUFFICES ASSUME Init PROVE TypeInv
  OBVIOUS
<1>1. Parked \in Vehicle
  BY DEF Parked, Vehicle, Field
<1>2. <<>> \in Seq(Frames) /\ 0 \in 0..Duration
  BY SimAssumption DEF SimAssumption
<1> QED BY <1>1, <1>2, NothingType DEF Init, TypeInv, TypeOK

LEMMA TypeStep == TypeInv /\ [Next]_vars => TypeInv'
<1> SUFFICES ASSUME TypeInv, [Next]_vars PROVE TypeInv'
  OBVIOUS
<1> USE DEF TypeOK, TypeInv
<1>1. CASE PhysicsEnd
  BY <1>1 DEF PhysicsEnd, ecuVars, statsVars, mainVars
<1>2. CASE PhysicsLock
  BY <1>2, TurnsType DEF PhysicsLock, ecuVars, statsVars, mainVars
<1>3. CASE PhysicsWrite
  <2>1. Len(Order) = 3 /\ \A i \in 1..3 : Order[i] \in Field
    BY DEF Order, Field
  <2>2. assigned' \in 0..3 /\ assigned + 1 \in 1..3
    BY <1>3, <2>1 DEF PhysicsWrite
  <2>3. vehicle' \in Vehicle
    BY <1>3, <2>1, <2>2 DEF PhysicsWrite, Vehicle
  <2> QED BY <1>3, <2>2, <2>3 DEF PhysicsWrite, ecuVars, statsVars, mainVars
<1>4. CASE PhysicsUnlock
  <2>1. Parked \in Vehicle
    BY DEF Parked, Vehicle, Field
  <2>2. NextPhases \subseteq {"accelerate", "cruise", "brake", "stop"}
    BY DEF NextPhases
  <2> QED BY <1>4, <2>1, <2>2 DEF PhysicsUnlock, ecuVars, statsVars, mainVars
<1>5. ASSUME NEW e \in Ecus, EcuCheck(e) PROVE TypeInv'
  BY <1>5 DEF EcuCheck, physicsVars, statsVars, mainVars
<1>6. ASSUME NEW e \in Ecus, EcuRead(e) PROVE TypeInv'
  <2>1. FramesOf(e, tick[e]) \in Seq(Frames)
    BY FramesType
  <2>2. View(Reads(e)) \in Views
    <3>1. Reads(e) \in SUBSET Field
      BY DEF Reads, Field
    <3> QED BY <3>1, ViewType
  <2> QED BY <1>6, <2>1, <2>2 DEF EcuRead, physicsVars, statsVars, mainVars
<1>7. ASSUME NEW e \in Ecus, Transmit(e) PROVE TypeInv'
  BY <1>7 DEF Transmit, physicsVars, statsVars, mainVars
<1>8. ASSUME NEW e \in Ecus, NextFrame(e), todo[e] # <<>>
      PROVE  /\ todo' \in [Ecus -> Seq(Frames)]
             /\ snapshot' \in [Ecus -> Views]
  <2>1. Tail(todo[e]) \in Seq(Frames)
    BY <1>8, HeadTailProperties
  <2> QED BY <1>8, <2>1, NothingType DEF NextFrame
<1>9. ASSUME NEW e \in Ecus, TransmitFails(e) PROVE TypeInv'
  <2>1. /\ todo' \in [Ecus -> Seq(Frames)]
        /\ snapshot' \in [Ecus -> Views]
    BY <1>8, <1>9 DEF TransmitFails
  <2>2. \A f \in Ecus : pc[f] \in {"count", "store"} => todo'[f] # <<>>
    BY <1>9 DEF TransmitFails, NextFrame
  <2> QED BY <1>9, <2>1, <2>2 DEF TransmitFails, physicsVars, statsVars, mainVars
<1>10. ASSUME NEW e \in Ecus, CountRead(e) PROVE TypeInv'
  BY <1>10 DEF CountRead, physicsVars, mainVars
<1>11. ASSUME NEW e \in Ecus, CountStore(e) PROVE TypeInv'
  <2>1. /\ todo' \in [Ecus -> Seq(Frames)]
        /\ snapshot' \in [Ecus -> Views]
    BY <1>8, <1>11 DEF CountStore
  <2>2. \A f \in Ecus : pc'[f] \in {"count", "store"} => todo'[f] # <<>>
    BY <1>11 DEF CountStore, NextFrame
  <2>3. pc' \in [Ecus -> {"check", "read", "transmit", "count", "store", "ended"}]
    BY <1>11 DEF CountStore
  <2>4. read[e] + 1 \in Nat /\ read' \in [Ecus -> Nat]
    BY <1>11 DEF CountStore
  <2> QED BY <1>11, <2>1, <2>2, <2>3, <2>4 DEF CountStore, physicsVars, mainVars
<1>12. ASSUME NEW e \in Ecus, EcuSleep(e) PROVE TypeInv'
  <2>1. TickPeriod(e) \in {1, 2, 10}
    BY DEF TickPeriod
  <2>2. (tick[e] + 1) % TickPeriod(e) \in 0..9
    <3>1. tick[e] \in 0..9
      BY <1>12
    <3>2. \A n \in 0..9 : (n + 1) % 1 \in 0..9 /\ (n + 1) % 2 \in 0..9
                           /\ (n + 1) % 10 \in 0..9
      BY ONLY SMT
    <3> QED BY ONLY <2>1, <3>1, <3>2
  <2> QED BY <1>12, <2>2 DEF EcuSleep, physicsVars, statsVars, mainVars
<1>13. CASE MainSleep
  <2>1. elapsed' \in 0..Duration
    BY <1>13, SimAssumption DEF MainSleep, SimAssumption
  <2> QED BY <1>13, <2>1 DEF MainSleep, physicsVars, ecuVars, statsVars
<1>14. CASE MainStatus
  <2>1. View({"speed", "gear"}) \in Views
    BY ViewType DEF Field
  <2> QED BY <1>14, <2>1 DEF MainStatus, physicsVars, ecuVars, statsVars
<1>15. CASE MainStatistics
  BY <1>15, NothingType DEF MainStatistics, physicsVars, ecuVars, statsVars
<1>16. CASE MainTimed
  BY <1>16 DEF MainTimed, physicsVars, ecuVars, statsVars
<1>17. CASE MainJoin
  BY <1>17 DEF MainJoin, physicsVars, ecuVars, statsVars
<1>18. CASE SigInt
  BY <1>18 DEF SigInt, physicsVars, ecuVars, statsVars, mainVars
<1>19. CASE UNCHANGED vars
  BY <1>19 DEF vars, physicsVars, ecuVars, statsVars, mainVars
<1> QED BY <1>1, <1>2, <1>3, <1>4, <1>5, <1>6, <1>7, <1>9, <1>10, <1>11,
           <1>12, <1>13, <1>14, <1>15, <1>16, <1>17, <1>18, <1>19
        DEF Next, PhysicsStep, EcuStep, MainStep

(* Type correctness.                                                       *)
THEOREM TypeCorrect == Spec => []TypeOK
<1>1. TypeInv => TypeOK
  BY DEF TypeInv
<1> QED BY <1>1, TypeInit, TypeStep, PTL DEF Spec

-------------------------------------------------------------------------------
(* What the vehicle is between two turns of the physics thread, and what a *)
(* turn assigns: driving implies a gear.                                   *)
Sound(v) ==
    /\ v["throttle"] > 0 => v["gear"] > 0
    /\ v["speed"] > 0 => v["gear"] > 0

(* The profiles that drive through the cycle of phases.                    *)
Cycle == mode \notin {"idle", "highway"}

(* The strengthening.  Braking may leave the gear alone, so the invariant  *)
(* must know that cruising and braking start in gear; and while the mutex  *)
(* is held, what is already assigned agrees with the target.               *)
VehicleInv ==
    /\ physics # "write" =>
           /\ assigned = 0
           /\ Sound(vehicle)
           /\ Cycle /\ phase \in {"cruise", "brake"} => vehicle["gear"] > 0
    /\ physics = "write" =>
           /\ Sound(target)
           /\ Cycle /\ phase # "stop" => target["gear"] > 0
           /\ \A i \in 1..assigned : vehicle[Order[i]] = target[Order[i]]
    /\ ReadingsPlausible

LEMMA TurnsSound ==
    ASSUME TypeOK, NEW v \in Turns,
           Cycle /\ phase = "brake" => vehicle["gear"] > 0
    PROVE  Sound(v) /\ (Cycle /\ phase # "stop" => v["gear"] > 0)
<1> USE DEF Sound
<1>1. \A s \in AccelSpeeds : /\ Sound(AccelerateTurn(s))
                             /\ AccelerateTurn(s)["gear"] > 0
  BY DEF AccelerateTurn, GearUp
<1>2. ASSUME vehicle["gear"] > 0, NEW s \in BrakeSpeeds
      PROVE  Sound(BrakeTurn(s)) /\ BrakeTurn(s)["gear"] > 0
  BY <1>2 DEF BrakeTurn, GearDown
<1>3. Sound(CruiseTurn) /\ CruiseTurn["gear"] > 0
  BY DEF CruiseTurn
<1>4. Sound(IdleTurn) /\ Sound(HighwayTurn) /\ Sound(StopTurn)
  BY DEF IdleTurn, Parked, HighwayTurn, StopTurn
<1>5. CASE mode \in {"idle", "highway"}
  BY <1>4, <1>5 DEF Turns, Cycle
<1>6. CASE mode \notin {"idle", "highway"}
  <2>1. \/ phase = "accelerate" /\ v \in {AccelerateTurn(s) : s \in AccelSpeeds}
        \/ phase = "cruise" /\ v = CruiseTurn
        \/ phase = "brake" /\ v \in {BrakeTurn(s) : s \in BrakeSpeeds}
        \/ phase = "stop" /\ v = StopTurn
    BY <1>6 DEF Turns, TypeOK
  <2>2. CASE phase = "accelerate" /\ v \in {AccelerateTurn(s) : s \in AccelSpeeds}
    BY <1>1, <2>2
  <2>3. CASE phase = "brake" /\ v \in {BrakeTurn(s) : s \in BrakeSpeeds}
    BY <1>2, <1>6, <2>3 DEF Cycle
  <2> QED BY <2>1, <2>2, <2>3, <1>3, <1>4
<1> QED BY <1>5, <1>6

LEMMA ViewPlausible ==
    ASSUME Sound(vehicle), NEW fields
    PROVE  Plausible(View(fields))
BY DEF Sound, Plausible, View

LEMMA NothingPlausible == Plausible(Nothing)
BY DEF Plausible, Nothing

LEMMA VehicleInit == Init => VehicleInv
<1> SUFFICES ASSUME Init PROVE VehicleInv
  OBVIOUS
<1>1. Sound(vehicle)
  BY DEF Init, Parked, Sound
<1>2. ReadingsPlausible
  BY NothingPlausible DEF Init, ReadingsPlausible
<1> QED BY <1>1, <1>2 DEF Init, VehicleInv

(* A reader whose critical section comes between two turns copies a sound  *)
(* vehicle; the other steps leave the vehicle alone or belong to the       *)
(* physics thread.                                                         *)
LEMMA VehicleStep == TypeInv /\ VehicleInv /\ [Next]_vars => VehicleInv'
<1> SUFFICES ASSUME TypeInv, VehicleInv, [Next]_vars PROVE VehicleInv'
  OBVIOUS
<1>1. TypeOK
  BY DEF TypeInv
<1>2. ASSUME UNCHANGED <<mode, physicsVars>>, ReadingsPlausible'
      PROVE  VehicleInv'
  BY <1>2 DEF VehicleInv, physicsVars, Sound, Cycle, Order
<1>3. ASSUME UNCHANGED <<snapshot, status>> PROVE ReadingsPlausible'
  BY <1>3 DEF VehicleInv, ReadingsPlausible
<1>4. CASE PhysicsEnd
  <2>1. ReadingsPlausible'
    BY <1>3, <1>4 DEF PhysicsEnd, ecuVars, mainVars
  <2> QED BY <1>4, <2>1 DEF PhysicsEnd, VehicleInv, Sound, Cycle
<1>5. CASE PhysicsLock
  <2>1. ReadingsPlausible'
    BY <1>3, <1>5 DEF PhysicsLock, ecuVars, mainVars
  <2>2. /\ Sound(target')
        /\ Cycle /\ phase # "stop" => target'["gear"] > 0
    BY <1>1, <1>5, TurnsSound DEF PhysicsLock, VehicleInv
  <2>3. assigned' = 0 /\ physics' = "write" /\ UNCHANGED <<mode, phase, vehicle>>
    BY <1>5 DEF PhysicsLock, VehicleInv
  <2> QED BY <2>1, <2>2, <2>3 DEF VehicleInv, Sound, Cycle
<1>6. CASE PhysicsWrite
  <2>1. ReadingsPlausible'
    BY <1>3, <1>6 DEF PhysicsWrite, ecuVars, mainVars
  <2>2. /\ assigned \in 0..2 /\ assigned' = assigned + 1
        /\ vehicle' = [vehicle EXCEPT ![Order[assigned + 1]] =
                                         target[Order[assigned + 1]]]
        /\ physics = "write" /\ UNCHANGED <<mode, phase, physics, target>>
    <3>1. Len(Order) = 3
      BY DEF Order
    <3> QED BY <1>1, <1>6, <3>1 DEF PhysicsWrite, TypeOK
  <2>3. /\ Order' = Order
        /\ \A i \in 1..3 : Order[i] \in Field
        /\ \A i, j \in 1..3 : i # j => Order[i] # Order[j]
    BY <2>2 DEF Order, Field
  <2>4. \A i \in 1..assigned : vehicle[Order[i]] = target[Order[i]]
    BY <2>2 DEF VehicleInv
  <2>5. \A i \in 1..assigned + 1 : vehicle'[Order[i]] = target[Order[i]]
    BY <1>1, <2>2, <2>3, <2>4 DEF TypeOK, Vehicle
  <2>6. \A i \in 1..assigned' : vehicle'[Order'[i]] = target'[Order'[i]]
    BY <2>2, <2>3, <2>5
  <2> QED BY <2>1, <2>2, <2>6 DEF VehicleInv, Sound, Cycle
<1>7. CASE PhysicsUnlock
  <2>1. ReadingsPlausible'
    BY <1>3, <1>7 DEF PhysicsUnlock, ecuVars, mainVars
  <2>2. /\ physics = "write" /\ physics' = "check" /\ assigned = 3
        /\ assigned' = 0 /\ phase' \in NextPhases /\ UNCHANGED <<mode, vehicle>>
    <3>1. Len(Order) = 3
      BY DEF Order
    <3> QED BY <1>7, <3>1 DEF PhysicsUnlock
  <2>3. /\ vehicle["throttle"] = target["throttle"]
        /\ vehicle["speed"] = target["speed"]
        /\ vehicle["gear"] = target["gear"]
    <3>1. \A i \in 1..3 : vehicle[Order[i]] = target[Order[i]]
      BY <2>2 DEF VehicleInv
    <3>2. \A f \in Field : \E i \in 1..3 : Order[i] = f
      <4>1. CASE mode = "highway"
        BY <4>1 DEF Order, Field
      <4>2. CASE mode # "highway"
        BY <4>2 DEF Order, Field
      <4> QED BY <4>1, <4>2
    <3> QED BY <3>1, <3>2 DEF Field
  <2>4. Sound(vehicle)
    BY <2>2, <2>3 DEF VehicleInv, Sound
  <2>5. Cycle /\ phase' \in {"cruise", "brake"} => vehicle["gear"] > 0
    <3>1. phase' \in {"cruise", "brake"} => phase # "stop"
      BY <2>2 DEF NextPhases
    <3> QED BY <2>2, <2>3, <3>1 DEF VehicleInv
  <2> QED BY <2>1, <2>2, <2>4, <2>5 DEF VehicleInv, Sound, Cycle
<1>8. ASSUME NEW e \in Ecus, EcuCheck(e) PROVE VehicleInv'
  BY <1>2, <1>3, <1>8 DEF EcuCheck, mainVars
<1>9. ASSUME NEW e \in Ecus, EcuRead(e) PROVE VehicleInv'
  <2>1. Plausible(View(Reads(e)))
    BY <1>9, ViewPlausible DEF EcuRead, StateFree, VehicleInv
  <2>2. ReadingsPlausible'
    BY <1>1, <1>9, <2>1 DEF EcuRead, mainVars, VehicleInv, ReadingsPlausible,
                            TypeOK
  <2> QED BY <1>2, <1>9, <2>2 DEF EcuRead
<1>10. ASSUME NEW e \in Ecus, Transmit(e) PROVE VehicleInv'
  BY <1>2, <1>3, <1>10 DEF Transmit, mainVars
<1>11. ASSUME NEW e \in Ecus, NextFrame(e), UNCHANGED status
       PROVE  ReadingsPlausible'
  BY <1>1, <1>11, NothingPlausible
     DEF NextFrame, VehicleInv, ReadingsPlausible, TypeOK
<1>12. ASSUME NEW e \in Ecus, TransmitFails(e) PROVE VehicleInv'
  BY <1>2, <1>11, <1>12 DEF TransmitFails, mainVars
<1>13. ASSUME NEW e \in Ecus, CountRead(e) PROVE VehicleInv'
  BY <1>2, <1>3, <1>13 DEF CountRead, mainVars
<1>14. ASSUME NEW e \in Ecus, CountStore(e) PROVE VehicleInv'
  BY <1>2, <1>11, <1>14 DEF CountStore, mainVars
<1>15. ASSUME NEW e \in Ecus, EcuSleep(e) PROVE VehicleInv'
  BY <1>2, <1>3, <1>15 DEF EcuSleep, mainVars
<1>16. CASE MainSleep
  BY <1>2, <1>3, <1>16 DEF MainSleep, ecuVars
<1>17. CASE MainStatus
  <2>1. Plausible(View({"speed", "gear"}))
    BY <1>17, ViewPlausible DEF MainStatus, StateFree, VehicleInv
  <2>2. ReadingsPlausible'
    BY <1>17, <2>1 DEF MainStatus, ecuVars, VehicleInv, ReadingsPlausible
  <2> QED BY <1>2, <1>17, <2>2 DEF MainStatus
<1>18. CASE MainStatistics
  <2>1. ReadingsPlausible'
    BY <1>18, NothingPlausible
       DEF MainStatistics, ecuVars, VehicleInv, ReadingsPlausible
  <2> QED BY <1>2, <1>18, <2>1 DEF MainStatistics
<1>19. CASE MainTimed
  BY <1>2, <1>3, <1>19 DEF MainTimed, ecuVars
<1>20. CASE MainJoin
  BY <1>2, <1>3, <1>20 DEF MainJoin, ecuVars
<1>21. CASE SigInt
  BY <1>2, <1>3, <1>21 DEF SigInt, ecuVars, mainVars
<1>22. CASE UNCHANGED vars
  BY <1>2, <1>3, <1>22 DEF vars, ecuVars, mainVars
<1> QED BY <1>4, <1>5, <1>6, <1>7, <1>8, <1>9, <1>10, <1>12, <1>13, <1>14,
           <1>15, <1>16, <1>17, <1>18, <1>19, <1>20, <1>21, <1>22
        DEF Next, PhysicsStep, EcuStep, MainStep

(* Whatever the schedule, no frame and no status line shows the car        *)
(* rolling or the engine pulling in neutral.                               *)
THEOREM NoTornReading == Spec => []ReadingsPlausible
<1>1. VehicleInv => ReadingsPlausible
  BY DEF VehicleInv
<1> QED BY <1>1, TypeInit, TypeStep, VehicleInit, VehicleStep, PTL DEF Spec

-------------------------------------------------------------------------------
(* The frames on the bus that are not in the counter yet: those of the     *)
(* threads at it.  Only the holder of g_stats_mutex has read the counter,  *)
(* so what it has read is what the counter still is.                       *)
Uncounted == {e \in Ecus : pc[e] \in {"count", "store"}}

BooksInv ==
    /\ total + Cardinality(Uncounted) = written
    /\ \A e \in Ecus : pc[e] = "store" => statsOwner = e /\ read[e] = total
    /\ mainPc = "closed" => \A e \in Ecus : pc[e] = "ended"

LEMMA UncountedFinite ==
    /\ IsFiniteSet(Uncounted)
    /\ Cardinality(Uncounted) \in Nat
<1>1. /\ IsFiniteSet({"engine"})
      /\ IsFiniteSet({"engine", "transmission"})
      /\ IsFiniteSet({"engine", "transmission", "brake"})
      /\ IsFiniteSet({"engine", "transmission", "brake", "body"})
  <2>1. IsFiniteSet({} \cup {"engine"})
    BY FS_EmptySet, FS_AddElement
  <2>2. {} \cup {"engine"} = {"engine"}
    OBVIOUS
  <2>3. IsFiniteSet({"engine"} \cup {"transmission"})
    BY <2>1, <2>2, FS_AddElement
  <2>4. {"engine"} \cup {"transmission"} = {"engine", "transmission"}
    OBVIOUS
  <2>5. IsFiniteSet({"engine", "transmission"} \cup {"brake"})
    BY <2>3, <2>4, FS_AddElement
  <2>6. {"engine", "transmission"} \cup {"brake"}
            = {"engine", "transmission", "brake"}
    OBVIOUS
  <2>7. IsFiniteSet({"engine", "transmission", "brake"} \cup {"body"})
    BY <2>5, <2>6, FS_AddElement
  <2>8. {"engine", "transmission", "brake"} \cup {"body"}
            = {"engine", "transmission", "brake", "body"}
    OBVIOUS
  <2> QED BY <2>1, <2>2, <2>3, <2>4, <2>5, <2>6, <2>7, <2>8
<1>2. Uncounted \in SUBSET {"engine", "transmission", "brake", "body"}
  BY SimAssumption DEF SimAssumption, Uncounted
<1>3. IsFiniteSet(Uncounted)
  BY <1>1, <1>2, FS_Subset
<1> QED BY <1>3, FS_CardinalityType

LEMMA BooksInit == Init => BooksInv
<1> SUFFICES ASSUME Init PROVE BooksInv
  OBVIOUS
<1>1. Uncounted = {}
  BY DEF Init, Uncounted
<1> QED BY <1>1, FS_EmptySet DEF Init, BooksInv

LEMMA BooksStep == TypeInv /\ BooksInv /\ [Next]_vars => BooksInv'
<1> SUFFICES ASSUME TypeInv, BooksInv, [Next]_vars PROVE BooksInv'
  OBVIOUS
<1>1. /\ pc \in [Ecus -> {"check", "read", "transmit", "count", "store", "ended"}]
      /\ total \in Nat /\ written \in Nat /\ read \in [Ecus -> Nat]
  BY DEF TypeInv, TypeOK
<1>2. ASSUME UNCHANGED <<pc, statsVars, written>>,
             mainPc' = "closed" => mainPc = "closed"
                                   \/ \A e \in Ecus : pc[e] = "ended"
      PROVE  BooksInv'
  BY <1>2 DEF BooksInv, Uncounted, statsVars
<1>3. ASSUME NEW e \in Ecus, pc[e] \in {"check", "read", "transmit"},
             pc'[e] \in {"check", "read", "transmit", "ended"},
             pc' = [pc EXCEPT ![e] = pc'[e]],
             UNCHANGED <<statsVars, written, mainPc>>
      PROVE  BooksInv'
  <2>1. Uncounted' = Uncounted
    BY <1>1, <1>3 DEF Uncounted
  <2>2. \A f \in Ecus : pc'[f] = "store" => pc[f] = "store"
    BY <1>1, <1>3
  <2>3. mainPc' = "closed" => \A f \in Ecus : pc'[f] = "ended"
    BY <1>1, <1>3 DEF BooksInv
  <2> QED BY <1>3, <2>1, <2>2, <2>3 DEF BooksInv, statsVars
<1>4. CASE PhysicsEnd
  BY <1>2, <1>4 DEF PhysicsEnd, ecuVars, mainVars
<1>5. CASE PhysicsLock
  BY <1>2, <1>5 DEF PhysicsLock, ecuVars, mainVars
<1>6. CASE PhysicsWrite
  BY <1>2, <1>6 DEF PhysicsWrite, ecuVars, mainVars
<1>7. CASE PhysicsUnlock
  BY <1>2, <1>7 DEF PhysicsUnlock, ecuVars, mainVars
<1>8. ASSUME NEW e \in Ecus, EcuCheck(e) PROVE BooksInv'
  <2>1. /\ pc[e] = "check" /\ pc'[e] \in {"read", "ended"}
        /\ pc' = [pc EXCEPT ![e] = pc'[e]]
        /\ UNCHANGED <<statsVars, written, mainPc>>
    BY <1>1, <1>8 DEF EcuCheck, mainVars
  <2> QED BY <1>3, <2>1
<1>9. ASSUME NEW e \in Ecus, EcuRead(e) PROVE BooksInv'
  BY <1>1, <1>3, <1>9 DEF EcuRead, mainVars
<1>10. ASSUME NEW e \in Ecus, Transmit(e) PROVE BooksInv'
  <2>1. e \notin Uncounted /\ Uncounted' = Uncounted \cup {e}
    BY <1>1, <1>10 DEF Transmit, Uncounted
  <2>2. Cardinality(Uncounted') = Cardinality(Uncounted) + 1
    BY <2>1, UncountedFinite, FS_AddElement
  <2>3. total' + Cardinality(Uncounted') = written'
    BY <1>1, <1>10, <2>2, UncountedFinite DEF Transmit, statsVars, BooksInv
  <2>4. \A f \in Ecus : pc'[f] = "store" => pc[f] = "store"
    BY <1>1, <1>10 DEF Transmit
  <2>5. mainPc' # "closed"
    BY <1>10 DEF Transmit, mainVars, BooksInv
  <2> QED BY <1>10, <2>3, <2>4, <2>5 DEF Transmit, statsVars, BooksInv
<1>11. ASSUME NEW e \in Ecus, TransmitFails(e) PROVE BooksInv'
  BY <1>2, <1>11 DEF TransmitFails, mainVars
<1>12. ASSUME NEW e \in Ecus, CountRead(e) PROVE BooksInv'
  <2>1. Uncounted' = Uncounted
    BY <1>1, <1>12 DEF CountRead, Uncounted
  <2>2. \A f \in Ecus : pc'[f] = "store" => statsOwner' = f /\ read'[f] = total'
    <3>1. \A f \in Ecus : pc[f] # "store"
      BY <1>12, SimAssumption DEF CountRead, StatsFree, BooksInv, SimAssumption
    <3> QED BY <1>1, <1>12, <3>1 DEF CountRead
  <2>3. mainPc' # "closed"
    BY <1>12 DEF CountRead, mainVars, BooksInv
  <2> QED BY <1>12, <2>1, <2>2, <2>3 DEF CountRead, BooksInv
<1>13. ASSUME NEW e \in Ecus, CountStore(e) PROVE BooksInv'
  <2>1. e \in Uncounted /\ Uncounted' = Uncounted \ {e}
    BY <1>1, <1>13 DEF CountStore, Uncounted
  <2>2. Cardinality(Uncounted') = Cardinality(Uncounted) - 1
    BY <2>1, UncountedFinite, FS_RemoveElement
  <2>3. total' = total + 1
    BY <1>13 DEF CountStore, BooksInv
  <2>4. total' + Cardinality(Uncounted') = written'
    BY <1>1, <1>13, <2>2, <2>3, UncountedFinite DEF CountStore, BooksInv
  <2>5. \A f \in Ecus : pc'[f] # "store"
    BY <1>1, <1>13 DEF CountStore, BooksInv
  <2>6. mainPc' # "closed"
    BY <1>13 DEF CountStore, mainVars, BooksInv
  <2> QED BY <2>4, <2>5, <2>6 DEF BooksInv
<1>14. ASSUME NEW e \in Ecus, EcuSleep(e) PROVE BooksInv'
  BY <1>1, <1>3, <1>14 DEF EcuSleep, mainVars
<1>15. CASE MainSleep
  <2>1. mainPc' # "closed"
    BY <1>15 DEF MainSleep
  <2> QED BY <1>2, <1>15, <2>1 DEF MainSleep, ecuVars
<1>16. CASE MainStatus
  BY <1>2, <1>16 DEF MainStatus, ecuVars
<1>17. CASE MainStatistics
  BY <1>2, <1>17 DEF MainStatistics, ecuVars
<1>18. CASE MainTimed
  <2>1. mainPc' # "closed"
    BY <1>18 DEF MainTimed
  <2> QED BY <1>2, <1>18, <2>1 DEF MainTimed, ecuVars
<1>19. CASE MainJoin
  BY <1>2, <1>19 DEF MainJoin, ecuVars
<1>20. CASE SigInt
  BY <1>2, <1>20 DEF SigInt, ecuVars, mainVars
<1>21. CASE UNCHANGED vars
  BY <1>2, <1>21 DEF vars, ecuVars, mainVars
<1> QED BY <1>4, <1>5, <1>6, <1>7, <1>8, <1>9, <1>10, <1>11, <1>12, <1>13,
           <1>14, <1>15, <1>16, <1>17, <1>18, <1>19, <1>20, <1>21
        DEF Next, PhysicsStep, EcuStep, MainStep

(* The total that main reports after its joins is the number of frames     *)
(* written to the bus: no increment is lost, none is counted twice.        *)
THEOREM TotalIsExact == Spec => []FinalTotal
<1>1. TypeInv /\ BooksInv => FinalTotal
  <2> SUFFICES ASSUME TypeInv, BooksInv, mainPc = "closed"
               PROVE  total = written
    BY DEF FinalTotal
  <2>1. Uncounted = {}
    BY DEF BooksInv, Uncounted
  <2> QED BY <2>1, FS_EmptySet DEF BooksInv, TypeInv, TypeOK
<1> QED BY <1>1, TypeInit, TypeStep, BooksInit, BooksStep, PTL DEF Spec

==============================================================================

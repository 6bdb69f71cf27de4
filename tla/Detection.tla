------------------------------ MODULE Detection -------------------------------
(***************************************************************************)
(* The Python detection side: each client's handler thread runs            *)
(*                                                                         *)
(*   CANIPCServer._dispatch_frame                                          *)
(*     -> StreamAnomalyDetector.process_frame -> AlertEngine               *)
(*                                                                         *)
(* on one shared detector and one shared alert engine, and nothing there   *)
(* takes a lock.  CPython may switch threads at every call, never inside   *)
(* `self.x += 1` or between two assignments: an action is a stretch of     *)
(* code between two calls that matter to another thread.                   *)
(*                                                                         *)
(* The Isolation Forest is an oracle: any frame may be judged anomalous.   *)
(* A payload is what the parser and the classifier tell apart: fewer than  *)
(* four bytes, four or more, or eight of entropy above 2.75 bits.  Times   *)
(* are milliseconds.                                                       *)
(***************************************************************************)
EXTENDS Integers, Sequences, FiniteSets

CONSTANTS
    Threads,      \* handler threads the server may run
    Ids,          \* arbitration ids on the bus
    Payloads,     \* payloads on the bus: "short", "plain", "noisy"
    KnownIds,     \* ids of ECU_SUBSYSTEM_MAP
    ZeroId,       \* 0x000
    BrakeId,      \* 0x0A0
    RpmId,        \* 0x110
    TransId,      \* 0x180
    WindowSize,   \* threat_window_size
    MaxHistory,   \* max_history of the alert engine
    FloodMs,      \* a gap below this many ms is a flood (0.8 in the code)
    Never,        \* no frame of that id yet
    MaxTime,      \* bound: last capture time
    MaxFrames     \* bound: frames dispatched

ASSUME DetectionAssumption ==
    /\ IsFiniteSet(Threads)
    /\ Payloads \subseteq {"short", "plain", "noisy"}
    /\ WindowSize \in Nat \ {0}
    /\ MaxHistory \in Nat \ {0}
    /\ FloodMs \in Nat \ {0}
    /\ MaxTime \in Nat
    /\ MaxFrames \in Nat
    /\ Never \notin Nat

VARIABLES
    active,       \* the threads that serve a client in this behaviour
    pc,           \* where each thread stands
    cur,          \* the frame each thread processes (kept until the next)
    taken,        \* frames dispatched so far
    arrived,      \* history: capture time of the latest frame of each id
    gap,          \* history: true gap between cur and its predecessor
    lastSeen,     \* CANTelemetryParser.last_seen_per_id
    delta,        \* parsed.delta_t of each thread's frame
    verdict,      \* 1 when the model judged the thread's frame anomalous
    window,       \* threat_window
    total,        \* sum(threat_window) as each thread read it
    density,      \* threat_density of each thread's frame, as a fraction
    processed,    \* total_processed
    flagged,      \* total_anomalies_flagged
    refused,      \* frames whose callback raised (a warning is printed)
    alertCounter, \* AlertEngine.alert_counter
    alert,        \* the alert each thread builds
    recent,       \* recent_alerts
    log,          \* logs/alerts.json
    unwritten     \* history: alerts whose log write failed

clientVars   == <<active, taken, arrived, gap, cur>>
parserVars   == <<lastSeen, delta>>
detectorVars == <<verdict, window, total, density, processed, flagged>>
alertVars    == <<alertCounter, alert, recent, log, unwritten>>
vars == <<clientVars, pc, parserVars, detectorVars, refused, alertVars>>

Frame == [id : Ids, ts : 0..MaxTime, payload : Payloads]

Kinds == {"DOS_BUS_FLOOD", "PAYLOAD_FUZZING_ATTACK", "CRITICAL_BRAKE_SPOOFING",
          "ENGINE_POWERTRAIN_SPOOFING", "UNAUTHORIZED_ARBITRATION_ID",
          "STATISTICAL_TIMING_ANOMALY"}

NoFrame == [id |-> ZeroId, ts |-> 0, payload |-> "plain"]

NoAlert == [number |-> 0, id |-> ZeroId, kind |-> "DOS_BUS_FLOOD",
            gap |-> Never]

(* What a deque(maxlen = n) keeps after an append.                         *)
Bounded(s, n) == IF Len(s) <= n THEN s ELSE SubSeq(s, Len(s) - n + 1, Len(s))

(* sum() over the zeroes and ones of the window.                           *)
Ones(w) == Cardinality({i \in DOMAIN w : w[i] = 1})

Larger(a, b) == IF a >= b THEN a ELSE b

Goto(t, from, to) ==
    /\ pc[t] = from
    /\ pc' = [pc EXCEPT ![t] = to]

Init ==
    /\ active \in SUBSET Threads \ {{}}
    /\ pc = [t \in Threads |-> "idle"]
    /\ cur = [t \in Threads |-> NoFrame]
    /\ taken = 0
    /\ arrived = [i \in Ids |-> Never]
    /\ gap = [t \in Threads |-> Never]
    /\ lastSeen = [i \in Ids |-> Never]
    /\ delta = [t \in Threads |-> 0]
    /\ verdict = [t \in Threads |-> 0]
    /\ window = <<>>
    /\ total = [t \in Threads |-> 0]
    /\ density = [t \in Threads |-> <<0, 1>>]
    /\ processed = 0
    /\ flagged = 0
    /\ refused = 0
    /\ alertCounter = 0
    /\ alert = [t \in Threads |-> NoAlert]
    /\ recent = <<>>
    /\ log = <<>>
    /\ unwritten = 0

-------------------------------------------------------------------------------
(* Plausible bugs that the properties below tell from the code: README.md  *)
(* says which property refutes which.                                      *)

(* Mutant: only the first frame of an id is remembered.                    *)
SeenNotStored(t) ==
    /\ Goto(t, "store", "decode")
    /\ UNCHANGED <<clientVars, parserVars, detectorVars, refused, alertVars>>

(* Mutant: a running sum that evicted verdicts never leave.                *)
SumOfAll(t) ==
    /\ Goto(t, "sum", "count")
    /\ total' = [total EXCEPT ![t] = flagged + verdict[t]]
    /\ UNCHANGED <<clientVars, parserVars, verdict, window, density, processed,
                   flagged, refused, alertVars>>

(* Mutant: an anomaly raises an alert only while the density is high.      *)
CountGatesAlert(t) ==
    /\ Goto(t, "count", IF verdict[t] = 1 /\ total[t] = Len(window)
                        THEN "alert" ELSE "idle")
    /\ density' = [density EXCEPT ![t] = <<total[t], Len(window)>>]
    /\ processed' = processed + 1
    /\ flagged' = flagged + verdict[t]
    /\ UNCHANGED <<clientVars, parserVars, verdict, window, total, refused,
                   alertVars>>

(* Mutant: alerts are numbered by the length of the bounded history.       *)
AlertByHistory(t) ==
    /\ Goto(t, "issue", "record")
    /\ alert' = [alert EXCEPT ![t] =
                    [number |-> Len(recent) + 1, id |-> cur[t].id,
                     kind |-> "DOS_BUS_FLOOD", gap |-> gap[t]]]
    /\ UNCHANGED <<clientVars, parserVars, detectorVars, refused, alertCounter,
                   recent, log, unwritten>>

-------------------------------------------------------------------------------
(* _dispatch_frame hands the next frame of the thread's client to the      *)
(* detector.  One capture tool stamps its frames in the order it reads     *)
(* them; two tools deliver theirs in any order.                            *)
Take(t) ==
    /\ t \in active
    /\ Goto(t, "idle", "parse")
    /\ taken < MaxFrames
    /\ \E f \in Frame :
          /\ f.ts >= cur[t].ts
          /\ cur' = [cur EXCEPT ![t] = f]
          /\ gap' = [gap EXCEPT ![t] = IF arrived[f.id] = Never THEN Never
                                      ELSE f.ts - arrived[f.id]]
          /\ arrived' = [arrived EXCEPT ![f.id] = f.ts]
    /\ taken' = taken + 1
    /\ UNCHANGED <<active, parserVars, detectorVars, refused, alertVars>>

-------------------------------------------------------------------------------
(* CANTelemetryParser.parse_frame.                                         *)

(* A first frame: no call stands between the test and the store.           *)
ParseFirst(t) ==
    /\ Goto(t, "parse", "decode")
    /\ lastSeen[cur[t].id] = Never
    /\ delta' = [delta EXCEPT ![t] = 0]
    /\ lastSeen' = [lastSeen EXCEPT ![cur[t].id] = cur[t].ts]
    /\ UNCHANGED <<clientVars, detectorVars, refused, alertVars>>

(* A later frame: max() is called between the read and the store.          *)
ReadDelta(t) ==
    /\ Goto(t, "parse", "store")
    /\ lastSeen[cur[t].id] # Never
    /\ delta' = [delta EXCEPT ![t] =
                    Larger(0, cur[t].ts - lastSeen[cur[t].id])]
    /\ UNCHANGED <<clientVars, lastSeen, detectorVars, refused, alertVars>>

StoreSeen(t) ==
    /\ Goto(t, "store", "decode")
    /\ lastSeen' = [lastSeen EXCEPT ![cur[t].id] = cur[t].ts]
    /\ UNCHANGED <<clientVars, delta, detectorVars, refused, alertVars>>

(* decode_signals unpacks four bytes of a transmission frame with a format *)
(* that needs five: struct.error.                                          *)
Undecodable(f) == f.id = TransId /\ f.payload # "short"

DecodeSignals(t) ==
    /\ ~Undecodable(cur[t])
    /\ Goto(t, "decode", "score")
    /\ UNCHANGED <<clientVars, parserVars, detectorVars, refused, alertVars>>

(* The exception leaves process_frame; _dispatch_frame catches it.         *)
DecodeRaises(t) ==
    /\ Undecodable(cur[t])
    /\ Goto(t, "decode", "idle")
    /\ refused' = refused + 1
    /\ UNCHANGED <<clientVars, parserVars, detectorVars, alertVars>>

-------------------------------------------------------------------------------
(* The rest of StreamAnomalyDetector.process_frame.                        *)

Score(t) ==
    /\ Goto(t, "score", "sum")
    /\ \E v \in {0, 1} :
          /\ verdict' = [verdict EXCEPT ![t] = v]
          /\ window' = Bounded(Append(window, v), WindowSize)
    /\ UNCHANGED <<clientVars, parserVars, total, density, processed, flagged,
                   refused, alertVars>>

SumWindow(t) ==
    /\ Goto(t, "sum", "count")
    /\ total' = [total EXCEPT ![t] = Ones(window)]
    /\ UNCHANGED <<clientVars, parserVars, verdict, window, density, processed,
                   flagged, refused, alertVars>>

(* len(), the counters, and the result that goes to the subscribers.       *)
Count(t) ==
    /\ Goto(t, "count", IF verdict[t] = 1 THEN "alert" ELSE "idle")
    /\ density' = [density EXCEPT ![t] = <<total[t], Len(window)>>]
    /\ processed' = processed + 1
    /\ flagged' = flagged + verdict[t]
    /\ UNCHANGED <<clientVars, parserVars, verdict, window, total, refused,
                   alertVars>>

-------------------------------------------------------------------------------
(* AlertEngine.evaluate_detection, for an anomalous frame.                 *)

(* The first rule that applies names the attack.                           *)
Classify(f, d) ==
    IF f.id = ZeroId \/ d < FloodMs THEN "DOS_BUS_FLOOD"
    ELSE IF f.payload = "noisy"      THEN "PAYLOAD_FUZZING_ATTACK"
    ELSE IF f.id = BrakeId           THEN "CRITICAL_BRAKE_SPOOFING"
    ELSE IF f.id = RpmId             THEN "ENGINE_POWERTRAIN_SPOOFING"
    ELSE IF f.id \notin KnownIds     THEN "UNAUTHORIZED_ARBITRATION_ID"
    ELSE                                  "STATISTICAL_TIMING_ANOMALY"

AlertBegin(t) ==
    /\ Goto(t, "alert", "issue")
    /\ alertCounter' = alertCounter + 1
    /\ UNCHANGED <<clientVars, parserVars, detectorVars, refused, alert, recent,
                   log, unwritten>>

(* The counter is read again for the alert's id, calls later.              *)
AlertIssue(t) ==
    /\ Goto(t, "issue", "record")
    /\ alert' = [alert EXCEPT ![t] =
                    [number |-> alertCounter, id |-> cur[t].id,
                     kind |-> Classify(cur[t], delta[t]), gap |-> gap[t]]]
    /\ UNCHANGED <<clientVars, parserVars, detectorVars, refused, alertCounter,
                   recent, log, unwritten>>

RecordRecent(t) ==
    /\ Goto(t, "record", "log")
    /\ recent' = Bounded(Append(recent, alert[t]), MaxHistory)
    /\ UNCHANGED <<clientVars, parserVars, detectorVars, refused, alertCounter,
                   alert, log, unwritten>>

WriteLog(t) ==
    /\ Goto(t, "log", "idle")
    /\ log' = Append(log, alert[t])
    /\ UNCHANGED <<clientVars, parserVars, detectorVars, refused, alertCounter,
                   alert, recent, unwritten>>

(* The open or the write fails: a warning, and the alert is only in memory.*)
WriteLogFails(t) ==
    /\ Goto(t, "log", "idle")
    /\ unwritten' = unwritten + 1
    /\ UNCHANGED <<clientVars, parserVars, detectorVars, refused, alertCounter,
                   alert, recent, log>>

-------------------------------------------------------------------------------
Next == \E t \in Threads :
    \/ Take(t) \/ ParseFirst(t) \/ ReadDelta(t) \/ StoreSeen(t)
    \/ DecodeSignals(t) \/ DecodeRaises(t) \/ Score(t) \/ SumWindow(t)
    \/ Count(t) \/ AlertBegin(t) \/ AlertIssue(t) \/ RecordRecent(t)
    \/ WriteLog(t) \/ WriteLogFails(t)

Spec == Init /\ [][Next]_vars

-------------------------------------------------------------------------------
Alert == [number : Nat, id : Ids \cup {ZeroId}, kind : Kinds,
          gap : Int \cup {Never}]

(* The type invariant.                                                     *)
TypeOK ==
    /\ active \in SUBSET Threads \ {{}}
    /\ pc \in [Threads -> {"idle", "parse", "store", "decode", "score", "sum",
                           "count", "alert", "issue", "record", "log"}]
    /\ cur \in [Threads -> Frame \cup {NoFrame}]
    /\ taken \in 0..MaxFrames
    /\ arrived \in [Ids -> 0..MaxTime \cup {Never}]
    /\ gap \in [Threads -> Int \cup {Never}]
    /\ lastSeen \in [Ids -> 0..MaxTime \cup {Never}]
    /\ delta \in [Threads -> 0..MaxTime]
    /\ verdict \in [Threads -> {0, 1}]
    /\ window \in Seq({0, 1})
    /\ total \in [Threads -> Nat]
    /\ density \in [Threads -> Nat \X Nat]
    /\ processed \in Nat
    /\ flagged \in Nat
    /\ refused \in Nat
    /\ alertCounter \in Nat
    /\ alert \in [Threads -> Alert]
    /\ recent \in Seq(Alert)
    /\ log \in Seq(Alert)
    /\ unwritten \in Nat

OneClient == Cardinality(active) = 1

Analysing == {"parse", "store", "decode", "score", "sum", "count"}

At(places) == {t \in Threads : pc[t] \in places}

(* However the threads interleave, the threat density that process_frame   *)
(* reports is a percentage: the sum and the length are read at different   *)
(* times, yet never more anomalies are counted than verdicts, and the      *)
(* division never meets an empty window.                                   *)
DensityIsPercentage ==
    \A t \in Threads : density[t][2] > 0 /\ density[t][1] <= density[t][2]

(* However the threads interleave, nothing is lost between the layers: a   *)
(* frame dispatched was scored, refused or is in progress; an anomaly the  *)
(* detector counted is counted by the alert engine or on its way there;    *)
(* and a counted alert is in the log file, or its write failed, or its     *)
(* thread is about to write it.                                            *)
NothingLost ==
    /\ taken = processed + refused + Cardinality(At(Analysing))
    /\ flagged = alertCounter + Cardinality(At({"alert"}))
    /\ alertCounter = Len(log) + unwritten
                        + Cardinality(At({"issue", "record", "log"}))

(* With one client the log is in the order of the alert numbers and names  *)
(* none twice, whatever writes failed in between.                          *)
LogNumbersIncrease ==
    OneClient => \A i, j \in DOMAIN log : i < j => log[i].number < log[j].number

(* With one client a logged flood is a frame of id 0x000, a frame that     *)
(* followed another of its id within the threshold, or the first of its    *)
(* id; and every such anomalous frame is logged as a flood, whatever its   *)
(* payload and id.                                                         *)
FloodIffFastOrFirst ==
    OneClient => \A i \in DOMAIN log :
        (log[i].kind = "DOS_BUS_FLOOD") <=>
            \/ log[i].id = ZeroId
            \/ log[i].gap = Never
            \/ log[i].gap < FloodMs

==============================================================================

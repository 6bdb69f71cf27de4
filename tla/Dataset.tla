-------------------------------- MODULE Dataset --------------------------------
(***************************************************************************)
(* From frames to a trained model.  A stream of frames, which the dataset  *)
(* generators compose and sort or the bus delivers in any order, is read   *)
(* by a logger, whose CSV training reads later, and by the detector, which *)
(* scores it at once: both with a parser of their own, in the same state.  *)
(* The question is whether the model is trained on the vectors that it     *)
(* will be asked about.                                                    *)
(*                                                                         *)
(* Time is in ticks, three to the microsecond to which a CSV row rounds    *)
(* it: no time is halfway between two.  Threads, flushes and the header    *)
(* are CsvLogger's; the detector's threads are Detection's.                *)
(***************************************************************************)
EXTENDS Features, Evaluation, SequencesExt

CONSTANTS
    Frames,      \* the frames without their times: [id, dlc, data]
    Times,       \* the times of a frame
    Labels,      \* "NORMAL" and the names of attacks
    Scores,      \* what the forest may answer
    CsvWindow,   \* window_size that training uses, whatever the detector's
    Windows,     \* sliding_window_size of a detector
    MaxFrames,   \* bound: length of the stream
    BufferSize   \* buffer_size of the logger

ASSUME DatasetAssumption ==
    /\ MaxFrames \in Nat
    /\ BufferSize \in Nat \ {0}
    /\ CsvWindow \in Nat \ {0}
    /\ Windows \subseteq Nat \ {0}
    /\ Frames \subseteq [id : Nat, dlc : 0 .. 8, data : Seq(0 .. 255)]
    /\ Times \subseteq Nat
    /\ Scores \subseteq Int
    /\ None \notin Nat \cup Seq(0 .. 255)
    /\ "NORMAL" \in Labels

VARIABLES
    phase,      \* compose, log, then closed or aborted, then trained or no data
    generated,  \* a generator made the stream (else it is the bus's)
    stream,     \* all_events: [frame, label]
    next,       \* position of the next frame
    size,       \* window_size of the detector's extractor
    parser,     \* the logger's CANTelemetryParser, and the detector's
    extractor,  \* the detector's StreamingFeatureExtractor
    live,       \* history: what the detector made of each accepted frame
    buffer,     \* CSVTelemetryLogger._buffer
    file,       \* the rows of the CSV
    report      \* the evaluation of the model trained on it

vars == <<phase, generated, stream, next, size, parser, extractor, live, buffer,
          file, report>>

Init ==
    /\ phase = "compose"
    /\ generated \in BOOLEAN
    /\ stream = <<>>
    /\ next = 1
    /\ size = CsvWindow
    /\ parser = Parser0
    /\ extractor = Extractor0
    /\ live = <<>>
    /\ buffer = <<>>
    /\ file = <<>>
    /\ report = None

At(frame, t) ==
    [id |-> frame.id, dlc |-> frame.dlc, data |-> frame.data, ts |-> t]

-------------------------------------------------------------------------------
(* The stream.                                                             *)

(* A generator first takes the simulator's frames, in order, then those of *)
(* its attacks, in order.                                                  *)
Compose(frame, t, label) ==
    /\ phase = "compose"
    /\ Len(stream) < MaxFrames
    /\ generated /\ stream # <<>> =>
          LET before == Last(stream)
          IN  IF label = before.label THEN before.frame.ts <= t
              ELSE before.label = "NORMAL"
    /\ stream' = Append(stream, [frame |-> At(frame, t), label |-> label])
    /\ UNCHANGED <<phase, generated, next, size, parser, extractor, live,
                   buffer, file, report>>

(* list.sort(key = timestamp), which is stable: one rearrangement.         *)
Chronological(events) ==
    LET Precedes(i, j) ==
           \/ events[i].frame.ts < events[j].frame.ts
           \/ events[i].frame.ts = events[j].frame.ts /\ i < j
    IN  {[i \in DOMAIN events |-> events[order[i]]] :
            order \in {p \in [DOMAIN events -> DOMAIN events] :
                         \A i, j \in DOMAIN events :
                            i < j => Precedes(p[i], p[j])}}

Begin(window) ==
    /\ phase = "compose"
    /\ phase' = "log"
    /\ size' = window
    /\ stream' \in IF generated THEN Chronological(stream) ELSE {stream}
    /\ UNCHANGED <<generated, next, parser, extractor, live, buffer, file,
                   report>>

-------------------------------------------------------------------------------
(* The logger and the detector.                                            *)

(* Mutant: the time is written with four decimals, as the entropy is.      *)
RowOfFourDecimals(event) ==
    [id |-> event.frame.id, dlc |-> event.frame.dlc,
     data |-> Payload(event.frame),
     ts |-> 100 * ((event.frame.ts + 150) \div 300), label |-> event.label]

(* to_flat_dict, and what extract_features_from_csv reads of the row.      *)
Row(event) ==
    [id |-> event.frame.id, dlc |-> event.frame.dlc,
     data |-> Payload(event.frame), ts |-> (event.frame.ts + 1) \div 3,
     label |-> event.label]

(* log_frame, and process_frame of the detector.                           *)
Accept ==
    LET event == stream[next]
    IN  /\ phase = "log"
        /\ next <= Len(stream)
        /\ Decodes(event.frame)
        /\ parser' = Parse(parser, event.frame)
        /\ extractor' = Extract(extractor, event.frame, size)
        /\ live' = Append(live, [at     |-> next,
                                 parsed |-> Parsed(parser, event.frame),
                                 vector |-> Vector(extractor, event.frame, size)])
        /\ IF Len(buffer) + 1 >= BufferSize
           THEN /\ file' = file \o Append(buffer, Row(event))
                /\ buffer' = <<>>
           ELSE /\ buffer' = Append(buffer, Row(event))
                /\ UNCHANGED file
        /\ next' = next + 1
        /\ UNCHANGED <<phase, generated, stream, size, report>>

(* Mutant: a frame that is refused leaves no trace in the parser.          *)
RefuseForgets ==
    /\ phase = "log"
    /\ next <= Len(stream)
    /\ ~Decodes(stream[next].frame)
    /\ IF generated
       THEN phase' = "aborted" /\ buffer' = <<>>
       ELSE UNCHANGED <<phase, buffer>>
    /\ next' = next + 1
    /\ UNCHANGED <<generated, stream, size, parser, extractor, live, file,
                   report>>

(* struct.error.  Callers on a bus survive it and go on with the next      *)
(* frame; it ends a generator, which does not close its logger.            *)
Refuse ==
    /\ phase = "log"
    /\ next <= Len(stream)
    /\ ~Decodes(stream[next].frame)
    /\ parser' = Parse(parser, stream[next].frame)
    /\ IF generated
       THEN phase' = "aborted" /\ buffer' = <<>>
       ELSE UNCHANGED <<phase, buffer>>
    /\ next' = next + 1
    /\ UNCHANGED <<generated, stream, size, extractor, live, file, report>>

Close ==
    /\ phase = "log"
    /\ next > Len(stream)
    /\ phase' = "closed"
    /\ file' = file \o buffer
    /\ buffer' = <<>>
    /\ UNCHANGED <<generated, stream, next, size, parser, extractor, live,
                   report>>

-------------------------------------------------------------------------------
(* train_pipeline on the file, and the evaluation of what it trains on the *)
(* same file.  The forest gives equal vectors equal scores.                *)

Train ==
    LET vectors == Matrix(file, CsvWindow)
        labels  == [i \in DOMAIN file |-> file[i].label]
    IN  /\ phase \in {"closed", "aborted"}
        /\ file # <<>>
        /\ \E forest \in [{vectors[i] : i \in DOMAIN vectors} -> Scores] :
              LET scores == [i \in DOMAIN vectors |-> forest[vectors[i]]]
              IN  report' = Report(labels, Predict(scores, Threshold(scores)))
        /\ phase' = "trained"
        /\ UNCHANGED <<generated, stream, next, size, parser, extractor, live,
                       buffer, file>>

(* fit() raises: the file has no rows.                                     *)
FitRaises ==
    /\ phase \in {"closed", "aborted"}
    /\ file = <<>>
    /\ phase' = "no data"
    /\ UNCHANGED <<generated, stream, next, size, parser, extractor, live,
                   buffer, file, report>>

Next ==
    \/ \E frame \in Frames, t \in Times, label \in Labels :
          Compose(frame, t, label)
    \/ \E window \in Windows : Begin(window)
    \/ Accept \/ Refuse \/ Close \/ Train \/ FitRaises

Spec == Init /\ [][Next]_vars

-------------------------------------------------------------------------------
(* Two times are equal but for the rounding of the CSV, which is less than *)
(* a microsecond for a gap.                                                *)
Rounds(micros, ticks) == 3 * micros - ticks \in -2 .. 2

(* The vectors training reads from the CSV are those detection made of the *)
(* same frames: the rows are a prefix of the frames the detector accepted, *)
(* and differ in their gaps only, by the rounding of the times, as long as *)
(* neither window has slid.  Once one has, id_freq_window and its ratio    *)
(* agree only if the detector was made with the window of training: with a *)
(* smaller one it counts no more than the model has learnt from, with a    *)
(* larger one no less                                                      *)
(* (features.py:147-176, stream_detector.py:45, csv_logger.py between).    *)
OfflineIsLive ==
    phase \in {"closed", "aborted"} =>
       LET vectors == Matrix(file, CsvWindow)
       IN  /\ Len(vectors) <= Len(live)
           /\ phase = "closed" => Len(vectors) = Len(live)
           /\ \A k \in DOMAIN vectors :
                 LET v == vectors[k]
                     w == live[k].vector
                 IN  /\ Rounds(v.gap, w.gap)
                     /\ Rounds(v.globalGap, w.globalGap)
                     /\ v.id = w.id /\ v.dlc = w.dlc /\ v.bytes = w.bytes
                     /\ v.change = w.change
                     /\ size = CsvWindow \/ (k <= size /\ k <= CsvWindow) =>
                           v.freq = w.freq /\ v.span = w.span
                     /\ size <= CsvWindow => w.freq <= v.freq
                     /\ size >= CsvWindow => w.freq >= v.freq

(* Of some frames of the stream the last, and the time from one to another *)
(* if it has not gone back.                                                *)
Latest(ks) == IF ks = {} THEN None ELSE CHOOSE k \in ks : \A i \in ks : i <= k

Elapsed(j, k) ==
    IF j = None \/ stream[k].frame.ts < stream[j].frame.ts THEN 0
    ELSE stream[k].frame.ts - stream[j].frame.ts

(* Parser and extractor measure the same gaps twice, but a frame that      *)
(* cannot be decoded counts for the parser alone: an alert shows the time  *)
(* since the last frame on the bus, of its id or of any, and that is what  *)
(* was scored unless that frame was refused                                *)
(* (telemetry_parser.py:184-209, features.py:105-115).                     *)
ScoredAsParsed ==
    \A k \in DOMAIN live :
       LET at       == live[k].at
           before   == Latest(1 .. at - 1)
           sameId   == Latest({j \in 1 .. at - 1 :
                                 stream[j].frame.id = stream[at].frame.id})
           Taken(j) == j = None \/ Decodes(stream[j].frame)
       IN  /\ live[k].parsed.gap = Elapsed(sameId, at)
           /\ live[k].parsed.globalGap = Elapsed(before, at)
           /\ Taken(sameId) => live[k].vector.gap = live[k].parsed.gap
           /\ Taken(before) =>
                 live[k].vector.globalGap = live[k].parsed.globalGap

(* Each vector is what its definition says of the accepted frames up to    *)
(* its own, however the dictionaries and the deque get there: the id's     *)
(* share of the last frames, the time and the bytes that have changed      *)
(* since the id's last frame, and no negative gap when time goes back.     *)
VectorsMatchHistory ==
    \A k \in DOMAIN live :
       LET Pos(j)     == live[j].at
           Id(j)      == stream[Pos(j)].frame.id
           Bytes(j)   == Payload(stream[Pos(j)].frame)
           Byte(j, i) == IF i <= Len(Bytes(j)) THEN Bytes(j)[i] ELSE None
           v          == live[k].vector
           recent     == {j \in 1 .. k : j > k - size}
           prev       == Latest({j \in 1 .. k - 1 : Id(j) = Id(k)})
       IN  /\ v.freq = Cardinality({j \in recent : Id(j) = Id(k)})
           /\ v.span = Cardinality(recent)
           /\ v.globalGap = Elapsed(IF k = 1 THEN None ELSE Pos(k - 1), Pos(k))
           /\ IF prev = None THEN v.gap = 0 /\ v.change = 0
              ELSE /\ v.gap = Elapsed(Pos(prev), Pos(k))
                   /\ v.change = Cardinality({i \in 1 .. 8 :
                                                 Byte(k, i) # Byte(prev, i)})

(* On the n rows it was trained on a model flags no more than the          *)
(* contamination times n - 1, rounded up to a whole row: these are the     *)
(* rows that can be below the percentile, whatever the scores and however  *)
(* many are equal.  The classes of its report account for every attack and *)
(* every catch                                                             *)
(* (train_isolation_forest.py:65, evaluate.py:41-79).                      *)
TrainingFlagsFew ==
    phase = "trained" =>
       LET classes == report.classes
           Sum(number) == Cardinality(UNION {{label} \X (1 .. number[label]) :
                                                label \in DOMAIN number})
       IN  /\ report.tp + report.fp
                 <= (Contamination * (Len(file) - 1) + 99) \div 100
           /\ Sum([label \in DOMAIN classes |-> classes[label].caught])
                 = report.tp
           /\ Sum([label \in DOMAIN classes |-> classes[label].total])
                 = report.tp + report.fn

===============================================================================

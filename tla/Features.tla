------------------------------- MODULE Features -------------------------------
(***************************************************************************)
(* The two stateful readers of a CAN stream, as steps on their state:      *)
(* CANTelemetryParser, which every consumer of frames owns, and            *)
(* StreamingFeatureExtractor, which turns a frame or a CSV row into the    *)
(* vector the model scores.                                                *)
(*                                                                         *)
(* A frame is [id, dlc, data, ts].  Entropy, mean and variance are         *)
(* functions of the payload bytes, which stand for them in a vector; the   *)
(* ratio is freq out of span.                                              *)
(***************************************************************************)
EXTENDS Integers, Sequences, FiniteSets, TLC

CONSTANTS
    None        \* Python's None

(* data[:dlc]                                                              *)
Payload(frame) ==
    SubSeq(frame.data, 1,
           IF frame.dlc < Len(frame.data) THEN frame.dlc ELSE Len(frame.data))

(* max(0.0, now - before), and 0.0 for the first.                          *)
Gap(now, before) == IF before = None \/ now < before THEN 0 ELSE now - before

(* d.get(key)                                                              *)
Lookup(d, key) == IF key \in DOMAIN d THEN d[key] ELSE None

(* d[key] = value                                                          *)
Put(d, key, value) ==
    [k \in DOMAIN d \cup {key} |-> IF k = key THEN value ELSE d[k]]

-------------------------------------------------------------------------------
(* CANTelemetryParser.                                                     *)

Parser0 == [seen |-> <<>>, last |-> None, counts |-> <<>>, total |-> 0]

(* Of each known id: the bytes a frame must have to be decoded, which are  *)
(* those that are unpacked, and the bytes its struct format takes.         *)
Layout ==
    (160 :> <<6, 6>>) @@ (272 :> <<4, 4>>) @@ (288 :> <<2, 2>>) @@
    (304 :> <<3, 3>>) @@ (384 :> <<4, 5>>) @@ (560 :> <<3, 3>>) @@
    (576 :> <<4, 4>>) @@ (624 :> <<2, 2>>)

(* decode_signals returns; else struct.unpack raises.                      *)
Decodes(frame) ==
    frame.id \in DOMAIN Layout /\ Len(Payload(frame)) >= Layout[frame.id][1] =>
       Layout[frame.id][1] = Layout[frame.id][2]

(* What parse_frame has changed by the time it decodes, so that a frame it *)
(* refuses counts as well.                                                 *)
Parse(parser, frame) ==
    [seen   |-> Put(parser.seen, frame.id, frame.ts),
     last   |-> frame.ts,
     counts |-> Put(parser.counts, frame.id,
                    IF frame.id \in DOMAIN parser.counts
                    THEN parser.counts[frame.id] + 1 ELSE 1),
     total  |-> parser.total + 1]

(* The gaps of the ParsedTelemetry it returns.                             *)
Parsed(parser, frame) ==
    [gap       |-> Gap(frame.ts, Lookup(parser.seen, frame.id)),
     globalGap |-> Gap(frame.ts, parser.last)]

-------------------------------------------------------------------------------
(* StreamingFeatureExtractor.                                              *)

Extractor0 == [stamp |-> <<>>, payload |-> <<>>, last |-> None, window |-> <<>>]

(* calculate_payload_change_rate                                           *)
ChangeRate(now, before) ==
    IF before = None THEN 0
    ELSE LET short == IF Len(now) < Len(before) THEN Len(now) ELSE Len(before)
             long  == IF Len(now) < Len(before) THEN Len(before) ELSE Len(now)
         IN  Cardinality({i \in 1 .. short : now[i] # before[i]})
             + (long - short)

(* deque(maxlen=size).append                                               *)
Slide(window, id, size) ==
    IF Len(window) < size THEN Append(window, id)
    ELSE Append(Tail(window), id)

Occurrences(window, id) == Cardinality({i \in DOMAIN window : window[i] = id})

Extract(x, frame, size) ==
    [stamp   |-> Put(x.stamp, frame.id, frame.ts),
     payload |-> Put(x.payload, frame.id, Payload(frame)),
     last    |-> frame.ts,
     window  |-> Slide(x.window, frame.id, size)]

(* Mutant: the window is counted before the frame is in it.                *)
VectorOfOldWindow(x, frame, size) ==
    [id        |-> frame.id,
     dlc       |-> frame.dlc,
     gap       |-> Gap(frame.ts, Lookup(x.stamp, frame.id)),
     globalGap |-> Gap(frame.ts, x.last),
     bytes     |-> Payload(frame),
     freq      |-> Occurrences(x.window, frame.id) + 1,
     span      |-> Len(x.window) + 1,
     change    |-> ChangeRate(Payload(frame), Lookup(x.payload, frame.id))]

Vector(x, frame, size) ==
    [id        |-> frame.id,
     dlc       |-> frame.dlc,
     gap       |-> Gap(frame.ts, Lookup(x.stamp, frame.id)),
     globalGap |-> Gap(frame.ts, x.last),
     bytes     |-> Payload(frame),
     freq      |-> Occurrences(Slide(x.window, frame.id, size), frame.id),
     span      |-> Len(Slide(x.window, frame.id, size)),
     change    |-> ChangeRate(Payload(frame), Lookup(x.payload, frame.id))]

(* extract_features_from_csv: one extractor over all rows.                 *)
Matrix(rows, size) ==
    LET after[k \in 0 .. Len(rows)] ==
           IF k = 0 THEN Extractor0 ELSE Extract(after[k - 1], rows[k], size)
    IN  [k \in 1 .. Len(rows) |-> Vector(after[k - 1], rows[k], size)]

===============================================================================

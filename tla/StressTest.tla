------------------------------ MODULE StressTest ------------------------------
(***************************************************************************)
(* run_stress_test: the main thread floods a subscriber's queue of the     *)
(* virtual bus, a consumer thread feeds the queue to the detector, and the *)
(* main thread waits for the queue to be empty.  The queue is longer than  *)
(* the test and the bus is never closed, so every send() delivers.         *)
(***************************************************************************)
EXTENDS Features

CONSTANTS
    TotalFrames,    \* total_frames
    NormalIds       \* the ids of frames that belong to no burst

VARIABLES
    frames,     \* test_frames
    sent,       \* frames_dispatched
    queue,      \* subscriber_queue
    frame,      \* the frame the consumer has taken
    processed,  \* frames_processed
    running,    \* consumer_running
    mainPc,     \* send, wait, join, done
    consumer    \* test, get, process, or ended, or dead of an exception

vars == <<frames, sent, queue, frame, processed, running, mainPc, consumer>>

Zeros(n) == [i \in 1 .. n |-> 0]

(* Every tenth frame is of a flood; the rest are of a spoofed brake or of  *)
(* a normal id with four bytes.                                            *)
TestFrames(i) ==
    IF i % 10 = 0
    THEN {[id |-> 0, dlc |-> 8, data |-> Zeros(8)]}
    ELSE IF i % 25 = 0
         THEN {[id |-> 160, dlc |-> 6, data |-> Zeros(6)]}
         ELSE {[id |-> id, dlc |-> 4, data |-> Zeros(4)] : id \in NormalIds}

Init ==
    /\ frames \in {f \in [1 .. TotalFrames -> UNION {TestFrames(i) :
                                                i \in 0 .. TotalFrames - 1}] :
                     \A i \in 1 .. TotalFrames : f[i] \in TestFrames(i - 1)}
    /\ sent = 0
    /\ queue = <<>>
    /\ frame = None
    /\ processed = 0
    /\ running = TRUE
    /\ mainPc = "send"
    /\ consumer = "test"

Send ==
    /\ mainPc = "send"
    /\ sent < TotalFrames
    /\ queue' = Append(queue, frames[sent + 1])
    /\ sent' = sent + 1
    /\ mainPc' = IF sent' = TotalFrames THEN "wait" ELSE "send"
    /\ UNCHANGED <<frames, frame, processed, running, consumer>>

(* while not subscriber_queue.empty(): sleep                               *)
WaitOver ==
    /\ mainPc = "wait"
    /\ queue = <<>>
    /\ running' = FALSE
    /\ mainPc' = "join"
    /\ UNCHANGED <<frames, sent, queue, frame, processed, consumer>>

(* join(timeout): the consumer has ended, or the time is over.             *)
Join ==
    /\ mainPc = "join"
    /\ mainPc' = "done"
    /\ UNCHANGED <<frames, sent, queue, frame, processed, running, consumer>>

Test ==
    /\ consumer = "test"
    /\ consumer' = IF running \/ queue # <<>> THEN "get" ELSE "ended"
    /\ UNCHANGED <<frames, sent, queue, frame, processed, running, mainPc>>

(* get(timeout): a frame, or queue.Empty.                                  *)
Get ==
    /\ consumer = "get"
    /\ IF queue = <<>>
       THEN consumer' = "test" /\ UNCHANGED <<queue, frame>>
       ELSE /\ consumer' = "process"
            /\ frame' = Head(queue)
            /\ queue' = Tail(queue)
    /\ UNCHANGED <<frames, sent, processed, running, mainPc>>

(* process_frame; nothing catches what it raises, and the thread is dead.  *)
Process ==
    /\ consumer = "process"
    /\ IF Decodes(frame)
       THEN consumer' = "test" /\ processed' = processed + 1
       ELSE consumer' = "dead" /\ UNCHANGED processed
    /\ UNCHANGED <<frames, sent, queue, frame, running, mainPc>>

Next == Send \/ WaitOver \/ Join \/ Test \/ Get \/ Process

Spec == Init /\ [][Next]_vars

(* Both threads run: the one sleeps for 10 ms at a time, the other waits   *)
(* for 50 ms at most.                                                      *)
FairSpec == /\ Spec
            /\ WF_vars(Send \/ WaitOver \/ Join)
            /\ WF_vars(Test \/ Get \/ Process)

-------------------------------------------------------------------------------
(* "Wait for consumer to finish processing all queued frames"              *)
(* (stress_test.py:96): the wait ends and the results are printed.  A      *)
(* consumer that has died of a frame it cannot decode leaves the main      *)
(* thread waiting for a queue that nobody empties.                         *)
StressTestEnds == <>(mainPc = "done")

===============================================================================

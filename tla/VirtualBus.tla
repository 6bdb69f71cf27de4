------------------------------ MODULE VirtualBus -------------------------------
(***************************************************************************)
(* VirtualCANBus: the in-memory bus that stands in for SocketCAN.  Several *)
(* threads send at once; others create, remove and read subscriber queues  *)
(* or close the bus.  Everything but the test of _is_open in send() and    *)
(* the reading of a queue happens under _bus_lock.                         *)
(*                                                                         *)
(* A frame is its sender and its number among that sender's frames.  The   *)
(* list of subscribers is a set: send() holds the lock while it walks the  *)
(* list, and the order of the walk shows in no queue.                      *)
(***************************************************************************)
EXTENDS Naturals, Sequences

CONSTANTS
    Senders,    \* threads that call send()
    Queues,     \* the queues create_subscriber() may return
    Cap,        \* their maxsize
    NoOne,      \* the lock is free
    MaxSends    \* bound: frames each sender sends

ASSUME BusAssumption ==
    /\ Cap \in Nat \ {0}
    /\ MaxSends \in Nat
    /\ NoOne \notin Senders

VARIABLES
    isOpen,      \* _is_open
    subscribers, \* _subscribers
    created,     \* queues create_subscriber() has returned
    holder,      \* the sender that holds _bus_lock
    pc,          \* where each sender stands in send()
    todo,        \* the subscribers its loop has still to serve
    count,       \* frames each sender has begun to send
    queue,       \* the content of each queue
    log,         \* history: frames in the order their senders got the lock
    got,         \* history: every frame put into each queue
    early        \* history: queues created before the close

sendVars == <<holder, pc, todo, count>>
vars == <<isOpen, subscribers, created, sendVars, queue, log, got, early>>

Frame == Senders \X (1..MaxSends)

Init ==
    /\ isOpen = TRUE
    /\ subscribers = {}
    /\ created = {}
    /\ holder = NoOne
    /\ pc = [s \in Senders |-> "idle"]
    /\ todo = [s \in Senders |-> {}]
    /\ count = [s \in Senders |-> 0]
    /\ queue = [q \in Queues |-> <<>>]
    /\ log = <<>>
    /\ got = [q \in Queues |-> <<>>]
    /\ early = {}

-------------------------------------------------------------------------------
(* Plausible bugs that the properties below tell from the code: README.md  *)
(* says which property refutes which.                                      *)

(* Mutant: send() walks the list without the lock.                         *)
SendWithoutLock(s) ==
    /\ pc[s] = "lock"
    /\ holder' = s
    /\ pc' = [pc EXCEPT ![s] = "deliver"]
    /\ todo' = [todo EXCEPT ![s] = subscribers]
    /\ log' = Append(log, <<s, count[s]>>)
    /\ UNCHANGED <<isOpen, subscribers, created, count, queue, got, early>>

(* Mutant: the try surrounds the loop, so one full queue ends it.          *)
FullEndsLoop(s) ==
    /\ pc[s] = "deliver"
    /\ \E q \in todo[s] :
          IF Len(queue[q]) < Cap
          THEN /\ queue' = [queue EXCEPT ![q] = Append(queue[q], <<s, count[s]>>)]
               /\ got' = [got EXCEPT ![q] = Append(got[q], <<s, count[s]>>)]
               /\ todo' = [todo EXCEPT ![s] = todo[s] \ {q}]
          ELSE /\ todo' = [todo EXCEPT ![s] = {}]
               /\ UNCHANGED <<queue, got>>
    /\ UNCHANGED <<isOpen, subscribers, created, holder, pc, count, log, early>>

(* Mutant: close() keeps the subscribers.                                  *)
CloseKeepsSubscribers ==
    /\ holder = NoOne
    /\ isOpen' = FALSE
    /\ UNCHANGED <<subscribers, created, sendVars, queue, log, got, early>>

-------------------------------------------------------------------------------
(* send().                                                                 *)

SendCheck(s) ==
    /\ pc[s] \in {"idle", "raised"}
    /\ count[s] < MaxSends
    /\ isOpen
    /\ pc' = [pc EXCEPT ![s] = "lock"]
    /\ count' = [count EXCEPT ![s] = count[s] + 1]
    /\ UNCHANGED <<isOpen, subscribers, created, holder, todo, queue, log, got,
                   early>>

SendRaises(s) ==
    /\ pc[s] \in {"idle", "raised"}
    /\ ~isOpen
    /\ pc' = [pc EXCEPT ![s] = "raised"]
    /\ UNCHANGED <<isOpen, subscribers, created, holder, todo, count, queue,
                   log, got, early>>

(* The bus may have been closed since the test; the loop then finds no     *)
(* subscribers, or only those that came after the close.                   *)
SendLock(s) ==
    /\ pc[s] = "lock"
    /\ holder = NoOne
    /\ holder' = s
    /\ pc' = [pc EXCEPT ![s] = "deliver"]
    /\ todo' = [todo EXCEPT ![s] = subscribers]
    /\ log' = Append(log, <<s, count[s]>>)
    /\ UNCHANGED <<isOpen, subscribers, created, count, queue, got, early>>

(* put_nowait: a full queue drops the frame, silently.                     *)
Deliver(s) ==
    /\ pc[s] = "deliver"
    /\ \E q \in todo[s] :
          /\ todo' = [todo EXCEPT ![s] = todo[s] \ {q}]
          /\ IF Len(queue[q]) < Cap
             THEN /\ queue' = [queue EXCEPT ![q] = Append(queue[q], <<s, count[s]>>)]
                  /\ got' = [got EXCEPT ![q] = Append(got[q], <<s, count[s]>>)]
             ELSE UNCHANGED <<queue, got>>
    /\ UNCHANGED <<isOpen, subscribers, created, holder, pc, count, log, early>>

SendUnlock(s) ==
    /\ pc[s] = "deliver"
    /\ todo[s] = {}
    /\ pc' = [pc EXCEPT ![s] = "idle"]
    /\ holder' = NoOne
    /\ UNCHANGED <<isOpen, subscribers, created, todo, count, queue, log, got,
                   early>>

-------------------------------------------------------------------------------
(* The other operations, each one block under the lock.                    *)

(* Nothing stops a subscription to a closed bus.                           *)
CreateSubscriber(q) ==
    /\ holder = NoOne
    /\ q \notin created
    /\ created' = created \cup {q}
    /\ subscribers' = subscribers \cup {q}
    /\ early' = IF isOpen THEN early \cup {q} ELSE early
    /\ UNCHANGED <<isOpen, sendVars, queue, log, got>>

RemoveSubscriber(q) ==
    /\ holder = NoOne
    /\ q \in subscribers
    /\ subscribers' = subscribers \ {q}
    /\ UNCHANGED <<isOpen, created, sendVars, queue, log, got, early>>

Close ==
    /\ holder = NoOne
    /\ isOpen' = FALSE
    /\ subscribers' = {}
    /\ UNCHANGED <<created, sendVars, queue, log, got, early>>

(* A consumer's get(); it needs no lock of the bus.                        *)
Get(q) ==
    /\ queue[q] # <<>>
    /\ queue' = [queue EXCEPT ![q] = Tail(queue[q])]
    /\ UNCHANGED <<isOpen, subscribers, created, sendVars, log, got, early>>

-------------------------------------------------------------------------------
SendStep(s) ==
    SendCheck(s) \/ SendRaises(s) \/ SendLock(s) \/ Deliver(s) \/ SendUnlock(s)

Next ==
    \/ \E s \in Senders : SendStep(s)
    \/ \E q \in Queues : CreateSubscriber(q) \/ RemoveSubscriber(q) \/ Get(q)
    \/ Close

Spec == Init /\ [][Next]_vars

(* A sender in its loop goes on; nobody has to send, subscribe or read.    *)
FairSpec == Spec /\ \A s \in Senders : WF_vars(Deliver(s))

-------------------------------------------------------------------------------
(* The type invariant.                                                     *)
TypeOK ==
    /\ isOpen \in BOOLEAN
    /\ subscribers \in SUBSET created
    /\ created \in SUBSET Queues
    /\ holder \in Senders \cup {NoOne}
    /\ pc \in [Senders -> {"idle", "raised", "lock", "deliver"}]
    /\ todo \in [Senders -> SUBSET Queues]
    /\ count \in [Senders -> 0..MaxSends]
    /\ queue \in [Queues -> Seq(Frame)]
    /\ log \in Seq(Frame)
    /\ got \in [Queues -> Seq(Frame)]
    /\ early \in SUBSET created

(* Two subscribers see the frames they both get in the same order, and     *)
(* each of them once, however many threads send.                           *)
SameOrder ==
    \A p, q \in Queues :
        \A i, j \in DOMAIN got[p], k, l \in DOMAIN got[q] :
            (i < j /\ got[p][i] = got[q][k] /\ got[p][j] = got[q][l]) => k < l

(* After close() no frame reaches a queue that was there before it, though *)
(* send() tests _is_open before it has the lock.                           *)
QuietAfterClose ==
    [][\A q \in early : ~isOpen => got'[q] = got[q]]_vars

(* The bus implements the abstract broadcast: a frame takes the bus when   *)
(* its sender gets the lock, and is owed to a subscriber until the         *)
(* sender's loop has come to it.                                           *)
Broadcast == INSTANCE BroadcastLog WITH
    Frames  <- Frame,
    members <- subscribers,
    owed    <- [q \in Queues |->
                  IF holder # NoOne /\ q \in todo[holder] THEN 1 ELSE 0]

ImplementsBroadcast == Broadcast!BroadcastSpec

==============================================================================

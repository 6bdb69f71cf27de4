----------------------------- MODULE BroadcastLog -----------------------------
(***************************************************************************)
(* What a CAN bus promises its listeners: frames take the bus one after    *)
(* the other, and each listener is offered every frame that took it while  *)
(* the listener was attached, in that order and once.  A listener loses an *)
(* offered frame only when its buffer is full, and nobody is detached with *)
(* a frame still owed to him.                                              *)
(***************************************************************************)
EXTENDS Naturals, Sequences

CONSTANTS Frames,   \* the frames that may take the bus
          Queues,   \* the listeners
          Cap       \* frames a listener's buffer holds

VARIABLES log,      \* frames in the order they took the bus
          members,  \* listeners attached
          owed,     \* how many of the latest frames each must still be offered
          queue,    \* each listener's buffer
          got       \* frames each listener's buffer has taken

broadcastVars == <<log, members, owed, queue, got>>

BroadcastInit ==
    /\ log = <<>>
    /\ members = {}
    /\ owed = [q \in Queues |-> 0]
    /\ queue = [q \in Queues |-> <<>>]
    /\ got = [q \in Queues |-> <<>>]

Publish(f) ==
    /\ log' = Append(log, f)
    /\ owed' = [q \in Queues |-> IF q \in members THEN owed[q] + 1 ELSE owed[q]]
    /\ UNCHANGED <<members, queue, got>>

(* The oldest frame owed to q: taken if there is room, else lost.          *)
Offer(q) ==
    /\ owed[q] > 0
    /\ owed' = [owed EXCEPT ![q] = owed[q] - 1]
    /\ LET f == log[Len(log) - owed[q] + 1] IN
       IF Len(queue[q]) < Cap
       THEN /\ queue' = [queue EXCEPT ![q] = Append(queue[q], f)]
            /\ got' = [got EXCEPT ![q] = Append(got[q], f)]
       ELSE UNCHANGED <<queue, got>>
    /\ UNCHANGED <<log, members>>

Attach(q) ==
    /\ q \notin members
    /\ members' = members \cup {q}
    /\ UNCHANGED <<log, owed, queue, got>>

Detach(leavers) ==
    /\ \A q \in leavers : owed[q] = 0
    /\ members' = members \ leavers
    /\ UNCHANGED <<log, owed, queue, got>>

Read(q) ==
    /\ queue[q] # <<>>
    /\ queue' = [queue EXCEPT ![q] = Tail(queue[q])]
    /\ UNCHANGED <<log, members, owed, got>>

BroadcastNext ==
    \/ \E f \in Frames : Publish(f)
    \/ \E q \in Queues : Offer(q) \/ Attach(q) \/ Read(q)
    \/ \E leavers \in SUBSET members : Detach(leavers)

SafeBroadcast == BroadcastInit /\ [][BroadcastNext]_broadcastVars

(* And every frame owed is offered in the end.                             *)
BroadcastSpec ==
    SafeBroadcast /\ \A q \in Queues : WF_broadcastVars(Offer(q))

==============================================================================

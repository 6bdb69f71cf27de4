--------------------------- MODULE VirtualBusProofs ---------------------------
(***************************************************************************)
(* Theorems about VirtualBus for any number of senders and queues and any  *)
(* capacity: its types, the order subscribers see, silence after close(),  *)
(* and that it implements the safety part of BroadcastLog.                 *)
(***************************************************************************)
EXTENDS VirtualBus, TLAPS

(* The lock: the sender in the loop holds it, and while it does the        *)
(* subscribers it has still to serve stay subscribed.                      *)
LockInv ==
    \A s \in Senders :
        /\ pc[s] = "deliver" <=> holder = s
        /\ pc[s] # "deliver" => todo[s] = {}
        /\ todo[s] \subseteq subscribers
        /\ pc[s] \in {"lock", "deliver"} => count[s] > 0

BusInv == TypeOK /\ LockInv

(* What a turn of the loop does to the queue it comes to.                  *)
DeliverTo(s, q) ==
    /\ todo' = [todo EXCEPT ![s] = todo[s] \ {q}]
    /\ \/ /\ Len(queue[q]) < Cap
          /\ queue' = [queue EXCEPT ![q] = Append(queue[q], <<s, count[s]>>)]
          /\ got' = [got EXCEPT ![q] = Append(got[q], <<s, count[s]>>)]
       \/ /\ ~(Len(queue[q]) < Cap)
          /\ UNCHANGED <<queue, got>>

(* Each turn of the loop comes to one of the subscribers left.             *)
LEMMA DeliverPicks ==
    ASSUME NEW s \in Senders, Deliver(s)
    PROVE  \E q \in todo[s] : DeliverTo(s, q)
BY DEF Deliver, DeliverTo

(* The bus starts open, unlocked and without subscribers.                  *)
LEMMA BusInit == Init => BusInv
BY BusAssumption DEF BusAssumption, Init, BusInv, TypeOK, LockInv

(* Types and lock discipline survive every step.                           *)
LEMMA BusStep == BusInv /\ [Next]_vars => BusInv'
<1> SUFFICES ASSUME BusInv, [Next]_vars PROVE BusInv'
  OBVIOUS
<1> USE BusAssumption DEF BusAssumption, BusInv, TypeOK, LockInv
<1>1. ASSUME NEW s \in Senders, SendCheck(s) PROVE BusInv'
  BY <1>1 DEF SendCheck
<1>2. ASSUME NEW s \in Senders, SendRaises(s) PROVE BusInv'
  BY <1>2 DEF SendRaises
<1>3. ASSUME NEW s \in Senders, SendLock(s) PROVE BusInv'
  <2>1. <<s, count[s]>> \in Frame
    BY <1>3 DEF SendLock, Frame
  <2>2. log' \in Seq(Frame)
    BY <1>3, <2>1 DEF SendLock
  <2> QED BY <1>3, <2>2 DEF SendLock
<1>4. ASSUME NEW s \in Senders, Deliver(s) PROVE BusInv'
  <2>1. <<s, count[s]>> \in Frame
    BY <1>4 DEF Deliver, Frame
  <2>2. queue' \in [Queues -> Seq(Frame)] /\ got' \in [Queues -> Seq(Frame)]
    <3>1. PICK q \in todo[s] : DeliverTo(s, q)
      BY <1>4, DeliverPicks
    <3>2. /\ Append(queue[q], <<s, count[s]>>) \in Seq(Frame)
          /\ Append(got[q], <<s, count[s]>>) \in Seq(Frame)
      BY <2>1
    <3>3. CASE UNCHANGED <<queue, got>>
      BY <3>3
    <3>4. CASE /\ queue' = [queue EXCEPT ![q] = Append(queue[q], <<s, count[s]>>)]
               /\ got' = [got EXCEPT ![q] = Append(got[q], <<s, count[s]>>)]
      <4> DEFINE f == <<s, count[s]>>
      <4>1. f \in Frame
        BY <2>1
      <4> HIDE DEF f
      <4>2. \A r \in Queues : /\ queue'[r] \in Seq(Frame)
                              /\ got'[r] \in Seq(Frame)
        BY <3>4, <4>1 DEF f
      <4> QED BY <3>4, <4>2
    <3> QED BY <3>1, <3>3, <3>4 DEF DeliverTo
  <2> QED BY <1>4, <2>2 DEF Deliver
<1>5. ASSUME NEW s \in Senders, SendUnlock(s) PROVE BusInv'
  BY <1>5 DEF SendUnlock
<1>6. ASSUME NEW q \in Queues, CreateSubscriber(q) PROVE BusInv'
  BY <1>6 DEF CreateSubscriber, sendVars
<1>7. ASSUME NEW q \in Queues, RemoveSubscriber(q) PROVE BusInv'
  BY <1>7 DEF RemoveSubscriber, sendVars
<1>8. ASSUME NEW q \in Queues, Get(q) PROVE BusInv'
  BY <1>8 DEF Get, sendVars
<1>9. CASE Close
  BY <1>9 DEF Close, sendVars
<1>10. CASE UNCHANGED vars
  BY <1>10 DEF vars, sendVars
<1> QED
  BY <1>1, <1>2, <1>3, <1>4, <1>5, <1>6, <1>7, <1>8, <1>9, <1>10
     DEF Next, SendStep

(* Type correctness of the bus, for every number of senders and queues.    *)
THEOREM BusTypeCorrect == Spec => []TypeOK
<1>1. BusInv => TypeOK
  BY DEF BusInv
<1> QED BY BusInit, BusStep, <1>1, PTL DEF Spec

-------------------------------------------------------------------------------
(* A closed bus has no subscriber that was there before.                   *)
QuietInv == ~isOpen => early \cap subscribers = {}

(* The bus starts open.                                                    *)
LEMMA QuietInit == Init => QuietInv
BY DEF Init, QuietInv

(* close() clears the list and a late subscriber is not an early one.      *)
LEMMA QuietStep == BusInv /\ QuietInv /\ [Next]_vars => QuietInv'
<1> SUFFICES ASSUME BusInv, QuietInv, [Next]_vars PROVE QuietInv'
  OBVIOUS
<1> USE DEF BusInv, TypeOK, QuietInv
<1>1. ASSUME NEW s \in Senders, SendStep(s) PROVE QuietInv'
  BY <1>1 DEF SendStep, SendCheck, SendRaises, SendLock, Deliver, SendUnlock
<1>2. ASSUME NEW q \in Queues, CreateSubscriber(q) PROVE QuietInv'
  BY <1>2 DEF CreateSubscriber
<1>3. ASSUME NEW q \in Queues, RemoveSubscriber(q) PROVE QuietInv'
  BY <1>3 DEF RemoveSubscriber
<1>4. ASSUME NEW q \in Queues, Get(q) PROVE QuietInv'
  BY <1>4 DEF Get
<1>5. CASE Close
  BY <1>5 DEF Close
<1>6. CASE UNCHANGED vars
  BY <1>6 DEF vars
<1> QED BY <1>1, <1>2, <1>3, <1>4, <1>5, <1>6 DEF Next

(* After close() no frame reaches a queue that was there before it, for    *)
(* any number of senders that had passed the test of _is_open.             *)
THEOREM QuietAfterCloseCorrect == Spec => QuietAfterClose
<1>1. BusInv /\ QuietInv /\ [Next]_vars
        => [\A q \in early : ~isOpen => got'[q] = got[q]]_vars
  <2> SUFFICES ASSUME BusInv, QuietInv, [Next]_vars, NEW q \in early, ~isOpen
               PROVE  got'[q] = got[q]
    OBVIOUS
  <2>1. q \in Queues /\ q \notin subscribers
    BY DEF BusInv, TypeOK, QuietInv
  <2>2. ASSUME NEW s \in Senders, Deliver(s) PROVE got'[q] = got[q]
    <3>1. q \notin todo[s]
      BY <2>1 DEF BusInv, LockInv
    <3> QED BY <2>1, <2>2, <3>1 DEF Deliver, BusInv, TypeOK
  <2>3. CASE UNCHANGED got
    BY <2>3
  <2> QED
    BY <2>2, <2>3 DEF Next, SendStep, SendCheck, SendRaises, SendLock,
       SendUnlock, CreateSubscriber, RemoveSubscriber, Get, Close, vars
<1> QED
  BY BusInit, BusStep, QuietInit, QuietStep, <1>1, PTL
     DEF Spec, QuietAfterClose

-------------------------------------------------------------------------------
(* Where frames stand in the log.  Positions are compared through the      *)
(* frames themselves, which the log holds once each.                       *)
LogInv ==
    /\ \A i \in DOMAIN log :
          /\ log[i][2] <= count[log[i][1]]
          /\ pc[log[i][1]] = "lock" => log[i][2] < count[log[i][1]]
    /\ \A i, j \in DOMAIN log : log[i] = log[j] => i = j
    /\ \A s \in Senders : pc[s] = "deliver" =>
          Len(log) > 0 /\ log[Len(log)] = <<s, count[s]>>

(* Each queue has taken frames of the log, in the log's order, and a       *)
(* subscriber not served yet has not got the latest one.                   *)
OrderInv ==
    /\ \A q \in Queues : \A i \in DOMAIN got[q] :
          \E m \in DOMAIN log : got[q][i] = log[m]
    /\ \A q \in Queues : \A i, j \in DOMAIN got[q] : \A m, n \in DOMAIN log :
          (i < j /\ got[q][i] = log[m] /\ got[q][j] = log[n]) => m < n
    /\ \A s \in Senders : \A q \in todo[s] : \A i \in DOMAIN got[q] :
          pc[s] = "deliver" => got[q][i] # <<s, count[s]>>

(* The log is empty initially.                                             *)
LEMMA LogInit == Init => LogInv /\ OrderInv
<1> SUFFICES ASSUME Init PROVE LogInv /\ OrderInv
  OBVIOUS
<1>1. DOMAIN log = {} /\ \A q \in Queues : DOMAIN got[q] = {}
  BY DEF Init
<1>2. \A s \in Senders : pc[s] = "idle"
  BY DEF Init
<1> QED BY <1>1, <1>2 DEF LogInv, OrderInv, Init

(* A frame enters the log once, when its sender gets the lock, and stays   *)
(* the latest until that sender leaves its loop.                           *)
LEMMA LogStep == BusInv /\ LogInv /\ [Next]_vars => LogInv'
<1> SUFFICES ASSUME BusInv, LogInv, [Next]_vars PROVE LogInv'
  OBVIOUS
<1> USE BusAssumption DEF BusAssumption, BusInv, TypeOK, LockInv, LogInv
<1>0. \A i \in DOMAIN log :
         log[i] \in Frame /\ log[i][1] \in Senders /\ log[i][2] \in Nat
  BY DEF Frame
<1>1. ASSUME NEW s \in Senders, SendCheck(s) PROVE LogInv'
  BY <1>0, <1>1 DEF SendCheck
<1>2. ASSUME NEW s \in Senders, SendRaises(s) PROVE LogInv'
  BY <1>0, <1>2 DEF SendRaises
<1>3. ASSUME NEW s \in Senders, SendLock(s) PROVE LogInv'
  <2>1. \A i \in DOMAIN log : log[i] # <<s, count[s]>>
    BY <1>0, <1>3 DEF SendLock
  <2>2. /\ DOMAIN log' = DOMAIN log \cup {Len(log) + 1}
        /\ Len(log') = Len(log) + 1
        /\ Len(log) + 1 \notin DOMAIN log
        /\ log'[Len(log) + 1] = <<s, count[s]>>
        /\ \A i \in DOMAIN log : log'[i] = log[i]
    BY <1>3 DEF SendLock
  <2>3. \A u \in Senders : pc'[u] = "deliver" => u = s
    BY <1>3 DEF SendLock
  <2>4. /\ count' = count
        /\ pc' = [pc EXCEPT ![s] = "deliver"]
    BY <1>3 DEF SendLock
  <2>5. \A i \in DOMAIN log' :
          /\ log'[i][2] <= count'[log'[i][1]]
          /\ pc'[log'[i][1]] = "lock" => log'[i][2] < count'[log'[i][1]]
    BY <1>0, <2>2, <2>4
  <2>6. \A i, j \in DOMAIN log' : log'[i] = log'[j] => i = j
    BY <2>1, <2>2
  <2>7. Len(log) + 1 > 0
    OBVIOUS
  <2> QED BY <2>2, <2>3, <2>4, <2>5, <2>6, <2>7
<1>4. ASSUME NEW s \in Senders, Deliver(s) PROVE LogInv'
  BY <1>4 DEF Deliver
<1>5. ASSUME NEW s \in Senders, SendUnlock(s) PROVE LogInv'
  BY <1>0, <1>5 DEF SendUnlock
<1>6. ASSUME NEW q \in Queues, CreateSubscriber(q) PROVE LogInv'
  BY <1>6 DEF CreateSubscriber, sendVars
<1>7. ASSUME NEW q \in Queues, RemoveSubscriber(q) PROVE LogInv'
  BY <1>7 DEF RemoveSubscriber, sendVars
<1>8. ASSUME NEW q \in Queues, Get(q) PROVE LogInv'
  BY <1>8 DEF Get, sendVars
<1>9. CASE Close
  BY <1>9 DEF Close, sendVars
<1>10. CASE UNCHANGED vars
  BY <1>10 DEF vars, sendVars
<1> QED
  BY <1>1, <1>2, <1>3, <1>4, <1>5, <1>6, <1>7, <1>8, <1>9, <1>10
     DEF Next, SendStep

(* A queue only grows by the latest frame of the log, which it has not.    *)
LEMMA OrderStep == BusInv /\ LogInv /\ OrderInv /\ [Next]_vars => OrderInv'
<1> SUFFICES ASSUME BusInv, LogInv, OrderInv, [Next]_vars PROVE OrderInv'
  OBVIOUS
<1> USE DEF BusInv, TypeOK, LockInv, OrderInv
<1>1. ASSUME NEW s \in Senders, SendCheck(s) PROVE OrderInv'
  BY <1>1 DEF SendCheck
<1>2. ASSUME NEW s \in Senders, SendRaises(s) PROVE OrderInv'
  BY <1>2 DEF SendRaises
<1>3. ASSUME NEW s \in Senders, SendLock(s) PROVE OrderInv'
  <2>1. \A i \in DOMAIN log : log[i] # <<s, count[s]>>
    BY <1>3 DEF SendLock, LogInv, Frame
  <2>2. /\ DOMAIN log' = DOMAIN log \cup {Len(log) + 1}
        /\ Len(log) + 1 \notin DOMAIN log
        /\ log'[Len(log) + 1] = <<s, count[s]>>
        /\ \A i \in DOMAIN log : log'[i] = log[i]
    BY <1>3 DEF SendLock
  <2>3. \A q \in Queues : \A i \in DOMAIN got[q] : got[q][i] # <<s, count[s]>>
    <3> DEFINE f == <<s, count[s]>>
    <3> HIDE DEF f
    <3>1. \A i \in DOMAIN log : log[i] # f
      BY <2>1 DEF f
    <3>2. \A q \in Queues : \A i \in DOMAIN got[q] : got[q][i] # f
      BY ONLY <3>1, OrderInv DEF OrderInv
    <3> QED BY <3>2 DEF f
  <2>4. \A u \in Senders : pc'[u] = "deliver" => u = s
    BY <1>3, BusAssumption DEF SendLock, BusAssumption
  <2>5. /\ got' = got /\ count' = count
        /\ todo' = [todo EXCEPT ![s] = subscribers]
    BY <1>3 DEF SendLock
  <2>6. todo'[s] \subseteq Queues
    BY <2>5
  <2>7. \A q \in Queues : \A i \in DOMAIN got[q] : got[q][i] # log'[Len(log) + 1]
    BY <2>2, <2>3
  <2>8. \A q \in Queues : \A i \in DOMAIN got'[q] :
          \E m \in DOMAIN log' : got'[q][i] = log'[m]
    BY ONLY <2>2, <2>5, OrderInv DEF OrderInv
  <2>9. \A q \in Queues : \A i, j \in DOMAIN got'[q] : \A m, n \in DOMAIN log' :
          (i < j /\ got'[q][i] = log'[m] /\ got'[q][j] = log'[n]) => m < n
    BY ONLY <2>2, <2>5, <2>7, OrderInv DEF OrderInv
  <2>10. \A u \in Senders : \A q \in todo'[u] : \A i \in DOMAIN got'[q] :
          pc'[u] = "deliver" => got'[q][i] # <<u, count'[u]>>
    BY ONLY <2>3, <2>4, <2>5, <2>6
  <2> QED BY ONLY <2>8, <2>9, <2>10 DEF OrderInv
<1>4. ASSUME NEW s \in Senders, Deliver(s) PROVE OrderInv'
  <2>0. PICK q \in todo[s] : DeliverTo(s, q)
    BY <1>4, DeliverPicks
  <2> DEFINE f == <<s, count[s]>>
  <2>1. /\ log' = log /\ count' = count /\ pc' = pc /\ pc[s] = "deliver"
        /\ q \in Queues
    BY <1>4 DEF Deliver
  <2>2. /\ todo' = [todo EXCEPT ![s] = todo[s] \ {q}]
        /\ \A u \in Senders : pc[u] = "deliver" => u = s
    BY <2>0, <2>1 DEF DeliverTo
  <2>3. CASE UNCHANGED got
    BY <2>1, <2>2, <2>3
  <2>4. CASE got' = [got EXCEPT ![q] = Append(got[q], f)]
    <3>1. /\ DOMAIN got'[q] = DOMAIN got[q] \cup {Len(got[q]) + 1}
          /\ got'[q][Len(got[q]) + 1] = f
          /\ \A i \in DOMAIN got[q] :
                got'[q][i] = got[q][i] /\ i \in 1..Len(got[q])
          /\ \A p \in Queues \ {q} : got'[p] = got[p]
      BY <2>1, <2>4
    <3>2. Len(log) \in DOMAIN log /\ log[Len(log)] = f
      BY <2>1 DEF LogInv
    <3>3. \A i \in DOMAIN got[q] : got[q][i] # f
      BY <2>1
    <3>4. \A n \in DOMAIN log : log[n] = f => n = Len(log)
      BY <3>2 DEF LogInv
    <3>5. \A p \in Queues : \A i \in DOMAIN got'[p] :
            \E m \in DOMAIN log' : got'[p][i] = log'[m]
      BY ONLY <2>1, <3>1, <3>2, OrderInv DEF OrderInv
    <3>6. ASSUME NEW p \in Queues, NEW i \in DOMAIN got'[p],
                 NEW j \in DOMAIN got'[p], NEW m \in DOMAIN log,
                 NEW n \in DOMAIN log,
                 i < j, got'[p][i] = log[m], got'[p][j] = log[n]
          PROVE  m < n
      <4>1. CASE p # q \/ (i \in DOMAIN got[q] /\ j \in DOMAIN got[q])
        BY <4>1, <3>1, <3>6
      <4>2. CASE p = q /\ j = Len(got[q]) + 1 /\ i \in DOMAIN got[q]
        <5>1. n = Len(log) /\ got[q][i] = log[m]
          BY <4>2, <3>1, <3>4, <3>6
        <5>2. m # n
          BY <5>1, <3>2, <3>3, <4>2
        <5> QED BY <5>1, <5>2
      <4>3. CASE p = q /\ i = Len(got[q]) + 1
        BY <4>3, <3>1, <3>6
      <4> QED BY <4>1, <4>2, <4>3, <3>1, <3>6
    <3>7. \A u \in Senders : \A p \in todo'[u] : \A i \in DOMAIN got'[p] :
            pc'[u] = "deliver" => got'[p][i] # <<u, count'[u]>>
      <4>1. \A u \in Senders : pc'[u] = "deliver" => u = s
        BY <2>1, <2>2
      <4>2. \A p \in todo'[s] : p \in todo[s] /\ p # q /\ p \in Queues
        BY <2>2
      <4>3. \A p \in todo[s] : \A i \in DOMAIN got[p] : got[p][i] # f
        BY ONLY <2>1, OrderInv, s \in Senders DEF OrderInv
      <4>4. \A p \in todo'[s] : got'[p] = got[p]
        BY ONLY <4>2, <3>1
      <4> QED BY ONLY <2>1, <4>1, <4>2, <4>3, <4>4
    <3> QED BY <2>1, <3>5, <3>6, <3>7
  <2> QED BY <2>0, <2>3, <2>4 DEF DeliverTo
<1>5. ASSUME NEW s \in Senders, SendUnlock(s) PROVE OrderInv'
  BY <1>5 DEF SendUnlock
<1>6. ASSUME NEW q \in Queues, CreateSubscriber(q) PROVE OrderInv'
  BY <1>6 DEF CreateSubscriber, sendVars
<1>7. ASSUME NEW q \in Queues, RemoveSubscriber(q) PROVE OrderInv'
  BY <1>7 DEF RemoveSubscriber, sendVars
<1>8. ASSUME NEW q \in Queues, Get(q) PROVE OrderInv'
  <2>1. UNCHANGED <<got, log, pc, count, todo>>
    BY <1>8 DEF Get, sendVars
  <2> QED BY ONLY <2>1, OrderInv DEF OrderInv
<1>9. CASE Close
  BY <1>9 DEF Close, sendVars
<1>10. CASE UNCHANGED vars
  BY <1>10 DEF vars, sendVars
<1> QED
  BY <1>1, <1>2, <1>3, <1>4, <1>5, <1>6, <1>7, <1>8, <1>9, <1>10
     DEF Next, SendStep

(* All subscribers see common frames in one order, and each frame once.    *)
THEOREM SameOrderCorrect == Spec => []SameOrder
<1>1. LogInv /\ OrderInv /\ BusInv => SameOrder
  <2> SUFFICES ASSUME LogInv, OrderInv, BusInv, NEW p \in Queues, NEW q \in Queues,
                      NEW i \in DOMAIN got[p], NEW j \in DOMAIN got[p],
                      NEW k \in DOMAIN got[q], NEW l \in DOMAIN got[q],
                      i < j, got[p][i] = got[q][k], got[p][j] = got[q][l]
               PROVE  k < l
    BY DEF SameOrder
  <2>1. PICK m \in DOMAIN log : got[p][i] = log[m]
    BY DEF OrderInv
  <2>2. PICK n \in DOMAIN log : got[p][j] = log[n]
    BY DEF OrderInv
  <2>3. m < n
    BY <2>1, <2>2 DEF OrderInv
  <2>4. /\ k \in Nat /\ l \in Nat /\ m \in Nat /\ n \in Nat
    BY DEF BusInv, TypeOK
  <2>5. got[q][k] = log[m] /\ got[q][l] = log[n]
    BY <2>1, <2>2
  <2>6. k # l
    BY ONLY <2>3, <2>4, <2>5, LogInv, m \in DOMAIN log, n \in DOMAIN log DEF LogInv
  <2>7. ~(l < k)
    BY ONLY <2>3, <2>4, <2>5, OrderInv, q \in Queues, k \in DOMAIN got[q],
       l \in DOMAIN got[q], m \in DOMAIN log, n \in DOMAIN log DEF OrderInv
  <2> QED BY <2>4, <2>6, <2>7
<1> QED
  BY BusInit, BusStep, LogInit, LogStep, OrderStep, <1>1, PTL DEF Spec

-------------------------------------------------------------------------------
(* The refinement: what the bus does is what BroadcastLog allows.          *)

Owed(q) == IF holder # NoOne /\ q \in todo[holder] THEN 1 ELSE 0

(* While nobody holds the lock nothing is owed.                            *)
LEMMA FreeOwesNothing ==
    ASSUME holder = NoOne
    PROVE  \A q \in Queues : Owed(q) = 0
BY DEF Owed

(* The bus starts where BroadcastLog starts.                               *)
LEMMA RefinesInit == Init => Broadcast!BroadcastInit
BY DEF Init, Broadcast!BroadcastInit

(* Every step of the bus is a step of BroadcastLog or leaves it as it was. *)
LEMMA RefinesStep ==
    BusInv /\ BusInv' /\ LogInv /\ [Next]_vars
        => [Broadcast!BroadcastNext]_(Broadcast!broadcastVars)
<1> SUFFICES ASSUME BusInv, BusInv', LogInv, [Next]_vars
             PROVE  [Broadcast!BroadcastNext]_(Broadcast!broadcastVars)
  OBVIOUS
<1> USE BusAssumption DEF BusAssumption, BusInv, TypeOK, LockInv
<1> DEFINE owed == [q \in Queues |-> Owed(q)]
<1>0. ASSUME UNCHANGED <<log, subscribers, queue, got, holder, todo>>
      PROVE  UNCHANGED Broadcast!broadcastVars
  BY <1>0 DEF Broadcast!broadcastVars
<1>1. ASSUME NEW s \in Senders, SendCheck(s) \/ SendRaises(s)
      PROVE  UNCHANGED Broadcast!broadcastVars
  BY <1>0, <1>1 DEF SendCheck, SendRaises
<1>2. ASSUME NEW s \in Senders, SendLock(s)
      PROVE  \E f \in Frame : Broadcast!Publish(f)
  <2>1. PICK f \in Frame : f = <<s, count[s]>>
    BY <1>2 DEF SendLock, Frame
  <2>2. \A q \in Queues : Owed(q) = 0
    BY <1>2, FreeOwesNothing DEF SendLock
  <2>3. \A q \in Queues : Owed(q)' = IF q \in subscribers THEN 1 ELSE 0
    BY <1>2 DEF SendLock, Owed
  <2>4. owed' = [q \in Queues |-> IF q \in subscribers THEN owed[q] + 1 ELSE owed[q]]
    BY <2>2, <2>3
  <2>5. UNCHANGED <<subscribers, queue, got>> /\ log' = Append(log, f)
    BY <1>2, <2>1 DEF SendLock
  <2>6. Broadcast!Publish(f)
    BY <2>4, <2>5 DEF Broadcast!Publish, Owed
  <2> QED BY <2>6
<1>3. ASSUME NEW s \in Senders, Deliver(s)
      PROVE  \E q \in Queues : Broadcast!Offer(q)
  <2>1. PICK q \in todo[s] : DeliverTo(s, q)
    BY <1>3, DeliverPicks
  <2>2. /\ pc[s] = "deliver" /\ holder = s /\ s # NoOne /\ q \in Queues
        /\ UNCHANGED <<log, subscribers, holder>>
    BY <1>3 DEF Deliver
  <2>3. /\ Owed(q) = 1 /\ Owed(q)' = 0
        /\ \A p \in Queues : p # q => Owed(p)' = Owed(p)
    BY <2>1, <2>2 DEF DeliverTo, Owed
  <2>4. owed' = [owed EXCEPT ![q] = owed[q] - 1]
    <3>1. owed' = [p \in Queues |-> Owed(p)']
      OBVIOUS
    <3>2. [owed EXCEPT ![q] = owed[q] - 1]
            = [p \in Queues |-> IF p = q THEN Owed(q) - 1 ELSE Owed(p)]
      BY <2>2
    <3>3. \A p \in Queues : Owed(p)' = IF p = q THEN Owed(q) - 1 ELSE Owed(p)
      BY <2>3
    <3> QED BY <3>1, <3>2, <3>3
  <2>5. log[Len(log) - owed[q] + 1] = <<s, count[s]>> /\ owed[q] = 1
    BY <2>2, <2>3 DEF LogInv
  <2>6. Broadcast!Offer(q)
    BY <2>1, <2>2, <2>4, <2>5 DEF DeliverTo, Broadcast!Offer, Owed
  <2> QED BY <2>2, <2>6
<1>4. ASSUME NEW s \in Senders, SendUnlock(s)
      PROVE  UNCHANGED Broadcast!broadcastVars
  <2>1. \A q \in Queues : Owed(q) = 0 /\ Owed(q)' = 0
    BY <1>4 DEF SendUnlock, Owed
  <2>2. UNCHANGED <<log, subscribers, queue, got>> /\ owed' = owed
    BY <1>4, <2>1 DEF SendUnlock
  <2> QED BY <2>2 DEF Broadcast!broadcastVars, Owed
<1>5. ASSUME NEW q \in Queues, CreateSubscriber(q)
      PROVE  Broadcast!Attach(q)
  BY <1>5 DEF CreateSubscriber, sendVars, Broadcast!Attach
<1>6. ASSUME NEW gone \in SUBSET subscribers, subscribers' = subscribers \ gone,
             holder = NoOne, UNCHANGED <<sendVars, queue, log, got>>
      PROVE  Broadcast!Detach(gone)
  <2>1. \A q \in gone : owed[q] = 0
    BY <1>6, FreeOwesNothing
  <2>2. UNCHANGED <<log, queue, got>> /\ owed' = owed
    BY <1>6 DEF sendVars, Owed
  <2> QED BY <1>6, <2>1, <2>2 DEF Broadcast!Detach, Owed
<1>7. ASSUME NEW q \in Queues, RemoveSubscriber(q)
      PROVE  Broadcast!Detach({q}) /\ {q} \in SUBSET subscribers
  BY <1>6, <1>7 DEF RemoveSubscriber
<1>8. CASE Close
  <2>1. Broadcast!Detach(subscribers)
    BY <1>6, <1>8 DEF Close
  <2> QED BY <2>1 DEF Broadcast!BroadcastNext
<1>9. ASSUME NEW q \in Queues, Get(q) PROVE Broadcast!Read(q)
  BY <1>9 DEF Get, sendVars, Broadcast!Read
<1>10. CASE UNCHANGED vars
  BY <1>0, <1>10 DEF vars, sendVars
<1>11. ASSUME NEW s \in Senders, SendStep(s)
       PROVE  Broadcast!BroadcastNext \/ UNCHANGED Broadcast!broadcastVars
  <2>1. CASE SendCheck(s) \/ SendRaises(s)
    BY ONLY <1>1, <2>1, s \in Senders
  <2>2. CASE SendLock(s)
    BY ONLY <1>2, <2>2, s \in Senders DEF Broadcast!BroadcastNext
  <2>3. CASE Deliver(s)
    BY ONLY <1>3, <2>3, s \in Senders DEF Broadcast!BroadcastNext
  <2>4. CASE SendUnlock(s)
    BY ONLY <1>4, <2>4, s \in Senders
  <2> QED BY ONLY <1>11, <2>1, <2>2, <2>3, <2>4 DEF SendStep
<1>12. ASSUME NEW q \in Queues,
              CreateSubscriber(q) \/ RemoveSubscriber(q) \/ Get(q)
       PROVE  Broadcast!BroadcastNext
  BY <1>5, <1>7, <1>9, <1>12 DEF Broadcast!BroadcastNext
<1> QED BY <1>8, <1>10, <1>11, <1>12 DEF Next

(* The bus implements the abstract broadcast: every listener is offered    *)
(* every frame sent while it is subscribed, once and in order, and loses   *)
(* one only to a full queue.                                               *)
THEOREM BusImplementsBroadcast == Spec => Broadcast!SafeBroadcast
<1> QED
  BY BusInit, BusStep, LogInit, LogStep, RefinesInit, RefinesStep, PTL
     DEF Spec, Broadcast!SafeBroadcast

==============================================================================

---------------------------- MODULE DetectionProofs ---------------------------
(***************************************************************************)
(* Theorems about Detection for any finite set of handler threads, any     *)
(* ids, window size, history length and flood threshold: what the shared   *)
(* detector and alert engine guarantee however their threads interleave,   *)
(* although they take no lock.                                             *)
(***************************************************************************)
EXTENDS Detection, FiniteSetTheorems, SequenceTheorems, TLAPS

(* A busy thread has a real frame in hand, one whose id is on the bus.     *)
TypeInv ==
    /\ TypeOK
    /\ \A t \in Threads : pc[t] # "idle" => cur[t] \in Frame

(* What a bounded append keeps: at most n elements, and never fewer than   *)
(* it had.                                                                 *)
LEMMA BoundedAppend ==
    ASSUME NEW S, NEW s \in Seq(S), NEW e \in S, NEW n \in Nat \ {0}
    PROVE  /\ Bounded(Append(s, e), n) \in Seq(S)
           /\ Len(Bounded(Append(s, e), n)) > 0
           /\ Len(s) <= n => /\ Len(Bounded(Append(s, e), n)) >= Len(s)
                             /\ Len(Bounded(Append(s, e), n)) <= n
<1> DEFINE a == Append(s, e)
<1>1. a \in Seq(S) /\ Len(a) = Len(s) + 1 /\ Len(s) \in Nat
  BY AppendProperties, LenProperties
<1> HIDE DEF a
<1>2. CASE Len(a) <= n
  BY <1>1, <1>2 DEF Bounded, a
<1>3. CASE Len(a) > n
  <2>1. Len(a) - n + 1 \in Int /\ Len(a) \in Int
    BY <1>1
  <2>2. \A i \in Len(a) - n + 1..Len(a) : a[i] \in S
    BY <1>1, <1>3, ElementOfSeq
  <2>3. /\ SubSeq(a, Len(a) - n + 1, Len(a)) \in Seq(S)
        /\ Len(SubSeq(a, Len(a) - n + 1, Len(a))) = n
    BY <1>1, <1>3, <2>1, <2>2, SubSeqProperties
  <2>4. Bounded(a, n) = SubSeq(a, Len(a) - n + 1, Len(a))
    BY <1>1, <1>3 DEF Bounded
  <2>5. Len(Bounded(a, n)) = n /\ Bounded(a, n) \in Seq(S)
    BY <2>3, <2>4
  <2>6. n > 0 /\ (Len(s) <= n => n >= Len(s) /\ n <= n)
    BY <1>1
  <2> QED BY <2>5, <2>6 DEF a
<1> QED BY <1>1, <1>2, <1>3

(* sum() of a window is a number between zero and its length.              *)
LEMMA OnesBound ==
    ASSUME NEW w \in Seq({0, 1})
    PROVE  Ones(w) \in Nat /\ Ones(w) <= Len(w)
<1> DEFINE P == {i \in DOMAIN w : w[i] = 1}
<1>1. Len(w) \in Nat /\ DOMAIN w = 1..Len(w)
  BY LenProperties
<1>2. IsFiniteSet(1..Len(w)) /\ Cardinality(1..Len(w)) = Len(w)
  BY <1>1, FS_Interval
<1>3. P \in SUBSET (1..Len(w))
  BY <1>1
<1>4. IsFiniteSet(P) /\ Cardinality(P) <= Len(w)
  BY <1>2, <1>3, FS_Subset
<1>5. Cardinality(P) \in Nat
  BY <1>4, FS_CardinalityType
<1> QED BY <1>4, <1>5 DEF Ones

(* The classifier returns one of its six kinds.                            *)
LEMMA ClassifyType ==
    ASSUME NEW f, NEW d
    PROVE  Classify(f, d) \in Kinds
BY DEF Classify, Kinds

-------------------------------------------------------------------------------
(* The types are right initially.                                          *)
LEMMA TypeInit == Init => TypeInv
<1> SUFFICES ASSUME Init PROVE TypeInv
  OBVIOUS
<1>1. NoAlert \in Alert
  BY DEF NoAlert, Alert, Kinds
<1>2. /\ <<>> \in Seq({0, 1}) /\ <<>> \in Seq(Alert)
      /\ 0 \in 0..MaxFrames /\ 0 \in 0..MaxTime
  BY DetectionAssumption DEF DetectionAssumption
<1> QED BY <1>1, <1>2 DEF Init, TypeInv, TypeOK

(* Every step of every thread preserves them.                              *)
LEMMA TypeStep == TypeInv /\ [Next]_vars => TypeInv'
<1> SUFFICES ASSUME TypeInv, [Next]_vars PROVE TypeInv'
  OBVIOUS
<1> USE DetectionAssumption DEF DetectionAssumption, TypeInv, TypeOK, Goto
<1>1. ASSUME NEW t \in Threads, Take(t) PROVE TypeInv'
  <2>1. PICK f \in Frame :
          /\ cur' = [cur EXCEPT ![t] = f]
          /\ gap' = [gap EXCEPT ![t] = IF arrived[f.id] = Never THEN Never
                                       ELSE f.ts - arrived[f.id]]
          /\ arrived' = [arrived EXCEPT ![f.id] = f.ts]
    BY <1>1 DEF Take
  <2>2. f.id \in Ids /\ f.ts \in 0..MaxTime
    BY DEF Frame
  <2>3. gap' \in [Threads -> Int \cup {Never}]
    <3>1. (IF arrived[f.id] = Never THEN Never ELSE f.ts - arrived[f.id])
            \in Int \cup {Never}
      BY <2>2
    <3> QED BY <2>1, <3>1
  <2>4. arrived' \in [Ids -> 0..MaxTime \cup {Never}]
    BY <2>1, <2>2
  <2>5. cur' \in [Threads -> Frame \cup {NoFrame}]
    BY <2>1
  <2>6. taken' \in 0..MaxFrames
    BY <1>1 DEF Take
  <2>7. \A u \in Threads : pc'[u] # "idle" => cur'[u] \in Frame
    BY <1>1, <2>1 DEF Take
  <2>8. pc' \in [Threads -> {"idle", "parse", "store", "decode", "score", "sum",
                           "count", "alert", "issue", "record", "log"}]
    BY <1>1 DEF Take
  <2> QED BY <1>1, <2>3, <2>4, <2>5, <2>6, <2>7, <2>8
          DEF Take, parserVars, detectorVars, alertVars
<1>2. ASSUME NEW t \in Threads, ParseFirst(t) PROVE TypeInv'
  <2>1. cur[t].id \in Ids /\ cur[t].ts \in 0..MaxTime
    BY <1>2 DEF ParseFirst, Frame
  <2>2. /\ lastSeen' \in [Ids -> 0..MaxTime \cup {Never}]
        /\ delta' \in [Threads -> 0..MaxTime]
    BY <1>2, <2>1 DEF ParseFirst
  <2> QED BY <1>2, <2>2 DEF ParseFirst, clientVars, detectorVars, alertVars
<1>3. ASSUME NEW t \in Threads, ReadDelta(t) PROVE TypeInv'
  <2>1. cur[t].id \in Ids /\ cur[t].ts \in 0..MaxTime
    BY <1>3 DEF ReadDelta, Frame
  <2>2. lastSeen[cur[t].id] \in 0..MaxTime
    BY <1>3, <2>1 DEF ReadDelta
  <2>3. Larger(0, cur[t].ts - lastSeen[cur[t].id]) \in 0..MaxTime
    BY <2>1, <2>2 DEF Larger
  <2>4. delta' \in [Threads -> 0..MaxTime]
    BY <1>3, <2>3 DEF ReadDelta
  <2> QED BY <1>3, <2>4 DEF ReadDelta, clientVars, detectorVars, alertVars
<1>4. ASSUME NEW t \in Threads, StoreSeen(t) PROVE TypeInv'
  <2>1. cur[t].id \in Ids /\ cur[t].ts \in 0..MaxTime
    BY <1>4 DEF StoreSeen, Frame
  <2>2. lastSeen' \in [Ids -> 0..MaxTime \cup {Never}]
    BY <1>4, <2>1 DEF StoreSeen
  <2> QED BY <1>4, <2>2 DEF StoreSeen, clientVars, detectorVars, alertVars
<1>5. ASSUME NEW t \in Threads, DecodeSignals(t) PROVE TypeInv'
  BY <1>5 DEF DecodeSignals, clientVars, parserVars, detectorVars, alertVars
<1>6. ASSUME NEW t \in Threads, DecodeRaises(t) PROVE TypeInv'
  BY <1>6 DEF DecodeRaises, clientVars, parserVars, detectorVars, alertVars
<1>7. ASSUME NEW t \in Threads, Score(t) PROVE TypeInv'
  <2>1. PICK v \in {0, 1} :
          /\ verdict' = [verdict EXCEPT ![t] = v]
          /\ window' = Bounded(Append(window, v), WindowSize)
    BY <1>7 DEF Score
  <2>2. window' \in Seq({0, 1})
    BY <2>1, BoundedAppend
  <2>3. verdict' \in [Threads -> {0, 1}]
    BY <2>1
  <2> QED BY <1>7, <2>2, <2>3 DEF Score, clientVars, parserVars, alertVars
<1>8. ASSUME NEW t \in Threads, SumWindow(t) PROVE TypeInv'
  <2>1. total' \in [Threads -> Nat]
    BY <1>8, OnesBound DEF SumWindow
  <2> QED BY <1>8, <2>1 DEF SumWindow, clientVars, parserVars, alertVars
<1>9. ASSUME NEW t \in Threads, Count(t) PROVE TypeInv'
  <2>1. Len(window) \in Nat /\ total[t] \in Nat /\ verdict[t] \in {0, 1}
    BY LenProperties
  <2>2. density' \in [Threads -> Nat \X Nat]
    BY <1>9, <2>1 DEF Count
  <2>3. processed' \in Nat /\ flagged' \in Nat
    BY <1>9, <2>1 DEF Count
  <2> QED BY <1>9, <2>2, <2>3 DEF Count, clientVars, parserVars, alertVars
<1>10. ASSUME NEW t \in Threads, AlertBegin(t) PROVE TypeInv'
  BY <1>10 DEF AlertBegin, clientVars, parserVars, detectorVars
<1>11. ASSUME NEW t \in Threads, AlertIssue(t) PROVE TypeInv'
  <2>1. cur[t].id \in Ids
    BY <1>11 DEF AlertIssue, Frame
  <2>2. [number |-> alertCounter, id |-> cur[t].id,
         kind |-> Classify(cur[t], delta[t]), gap |-> gap[t]] \in Alert
    BY <2>1, ClassifyType DEF Alert
  <2>3. alert' \in [Threads -> Alert]
    BY <1>11, <2>2 DEF AlertIssue
  <2> QED BY <1>11, <2>3 DEF AlertIssue, clientVars, parserVars, detectorVars
<1>12. ASSUME NEW t \in Threads, RecordRecent(t) PROVE TypeInv'
  <2>1. recent' \in Seq(Alert)
    BY <1>12, BoundedAppend DEF RecordRecent
  <2> QED BY <1>12, <2>1 DEF RecordRecent, clientVars, parserVars, detectorVars
<1>13. ASSUME NEW t \in Threads, WriteLog(t) PROVE TypeInv'
  <2>1. log' \in Seq(Alert)
    BY <1>13, AppendProperties DEF WriteLog
  <2> QED BY <1>13, <2>1 DEF WriteLog, clientVars, parserVars, detectorVars
<1>14. ASSUME NEW t \in Threads, WriteLogFails(t) PROVE TypeInv'
  BY <1>14 DEF WriteLogFails, clientVars, parserVars, detectorVars
<1>15. CASE UNCHANGED vars
  BY <1>15 DEF vars, clientVars, parserVars, detectorVars, alertVars
<1> QED
  BY <1>1, <1>2, <1>3, <1>4, <1>5, <1>6, <1>7, <1>8, <1>9, <1>10, <1>11,
     <1>12, <1>13, <1>14, <1>15 DEF Next

(* Type correctness of the detection side, for every number of threads.    *)
THEOREM DetectionTypeCorrect == Spec => []TypeOK
<1>1. TypeInv => TypeOK
  BY DEF TypeInv
<1> QED BY TypeInit, TypeStep, <1>1, PTL DEF Spec

-------------------------------------------------------------------------------
(* Why the density is a percentage: the window never shrinks, so a length  *)
(* read after the sum is at least the sum, and a thread that has scored a  *)
(* frame finds a verdict in it.                                            *)
DensityInv ==
    /\ Len(window) <= WindowSize
    /\ \A t \in Threads : pc[t] \in {"sum", "count"} => Len(window) > 0
    /\ \A t \in Threads : pc[t] = "count" => total[t] <= Len(window)
    /\ DensityIsPercentage

(* The window is empty and every density zero initially.                   *)
LEMMA DensityInit == Init => DensityInv
<1> SUFFICES ASSUME Init PROVE DensityInv
  OBVIOUS
<1>1. Len(window) = 0
  BY DEF Init
<1> QED BY <1>1, DetectionAssumption
        DEF Init, DensityInv, DensityIsPercentage, DetectionAssumption

(* A thread's sum is bounded by a window that never shrinks, so the length *)
(* it reads later is at least the sum.                                     *)
LEMMA DensityStep == TypeInv /\ DensityInv /\ [Next]_vars => DensityInv'
<1> SUFFICES ASSUME TypeInv, DensityInv, [Next]_vars PROVE DensityInv'
  OBVIOUS
<1> USE DetectionAssumption
    DEF DetectionAssumption, TypeInv, TypeOK, DensityInv, DensityIsPercentage
<1>0. Len(window) \in Nat
  BY LenProperties
<1>1. ASSUME NEW t \in Threads, Score(t) PROVE DensityInv'
  <2>1. PICK v \in {0, 1} : window' = Bounded(Append(window, v), WindowSize)
    BY <1>1 DEF Score
  <2>2. /\ Len(window') >= Len(window)
        /\ Len(window') > 0
        /\ Len(window') <= WindowSize
        /\ Len(window') \in Nat
    BY <2>1, BoundedAppend, LenProperties
  <2>3. total' = total /\ density' = density
    BY <1>1 DEF Score
  <2>4. \A u \in Threads : pc'[u] = "count" => pc[u] = "count"
    BY <1>1 DEF Score, Goto
  <2>5. \A u \in Threads : total[u] \in Nat
    OBVIOUS
  <2>6. \A u \in Threads : pc'[u] = "count" => total'[u] <= Len(window')
    BY <1>0, <2>2, <2>3, <2>4, <2>5
  <2> QED BY <2>2, <2>3, <2>6
<1>2. ASSUME NEW t \in Threads, SumWindow(t) PROVE DensityInv'
  <2>1. Ones(window) \in Nat /\ Ones(window) <= Len(window)
    BY OnesBound
  <2>2. /\ window' = window /\ density' = density
        /\ pc' = [pc EXCEPT ![t] = "count"] /\ pc[t] = "sum"
        /\ total' = [total EXCEPT ![t] = Ones(window)]
    BY <1>2 DEF SumWindow, Goto
  <2> QED BY <2>1, <2>2
<1>3. ASSUME NEW t \in Threads, Count(t) PROVE DensityInv'
  <2>1. /\ window' = window /\ total' = total /\ pc[t] = "count"
        /\ density' = [density EXCEPT ![t] = <<total[t], Len(window)>>]
    BY <1>3 DEF Count, Goto
  <2>2. \A u \in Threads : pc'[u] \in {"sum", "count"} =>
            pc[u] \in {"sum", "count"} /\ pc'[u] = pc[u]
    BY <1>3 DEF Count, Goto
  <2>3. Len(window) > 0 /\ total[t] <= Len(window)
    BY <2>1
  <2> QED BY <2>1, <2>2, <2>3
<1>4. ASSUME NEW t \in Threads,
             \/ Take(t) \/ ParseFirst(t) \/ ReadDelta(t) \/ StoreSeen(t)
             \/ DecodeSignals(t) \/ DecodeRaises(t) \/ AlertBegin(t)
             \/ AlertIssue(t) \/ RecordRecent(t) \/ WriteLog(t)
             \/ WriteLogFails(t)
      PROVE  DensityInv'
  <2>1. window' = window /\ total' = total /\ density' = density
    BY <1>4 DEF Take, ParseFirst, ReadDelta, StoreSeen, DecodeSignals,
                DecodeRaises, AlertBegin, AlertIssue, RecordRecent, WriteLog,
                WriteLogFails, detectorVars
  <2>2. \A u \in Threads : pc'[u] \in {"sum", "count"} => pc'[u] = pc[u]
    <3>1. CASE Take(t) \/ ParseFirst(t) \/ ReadDelta(t) \/ StoreSeen(t)
      BY <3>1 DEF Take, ParseFirst, ReadDelta, StoreSeen, Goto
    <3>2. CASE DecodeSignals(t) \/ DecodeRaises(t) \/ AlertBegin(t)
      BY <3>2 DEF DecodeSignals, DecodeRaises, AlertBegin, Goto
    <3>3. CASE AlertIssue(t) \/ RecordRecent(t) \/ WriteLog(t) \/ WriteLogFails(t)
      BY <3>3 DEF AlertIssue, RecordRecent, WriteLog, WriteLogFails, Goto
    <3> QED BY <1>4, <3>1, <3>2, <3>3
  <2> QED BY <2>1, <2>2
<1>5. CASE UNCHANGED vars
  BY <1>5 DEF vars, detectorVars
<1> QED BY <1>1, <1>2, <1>3, <1>4, <1>5 DEF Next

(* The threat density is a percentage, whatever the number of handler      *)
(* threads, the window size and the interleaving.                          *)
THEOREM DensityCorrect == Spec => []DensityIsPercentage
<1>1. DensityInv => DensityIsPercentage
  BY DEF DensityInv
<1> QED BY TypeInit, TypeStep, DensityInit, DensityStep, <1>1, PTL DEF Spec

-------------------------------------------------------------------------------
(* How many threads stand at some places changes by what the one that      *)
(* moves leaves and enters.                                                *)
LEMMA CountAt ==
    ASSUME NEW T, IsFiniteSet(T), NEW f, NEW g, NEW t \in T, NEW P,
           \A u \in T \ {t} : g[u] = f[u]
    PROVE  /\ Cardinality({u \in T : f[u] \in P}) \in Nat
           /\ Cardinality({u \in T : g[u] \in P}) =
                Cardinality({u \in T : f[u] \in P})
                  + (IF g[t] \in P THEN 1 ELSE 0) - (IF f[t] \in P THEN 1 ELSE 0)
<1> DEFINE F == {u \in T : f[u] \in P}
           G == {u \in T : g[u] \in P}
           O == {u \in T \ {t} : f[u] \in P}
<1>1. IsFiniteSet(O) /\ Cardinality(O) \in Nat
  <2>1. O \in SUBSET T
    OBVIOUS
  <2> QED BY <2>1, FS_Subset, FS_CardinalityType
<1>2. F = (IF f[t] \in P THEN O \cup {t} ELSE O)
  OBVIOUS
<1>3. G = (IF g[t] \in P THEN O \cup {t} ELSE O)
  OBVIOUS
<1>4. Cardinality(O \cup {t}) = Cardinality(O) + 1
  <2>1. t \notin O
    OBVIOUS
  <2> QED BY <1>1, <2>1, FS_AddElement
<1> HIDE DEF F, G, O
<1>5. Cardinality(F) = Cardinality(O) + (IF f[t] \in P THEN 1 ELSE 0)
  BY <1>1, <1>2, <1>4
<1>6. Cardinality(G) = Cardinality(O) + (IF g[t] \in P THEN 1 ELSE 0)
  BY <1>1, <1>3, <1>4
<1>7. /\ Cardinality(F) \in Nat
      /\ Cardinality(G) = Cardinality(F) + (IF g[t] \in P THEN 1 ELSE 0)
                            - (IF f[t] \in P THEN 1 ELSE 0)
  BY <1>1, <1>5, <1>6
<1> QED BY <1>7 DEF F, G

(* How many threads stand at the places P when f says where each stands.   *)
NumberAt(f, P) == Cardinality({u \in Threads : f[u] \in P})

In(a, P) == IF a \in P THEN 1 ELSE 0

Writing == {"issue", "record", "log"}

(* A thread that moves changes how many stand at some places by what it    *)
(* leaves and enters.                                                      *)
LEMMA Moves ==
    ASSUME TypeInv, NEW t \in Threads, NEW a, NEW b, Goto(t, a, b), NEW P
    PROVE  /\ NumberAt(pc, P) \in Nat
           /\ NumberAt(pc', P) = NumberAt(pc, P) + In(b, P) - In(a, P)
<1>1. pc[t] = a /\ pc'[t] = b /\ \A u \in Threads \ {t} : pc'[u] = pc[u]
  BY DEF Goto, TypeInv, TypeOK
<1>2. IsFiniteSet(Threads)
  BY DetectionAssumption DEF DetectionAssumption
<1> DEFINE f == pc
           g == pc'
<1>3. \A u \in Threads \ {t} : g[u] = f[u]
  BY <1>1
<1> HIDE DEF f, g
<1>4. /\ Cardinality({u \in Threads : f[u] \in P}) \in Nat
      /\ Cardinality({u \in Threads : g[u] \in P}) =
           Cardinality({u \in Threads : f[u] \in P})
             + (IF g[t] \in P THEN 1 ELSE 0) - (IF f[t] \in P THEN 1 ELSE 0)
  BY <1>2, <1>3, CountAt
<1> QED BY <1>1, <1>4 DEF NumberAt, In, f, g

(* Nothing is lost initially: nothing has begun.                           *)
LEMMA NothingLostInit == Init => NothingLost
<1> SUFFICES ASSUME Init PROVE NothingLost
  OBVIOUS
<1>1. \A t \in Threads : pc[t] = "idle"
  BY DEF Init
<1>2. /\ At(Analysing) = {} /\ At({"alert"}) = {}
      /\ At({"issue", "record", "log"}) = {}
  BY <1>1 DEF At, Analysing
<1>3. Cardinality({}) = 0
  BY FS_EmptySet
<1>4. /\ taken = 0 /\ processed = 0 /\ refused = 0 /\ flagged = 0
      /\ alertCounter = 0 /\ unwritten = 0 /\ Len(log) = 0
  BY DEF Init
<1>5. /\ Cardinality(At(Analysing)) = 0
      /\ Cardinality(At({"alert"})) = 0
      /\ Cardinality(At({"issue", "record", "log"})) = 0
  BY <1>2, <1>3, Zenon
<1> HIDE DEF At
<1> QED BY <1>4, <1>5 DEF NothingLost

(* The books stay balanced when the counters move as the groups do.        *)
LEMMA Balance ==
    ASSUME TypeInv, TypeInv', NothingLost, NEW t \in Threads, NEW a, NEW b,
           Goto(t, a, b), NEW i \in Int, NEW j \in Int, NEW k \in Int,
           In(b, Analysing) - In(a, Analysing) = i,
           In(b, {"alert"}) - In(a, {"alert"}) = j,
           In(b, Writing) - In(a, Writing) = k,
           taken' - processed' - refused' = taken - processed - refused + i,
           flagged' - alertCounter' = flagged - alertCounter + j,
           alertCounter' - Len(log') - unwritten' =
              alertCounter - Len(log) - unwritten + k
    PROVE  NothingLost'
<1>1. /\ taken \in Nat /\ processed \in Nat /\ refused \in Nat
      /\ flagged \in Nat /\ alertCounter \in Nat /\ unwritten \in Nat
      /\ Len(log) \in Nat
  BY DetectionAssumption, LenProperties DEF DetectionAssumption, TypeInv, TypeOK
<1>2. /\ taken' \in Nat /\ processed' \in Nat /\ refused' \in Nat
      /\ flagged' \in Nat /\ alertCounter' \in Nat /\ unwritten' \in Nat
      /\ Len(log') \in Nat
  BY DetectionAssumption, LenProperties DEF DetectionAssumption, TypeInv, TypeOK
<1>3. \A P : In(a, P) \in Int /\ In(b, P) \in Int
  BY DEF In
<1>9. /\ i \in Int /\ j \in Int /\ k \in Int
      /\ taken' - processed' - refused' = taken - processed - refused + i
      /\ flagged' - alertCounter' = flagged - alertCounter + j
      /\ alertCounter' - Len(log') - unwritten' =
           alertCounter - Len(log) - unwritten + k
  OBVIOUS
<1>4. \A P : /\ NumberAt(pc, P) \in Nat
             /\ NumberAt(pc', P) = NumberAt(pc, P) + In(b, P) - In(a, P)
  BY Moves
<1>5. /\ taken = processed + refused + NumberAt(pc, Analysing)
      /\ flagged = alertCounter + NumberAt(pc, {"alert"})
      /\ alertCounter = Len(log) + unwritten + NumberAt(pc, Writing)
  BY DEF NothingLost, NumberAt, At, Writing
<1>6. taken' = processed' + refused' + NumberAt(pc', Analysing)
  <2> DEFINE m == NumberAt(pc, Analysing)
             n == NumberAt(pc', Analysing)
             x == In(a, Analysing)
             y == In(b, Analysing)
  <2>1. m \in Nat /\ n = m + y - x /\ x \in Int /\ y \in Int /\ y - x = i
    BY <1>3, <1>4
  <2>2. taken = processed + refused + m
    BY <1>5
  <2> HIDE DEF m, n, x, y
  <2>3. n = m + i /\ m + i \in Int
    BY <2>1, <1>9
  <2>4. taken - processed - refused = m
    BY <1>1, <2>1, <2>2
  <2>5. taken' - processed' - refused' = m + i
    BY <1>9, <2>4
  <2>6. taken' \in Nat /\ processed' \in Nat /\ refused' \in Nat
    BY <1>2
  <2>7. taken' = processed' + refused' + n
    BY ONLY <2>3, <2>5, <2>6
  <2> QED BY <2>7 DEF n
<1>7. flagged' = alertCounter' + NumberAt(pc', {"alert"})
  <2> DEFINE m == NumberAt(pc, {"alert"})
             n == NumberAt(pc', {"alert"})
             x == In(a, {"alert"})
             y == In(b, {"alert"})
  <2>1. m \in Nat /\ n = m + y - x /\ x \in Int /\ y \in Int /\ y - x = j
    BY <1>3, <1>4
  <2>2. flagged = alertCounter + m
    BY <1>5
  <2> HIDE DEF m, n, x, y
  <2>3. n = m + j /\ m + j \in Int
    BY <2>1, <1>9
  <2>4. flagged - alertCounter = m
    BY <1>1, <2>1, <2>2
  <2>5. flagged' - alertCounter' = m + j
    BY <1>9, <2>4
  <2>6. flagged' \in Nat /\ alertCounter' \in Nat
    BY <1>2
  <2>7. flagged' = alertCounter' + n
    BY ONLY <2>3, <2>5, <2>6
  <2> QED BY <2>7 DEF n
<1>8. alertCounter' = Len(log') + unwritten' + NumberAt(pc', Writing)
  <2> DEFINE m == NumberAt(pc, Writing)
             n == NumberAt(pc', Writing)
             x == In(a, Writing)
             y == In(b, Writing)
  <2>1. m \in Nat /\ n = m + y - x /\ x \in Int /\ y \in Int /\ y - x = k
    BY <1>3, <1>4
  <2>2. alertCounter = Len(log) + unwritten + m
    BY <1>5
  <2> HIDE DEF m, n, x, y
  <2>3. n = m + k /\ m + k \in Int
    BY <2>1, <1>9
  <2>4. alertCounter - Len(log) - unwritten = m
    BY <1>1, <2>1, <2>2
  <2>5. alertCounter' - Len(log') - unwritten' = m + k
    BY <1>9, <2>4
  <2>6. alertCounter' \in Nat /\ Len(log') \in Nat /\ unwritten' \in Nat
    BY <1>2
  <2>7. alertCounter' = Len(log') + unwritten' + n
    BY ONLY <2>3, <2>5, <2>6
  <2> QED BY <2>7 DEF n
<1> QED BY <1>6, <1>7, <1>8 DEF NothingLost, NumberAt, At, Writing, Analysing

(* Every step of every thread keeps them balanced.                         *)
LEMMA NothingLostStep ==
    TypeInv /\ TypeInv' /\ NothingLost /\ [Next]_vars => NothingLost'
<1> SUFFICES ASSUME TypeInv, TypeInv', NothingLost, [Next]_vars
             PROVE  NothingLost'
  OBVIOUS
<1> USE DEF In, Analysing, Writing
<1>0. /\ taken \in Nat /\ processed \in Nat /\ refused \in Nat
      /\ flagged \in Nat /\ alertCounter \in Nat /\ unwritten \in Nat
      /\ Len(log) \in Nat /\ log \in Seq(Alert)
      /\ alert \in [Threads -> Alert] /\ verdict \in [Threads -> {0, 1}]
  BY DetectionAssumption, LenProperties DEF DetectionAssumption, TypeInv, TypeOK
<1>1. ASSUME NEW t \in Threads, Take(t) PROVE NothingLost'
  <2>1. /\ Goto(t, "idle", "parse") /\ taken' = taken + 1
        /\ UNCHANGED <<processed, refused, flagged, alertCounter, log, unwritten>>
    BY <1>1 DEF Take, detectorVars, alertVars
  <2> QED BY <1>0, <2>1, Balance
<1>2. ASSUME NEW t \in Threads, NEW a \in Analysing, NEW b \in Analysing,
             Goto(t, a, b),
             UNCHANGED <<taken, processed, refused, flagged, alertCounter, log,
                         unwritten>>
      PROVE  NothingLost'
  BY <1>0, <1>2, Balance
<1>3. ASSUME NEW t \in Threads,
             \/ ParseFirst(t) \/ ReadDelta(t) \/ StoreSeen(t)
             \/ DecodeSignals(t) \/ Score(t) \/ SumWindow(t)
      PROVE  NothingLost'
  <2>1. UNCHANGED <<taken, processed, refused, flagged, alertCounter, log,
                    unwritten>>
    BY <1>3 DEF ParseFirst, ReadDelta, StoreSeen, DecodeSignals, Score,
                SumWindow, clientVars, detectorVars, alertVars
  <2>2. \E a, b \in Analysing : Goto(t, a, b)
    BY <1>3 DEF ParseFirst, ReadDelta, StoreSeen, DecodeSignals, Score, SumWindow
  <2> QED BY <1>2, <2>1, <2>2
<1>4. ASSUME NEW t \in Threads, DecodeRaises(t) PROVE NothingLost'
  <2>1. /\ Goto(t, "decode", "idle") /\ refused' = refused + 1
        /\ UNCHANGED <<taken, processed, flagged, alertCounter, log, unwritten>>
    BY <1>4 DEF DecodeRaises, clientVars, detectorVars, alertVars
  <2> QED BY <1>0, <2>1, Balance
<1>5. ASSUME NEW t \in Threads, Count(t) PROVE NothingLost'
  <2>1. /\ Goto(t, "count", IF verdict[t] = 1 THEN "alert" ELSE "idle")
        /\ processed' = processed + 1 /\ flagged' = flagged + verdict[t]
        /\ UNCHANGED <<taken, refused, alertCounter, log, unwritten>>
    BY <1>5 DEF Count, clientVars, alertVars
  <2>2. CASE verdict[t] = 1
    <3>1. Goto(t, "count", "alert") /\ flagged' = flagged + 1
      BY <2>1, <2>2
    <3>2. /\ taken' - processed' - refused' = taken - processed - refused + (-1)
          /\ flagged' - alertCounter' = flagged - alertCounter + 1
          /\ alertCounter' - Len(log') - unwritten' =
               alertCounter - Len(log) - unwritten + 0
      BY <1>0, <2>1, <3>1
    <3> QED BY <3>1, <3>2, Balance
  <2>3. CASE verdict[t] = 0
    <3>1. Goto(t, "count", "idle") /\ flagged' = flagged
      BY <1>0, <2>1, <2>3
    <3>2. /\ taken' - processed' - refused' = taken - processed - refused + (-1)
          /\ flagged' - alertCounter' = flagged - alertCounter + 0
          /\ alertCounter' - Len(log') - unwritten' =
               alertCounter - Len(log) - unwritten + 0
      BY <1>0, <2>1, <3>1
    <3> QED BY <3>1, <3>2, Balance
  <2> QED BY <1>0, <2>2, <2>3
<1>6. ASSUME NEW t \in Threads, AlertBegin(t) PROVE NothingLost'
  <2>1. /\ Goto(t, "alert", "issue") /\ alertCounter' = alertCounter + 1
        /\ UNCHANGED <<taken, processed, refused, flagged, log, unwritten>>
    BY <1>6 DEF AlertBegin, clientVars, detectorVars
  <2> QED BY <1>0, <2>1, Balance
<1>7. ASSUME NEW t \in Threads, AlertIssue(t) \/ RecordRecent(t)
      PROVE  NothingLost'
  <2>1. UNCHANGED <<taken, processed, refused, flagged, alertCounter, log,
                    unwritten>>
    BY <1>7 DEF AlertIssue, RecordRecent, clientVars, detectorVars
  <2>2. PICK a \in Writing, b \in Writing : Goto(t, a, b)
    BY <1>7 DEF AlertIssue, RecordRecent
  <2> QED BY <1>0, <2>1, <2>2, Balance
<1>8. ASSUME NEW t \in Threads, WriteLog(t) PROVE NothingLost'
  <2>1. /\ Goto(t, "log", "idle") /\ log' = Append(log, alert[t])
        /\ UNCHANGED <<taken, processed, refused, flagged, alertCounter,
                       unwritten>>
    BY <1>8 DEF WriteLog, clientVars, detectorVars
  <2>2. Len(log') = Len(log) + 1
    BY <1>0, <2>1, AppendProperties
  <2> QED BY <1>0, <2>1, <2>2, Balance
<1>9. ASSUME NEW t \in Threads, WriteLogFails(t) PROVE NothingLost'
  <2>1. /\ Goto(t, "log", "idle") /\ unwritten' = unwritten + 1
        /\ UNCHANGED <<taken, processed, refused, flagged, alertCounter, log>>
    BY <1>9 DEF WriteLogFails, clientVars, detectorVars
  <2> QED BY <1>0, <2>1, Balance
<1>10. CASE UNCHANGED vars
  BY <1>10 DEF vars, clientVars, detectorVars, alertVars, NothingLost, At
<1> QED
  BY <1>1, <1>3, <1>4, <1>5, <1>6, <1>7, <1>8, <1>9, <1>10 DEF Next

(* Frames, anomalies and alerts are all accounted for, whatever the number *)
(* of handler threads and their interleaving.                              *)
THEOREM NothingLostCorrect == Spec => []NothingLost
BY TypeInit, TypeStep, NothingLostInit, NothingLostStep, PTL DEF Spec

-------------------------------------------------------------------------------
(* With one client only its thread works, which makes the layers           *)
(* sequential: the order of the log and the names it gives follow from     *)
(* where that thread c stands.                                             *)
Alone(c) == \A t \in Threads : t # c => pc[t] = "idle"

AloneInv == \A c \in Threads : active = {c} => Alone(c)

(* One client is one thread.                                               *)
LEMMA OneClientIs ==
    ASSUME TypeInv, OneClient
    PROVE  \E c \in Threads : active = {c}
<1>1. active \subseteq Threads
  BY DEF TypeInv, TypeOK
<1>2. IsFiniteSet(active)
  BY <1>1, DetectionAssumption, FS_Subset DEF DetectionAssumption
<1>3. PICK c : active = {c}
  BY <1>2, FS_Singleton DEF OneClient
<1> QED BY <1>1, <1>3

LEMMA AloneInit == Init => AloneInv
BY DEF Init, AloneInv, Alone

LEMMA AloneStep == TypeInv /\ AloneInv /\ [Next]_vars => AloneInv'
<1> SUFFICES ASSUME TypeInv, AloneInv, [Next]_vars,
                    NEW c \in Threads, active' = {c}
             PROVE  Alone(c)'
  BY DEF AloneInv
<1>1. CASE UNCHANGED vars
  BY <1>1 DEF vars, clientVars, AloneInv, Alone
<1>2. ASSUME NEW t \in Threads,
             \/ Take(t) \/ ParseFirst(t) \/ ReadDelta(t) \/ StoreSeen(t)
             \/ DecodeSignals(t) \/ DecodeRaises(t) \/ Score(t) \/ SumWindow(t)
             \/ Count(t) \/ AlertBegin(t) \/ AlertIssue(t) \/ RecordRecent(t)
             \/ WriteLog(t) \/ WriteLogFails(t)
      PROVE  Alone(c)'
  <2>1. /\ active' = active
        /\ \A u \in Threads : u # t => pc'[u] = pc[u]
        /\ t \in active \/ pc[t] # "idle"
    <3>1. CASE Take(t) \/ ParseFirst(t) \/ ReadDelta(t) \/ StoreSeen(t)
               \/ DecodeSignals(t) \/ DecodeRaises(t) \/ Score(t)
      BY <3>1 DEF Take, ParseFirst, ReadDelta, StoreSeen, DecodeSignals,
                  DecodeRaises, Score, Goto, clientVars, TypeInv, TypeOK
    <3>2. CASE SumWindow(t) \/ Count(t) \/ AlertBegin(t) \/ AlertIssue(t)
               \/ RecordRecent(t) \/ WriteLog(t) \/ WriteLogFails(t)
      BY <3>2 DEF SumWindow, Count, AlertBegin, AlertIssue, RecordRecent,
                  WriteLog, WriteLogFails, Goto, clientVars, TypeInv, TypeOK
    <3> QED BY <1>2, <3>1, <3>2
  <2>2. active = {c} /\ Alone(c)
    BY <2>1 DEF AloneInv
  <2>3. t = c
    BY <2>1, <2>2 DEF Alone
  <2> QED BY <2>1, <2>2, <2>3 DEF Alone
<1> QED BY <1>1, <1>2 DEF Next

-------------------------------------------------------------------------------
(* The numbers in the log: below the counter while an alert is on its way, *)
(* which bears the counter's value once it is built.                       *)
Increasing == \A i, j \in DOMAIN log : i < j => log[i].number < log[j].number

Numbered(c) ==
    /\ Increasing
    /\ \A i \in DOMAIN log : log[i].number <= alertCounter
    /\ pc[c] \in Writing => \A i \in DOMAIN log : log[i].number < alertCounter
    /\ pc[c] \in {"record", "log"} => alert[c].number = alertCounter

NumbersInv == \A c \in Threads : active = {c} => Numbered(c)

(* What an append to the log does.                                         *)
LEMMA LogAppend ==
    ASSUME TypeInv, NEW t \in Threads, log' = Append(log, alert[t])
    PROVE  /\ Len(log) \in Nat /\ DOMAIN log = 1..Len(log)
           /\ DOMAIN log' = 1..Len(log) + 1
           /\ \A i \in 1..Len(log) : log'[i] = log[i]
           /\ log'[Len(log) + 1] = alert[t]
<1>1. log \in Seq(Alert) /\ alert[t] \in Alert
  BY DEF TypeInv, TypeOK
<1>2. Len(log) \in Nat /\ DOMAIN log = 1..Len(log)
  BY <1>1, LenProperties
<1>3. log' \in Seq(Alert) /\ Len(log') = Len(log) + 1
  BY <1>1, AppendProperties
<1>4. DOMAIN log' = 1..Len(log')
  BY <1>3, LenProperties
<1> QED BY <1>1, <1>2, <1>3, <1>4, AppendProperties

LEMMA NumbersStep ==
    TypeInv /\ AloneInv /\ NumbersInv /\ [Next]_vars => NumbersInv'
<1> SUFFICES ASSUME TypeInv, AloneInv, NumbersInv, [Next]_vars,
                    NEW c \in Threads, active' = {c}
             PROVE  Numbered(c)'
  BY DEF NumbersInv
<1>1. /\ alertCounter \in Nat /\ DOMAIN pc = Threads
      /\ alert \in [Threads -> Alert]
      /\ \A i \in DOMAIN log : log[i].number \in Nat
  <2>1. log \in Seq(Alert) /\ DOMAIN log = 1..Len(log)
    BY LenProperties DEF TypeInv, TypeOK
  <2>2. \A i \in DOMAIN log : log[i] \in Alert
    BY <2>1, ElementOfSeq
  <2>3. \A i \in DOMAIN log : log[i].number \in Nat
    BY <2>2 DEF Alert
  <2> QED BY <2>3 DEF TypeInv, TypeOK
<1>2. active = {c} => Numbered(c) /\ Alone(c)
  BY DEF NumbersInv, AloneInv
<1>3. CASE UNCHANGED vars
  BY <1>2, <1>3
     DEF vars, clientVars, alertVars, Numbered, Increasing, Writing
<1>4. ASSUME NEW t \in Threads,
             \/ Take(t) \/ ParseFirst(t) \/ ReadDelta(t) \/ StoreSeen(t)
             \/ DecodeSignals(t) \/ DecodeRaises(t) \/ Score(t) \/ SumWindow(t)
             \/ Count(t)
      PROVE  Numbered(c)'
  <2>1. /\ active' = active /\ UNCHANGED alertVars
        /\ pc'[c] = pc[c] \/ pc'[c] \notin Writing
    <3>1. CASE Take(t) \/ ParseFirst(t) \/ ReadDelta(t) \/ StoreSeen(t)
      BY <1>1, <3>1 DEF Take, ParseFirst, ReadDelta, StoreSeen, Goto,
                        clientVars, Writing
    <3>2. CASE DecodeSignals(t) \/ DecodeRaises(t) \/ Score(t)
      BY <1>1, <3>2 DEF DecodeSignals, DecodeRaises, Score, Goto, clientVars,
                        Writing
    <3>3. CASE SumWindow(t) \/ Count(t)
      BY <1>1, <3>3 DEF SumWindow, Count, Goto, clientVars, Writing
    <3> QED BY <1>4, <3>1, <3>2, <3>3
  <2> QED BY <1>2, <2>1 DEF alertVars, Numbered, Increasing, Writing
<1>5. ASSUME NEW t \in Threads, AlertBegin(t) PROVE Numbered(c)'
  <2>1. /\ active' = active /\ log' = log /\ pc[t] = "alert"
        /\ alertCounter' = alertCounter + 1
        /\ pc' = [pc EXCEPT ![t] = "issue"]
    BY <1>5 DEF AlertBegin, Goto, clientVars
  <2>2. t = c
    BY <1>2, <2>1 DEF Alone
  <2>3. \A i \in DOMAIN log : log[i].number < alertCounter + 1
    BY <1>1, <1>2, <2>1 DEF Numbered
  <2>4. pc'[c] = "issue"
    BY <1>1, <2>1, <2>2
  <2> QED BY <1>1, <1>2, <2>1, <2>3, <2>4 DEF Numbered, Increasing
<1>6. ASSUME NEW t \in Threads, AlertIssue(t) PROVE Numbered(c)'
  <2>1. /\ active' = active /\ log' = log /\ pc[t] = "issue"
        /\ alertCounter' = alertCounter
        /\ alert'[t].number = alertCounter
    BY <1>1, <1>6 DEF AlertIssue, Goto, clientVars
  <2>2. t = c
    BY <1>2, <2>1 DEF Alone
  <2> QED BY <1>2, <2>1, <2>2 DEF Numbered, Increasing, Writing
<1>7. ASSUME NEW t \in Threads, RecordRecent(t) PROVE Numbered(c)'
  <2>1. /\ active' = active /\ log' = log /\ pc[t] = "record"
        /\ alertCounter' = alertCounter /\ alert' = alert
    BY <1>7 DEF RecordRecent, Goto, clientVars
  <2>2. t = c
    BY <1>2, <2>1 DEF Alone
  <2> QED BY <1>2, <2>1, <2>2 DEF Numbered, Increasing, Writing
<1>8. ASSUME NEW t \in Threads, WriteLog(t) PROVE Numbered(c)'
  <2>1. /\ active' = active /\ log' = Append(log, alert[t]) /\ pc[t] = "log"
        /\ alertCounter' = alertCounter
        /\ pc' = [pc EXCEPT ![t] = "idle"]
    BY <1>8 DEF WriteLog, Goto, clientVars
  <2>2. t = c
    BY <1>2, <2>1 DEF Alone
  <2>3. alert[c].number = alertCounter
        /\ \A i \in DOMAIN log : log[i].number < alertCounter
    BY <1>2, <2>1, <2>2 DEF Numbered, Writing
  <2>4. Increasing'
    <3>1. SUFFICES ASSUME NEW i \in DOMAIN log', NEW j \in DOMAIN log', i < j
                   PROVE  log'[i].number < log'[j].number
      BY DEF Increasing
    <3>2. i \in DOMAIN log /\ log'[i] = log[i]
      BY <2>1, <3>1, LogAppend
    <3>3. CASE j \in DOMAIN log
      BY <1>2, <2>1, <3>1, <3>2, <3>3, LogAppend DEF Numbered, Increasing
    <3>4. CASE j \notin DOMAIN log
      <4>1. log'[j] = alert[c]
        BY <2>1, <2>2, <3>4, LogAppend
      <4> QED BY <2>3, <3>2, <4>1
    <3> QED BY <3>3, <3>4
  <2>5. \A i \in DOMAIN log' : log'[i].number <= alertCounter
    <3>1. TAKE i \in DOMAIN log'
    <3>2. CASE i \in DOMAIN log
      BY <1>2, <2>1, <3>2, LogAppend DEF Numbered
    <3>3. CASE i \notin DOMAIN log
      <4>1. log'[i] = alert[c]
        BY <2>1, <2>2, <3>1, <3>3, LogAppend
      <4> QED BY <1>1, <2>3, <4>1
    <3> QED BY <3>2, <3>3
  <2>6. pc'[c] = "idle"
    BY <1>1, <2>1, <2>2
  <2> QED BY <2>1, <2>4, <2>5, <2>6 DEF Numbered, Writing
<1>9. ASSUME NEW t \in Threads, WriteLogFails(t) PROVE Numbered(c)'
  <2>1. /\ active' = active /\ log' = log /\ alertCounter' = alertCounter
        /\ pc[t] = "log" /\ pc' = [pc EXCEPT ![t] = "idle"]
    BY <1>9 DEF WriteLogFails, Goto, clientVars
  <2>2. t = c
    BY <1>2, <2>1 DEF Alone
  <2>3. pc'[c] = "idle"
    BY <1>1, <2>1, <2>2
  <2> QED BY <1>2, <2>1, <2>3 DEF Numbered, Increasing, Writing
<1> QED BY <1>3, <1>4, <1>5, <1>6, <1>7, <1>8, <1>9 DEF Next

(* With one client the log is in the order of the alert numbers and names  *)
(* none twice.                                                             *)
THEOREM LogInOrder == Spec => []LogNumbersIncrease
<1>1. Init => NumbersInv
  <2>1. Init => DOMAIN log = {} /\ \A t \in Threads : pc[t] = "idle"
    BY DEF Init
  <2> QED BY <2>1 DEF NumbersInv, Numbered, Increasing, Writing
<1>2. TypeInv /\ NumbersInv => LogNumbersIncrease
  BY OneClientIs DEF NumbersInv, Numbered, Increasing, LogNumbersIncrease
<1> QED BY <1>1, <1>2, TypeInit, TypeStep, AloneInit, AloneStep, NumbersStep,
           PTL DEF Spec

-------------------------------------------------------------------------------
(* The names of the alerts.  While its frame is in the parser the client   *)
(* may be ahead of last_seen_per_id by that one frame; after it the gap    *)
(* the parser computed is the true one, which the classifier then reads.   *)
Named(a) ==
    a.kind = "DOS_BUS_FLOOD" <=> a.id = ZeroId \/ a.gap = Never \/ a.gap < FloodMs

Measured == {"store", "decode", "score", "sum", "count", "alert", "issue"}

Clocks(c) ==
    /\ \A i \in Ids : arrived[i] # Never => arrived[i] <= cur[c].ts
    /\ \A i \in Ids : \/ pc[c] \in {"parse", "store"} /\ i = cur[c].id
                      \/ lastSeen[i] = arrived[i]
    /\ pc[c] \in {"parse", "store"} => arrived[cur[c].id] = cur[c].ts

Gaps(c) ==
    LET before == lastSeen[cur[c].id]
    IN  /\ pc[c] = "parse" =>
              IF before = Never THEN gap[c] = Never
              ELSE before <= cur[c].ts /\ gap[c] = cur[c].ts - before
        /\ pc[c] \in Measured =>
              IF gap[c] = Never THEN delta[c] = 0 ELSE delta[c] = gap[c]

NamesInv ==
    \A c \in Threads : active = {c} =>
        /\ Clocks(c) /\ Gaps(c)
        /\ pc[c] \in {"record", "log"} => Named(alert[c])
        /\ \A i \in DOMAIN log : Named(log[i])

LEMMA NamesStep == TypeInv /\ AloneInv /\ NamesInv /\ [Next]_vars => NamesInv'
<1> DEFINE Names(c) == /\ Clocks(c) /\ Gaps(c)
                       /\ pc[c] \in {"record", "log"} => Named(alert[c])
                       /\ \A i \in DOMAIN log : Named(log[i])
<1> SUFFICES ASSUME TypeInv, AloneInv, NamesInv, [Next]_vars,
                    NEW c \in Threads, active' = {c}
             PROVE  Names(c)'
  BY DEF NamesInv
<1>1. active = {c} => Names(c) /\ Alone(c)
  BY DEF NamesInv, AloneInv
<1>2. /\ DOMAIN pc = Threads /\ DOMAIN cur = Threads /\ DOMAIN gap = Threads
      /\ DOMAIN delta = Threads /\ DOMAIN alert = Threads
      /\ DOMAIN arrived = Ids /\ DOMAIN lastSeen = Ids
      /\ pc[c] # "idle" => cur[c].id \in Ids /\ cur[c].ts \in 0..MaxTime
      /\ cur[c].ts \in 0..MaxTime
      /\ \A i \in Ids : arrived[i] \in 0..MaxTime \cup {Never}
      /\ \A i \in Ids : lastSeen[i] \in 0..MaxTime \cup {Never}
      /\ MaxTime \in Nat /\ FloodMs \in Nat \ {0} /\ Never \notin Nat
  BY DetectionAssumption
     DEF TypeInv, TypeOK, Frame, NoFrame, DetectionAssumption
<1> HIDE DEF Names
<1>3. CASE UNCHANGED vars
  BY <1>1, <1>3 DEF vars, clientVars, parserVars, alertVars, Names, Clocks,
                    Gaps, Named
<1>4. ASSUME NEW t \in Threads, Take(t) PROVE Names(c)'
  <2>1. PICK f \in Frame :
          /\ f.ts >= cur[t].ts
          /\ cur' = [cur EXCEPT ![t] = f]
          /\ gap' = [gap EXCEPT ![t] = IF arrived[f.id] = Never THEN Never
                                       ELSE f.ts - arrived[f.id]]
          /\ arrived' = [arrived EXCEPT ![f.id] = f.ts]
    BY <1>4 DEF Take
  <2>2. /\ t \in active /\ active' = active /\ pc[t] = "idle"
        /\ pc' = [pc EXCEPT ![t] = "parse"]
        /\ UNCHANGED <<lastSeen, log>>
    BY <1>4 DEF Take, Goto, parserVars, alertVars
  <2>3. t = c /\ f.id \in Ids /\ f.ts \in 0..MaxTime
    BY <2>2 DEF Frame
  <2>4. /\ pc'[c] = "parse" /\ cur'[c] = f /\ arrived'[f.id] = f.ts
        /\ \A i \in Ids : i # f.id => arrived'[i] = arrived[i]
        /\ gap'[c] = IF arrived[f.id] = Never THEN Never
                     ELSE f.ts - arrived[f.id]
    BY <1>2, <2>1, <2>2, <2>3
  <2>5. /\ \A i \in Ids : arrived[i] # Never => arrived[i] <= cur[c].ts
        /\ \A i \in Ids : lastSeen[i] = arrived[i]
    BY <1>1, <2>2, <2>3 DEF Names, Clocks
  <2>6. Clocks(c)'
    <3>1. ASSUME NEW i \in Ids, arrived'[i] # Never
          PROVE  arrived'[i] <= f.ts
      <4>1. CASE i = f.id
        BY <1>2, <2>3, <2>4, <4>1
      <4>2. CASE i # f.id
        <5>1. arrived'[i] = arrived[i] /\ arrived[i] \in 0..MaxTime
          BY <1>2, <2>4, <3>1, <4>2
        <5>2. arrived[i] <= cur[c].ts
          BY <2>5, <3>1, <5>1
        <5> QED BY <1>2, <2>1, <2>3, <5>1, <5>2
      <4> QED BY <4>1, <4>2
    <3>2. \A i \in Ids : i = f.id \/ lastSeen'[i] = arrived'[i]
      BY <2>2, <2>4, <2>5
    <3> QED BY <2>4, <3>1, <3>2 DEF Clocks
  <2>7. Gaps(c)'
    <3>1. lastSeen'[f.id] = arrived[f.id]
      BY <2>2, <2>3, <2>5
    <3>2. CASE arrived[f.id] = Never
      BY <2>4, <3>1, <3>2 DEF Gaps, Measured
    <3>3. CASE arrived[f.id] # Never
      <4>1. arrived[f.id] <= f.ts
        BY <1>2, <2>1, <2>3, <2>5, <3>3
      <4> QED BY <2>4, <3>1, <3>3, <4>1 DEF Gaps, Measured
    <3> QED BY <3>2, <3>3
  <2> QED BY <1>1, <2>2, <2>3, <2>4, <2>6, <2>7 DEF Names, Named
<1>5. ASSUME NEW t \in Threads, ParseFirst(t) \/ ReadDelta(t) \/ StoreSeen(t)
      PROVE  Names(c)'
  <2>1. /\ active' = active /\ UNCHANGED <<arrived, cur, gap, log>>
        /\ pc[t] \in {"parse", "store"}
        /\ \A u \in Threads : pc'[u] \in {"record", "log"} => pc'[u] = pc[u]
    BY <1>2, <1>5 DEF ParseFirst, ReadDelta, StoreSeen, Goto, clientVars,
                      alertVars
  <2>2. t = c /\ Names(c)
    BY <1>1, <2>1 DEF Alone
  <2>3. /\ \A i \in DOMAIN log' : Named(log'[i])
        /\ pc'[c] \notin {"record", "log"}
    BY <2>1, <2>2 DEF Names, Named
  <2>4. CASE ParseFirst(c)
    <3>1. /\ pc[c] = "parse" /\ pc'[c] = "decode" /\ delta'[c] = 0
          /\ lastSeen[cur[c].id] = Never
          /\ lastSeen' = [lastSeen EXCEPT ![cur[c].id] = cur[c].ts]
      BY <1>2, <2>4 DEF ParseFirst, Goto
    <3>2. gap[c] = Never /\ arrived[cur[c].id] = cur[c].ts
      BY <2>2, <3>1 DEF Names, Gaps, Clocks
    <3>3. \A i \in Ids : lastSeen'[i] = arrived[i]
      BY <1>2, <2>2, <3>1, <3>2 DEF Names, Clocks
    <3>4. Clocks(c)'
      BY <2>1, <2>2, <3>1, <3>3 DEF Names, Clocks
    <3>5. Gaps(c)'
      BY <2>1, <3>1, <3>2 DEF Gaps
    <3> QED BY <2>3, <3>4, <3>5 DEF Names
  <2>5. CASE ReadDelta(c)
    <3>1. /\ pc[c] = "parse" /\ pc'[c] = "store"
          /\ lastSeen[cur[c].id] # Never /\ lastSeen' = lastSeen
          /\ delta'[c] = Larger(0, cur[c].ts - lastSeen[cur[c].id])
      BY <1>2, <2>5 DEF ReadDelta, Goto
    <3>2. /\ lastSeen[cur[c].id] <= cur[c].ts
          /\ gap[c] = cur[c].ts - lastSeen[cur[c].id]
      BY <2>2, <3>1 DEF Names, Gaps
    <3>3. lastSeen[cur[c].id] \in 0..MaxTime /\ cur[c].ts \in 0..MaxTime
      BY <1>2, <3>1
    <3>4. gap[c] \in Nat /\ delta'[c] = gap[c]
      BY <1>2, <3>1, <3>2, <3>3 DEF Larger
    <3>5. Clocks(c)'
      BY <2>1, <2>2, <3>1 DEF Names, Clocks
    <3>6. Gaps(c)'
      BY <1>2, <2>1, <3>1, <3>4 DEF Gaps
    <3> QED BY <2>3, <3>5, <3>6 DEF Names
  <2>6. CASE StoreSeen(c)
    <3>1. /\ pc[c] = "store" /\ pc'[c] = "decode" /\ delta' = delta
          /\ lastSeen' = [lastSeen EXCEPT ![cur[c].id] = cur[c].ts]
      BY <1>2, <2>6 DEF StoreSeen, Goto
    <3>2. arrived[cur[c].id] = cur[c].ts
      BY <2>2, <3>1 DEF Names, Clocks
    <3>3. \A i \in Ids : lastSeen'[i] = arrived[i]
      BY <1>2, <2>2, <3>1, <3>2 DEF Names, Clocks
    <3>4. Clocks(c)'
      BY <2>1, <2>2, <3>1, <3>3 DEF Names, Clocks
    <3>5. Gaps(c)'
      BY <2>1, <2>2, <3>1 DEF Names, Gaps, Measured
    <3> QED BY <2>3, <3>4, <3>5 DEF Names
  <2> QED BY <1>5, <2>2, <2>4, <2>5, <2>6
<1>6. ASSUME NEW t \in Threads,
             \/ DecodeSignals(t) \/ DecodeRaises(t) \/ Score(t) \/ SumWindow(t)
             \/ Count(t) \/ AlertBegin(t) \/ RecordRecent(t) \/ WriteLogFails(t)
      PROVE  Names(c)'
  <2>1. /\ active' = active
        /\ UNCHANGED <<arrived, cur, gap, lastSeen, delta, alert, log>>
    BY <1>6 DEF DecodeSignals, DecodeRaises, Score, SumWindow, Count,
                AlertBegin, RecordRecent, WriteLogFails, clientVars,
                parserVars, alertVars
  <2>2. /\ pc[t] \notin {"idle", "parse", "store"}
        /\ pc'[t] \notin {"parse", "store"}
        /\ pc'[t] \in Measured => pc[t] \in Measured
        /\ pc'[t] \in {"record", "log"} => pc[t] \in {"record", "log"}
    <3>1. CASE DecodeSignals(t) \/ DecodeRaises(t) \/ Score(t) \/ SumWindow(t)
      BY <1>2, <3>1 DEF DecodeSignals, DecodeRaises, Score, SumWindow, Goto,
                        Measured
    <3>2. CASE Count(t) \/ AlertBegin(t) \/ RecordRecent(t) \/ WriteLogFails(t)
      BY <1>2, <3>2 DEF Count, AlertBegin, RecordRecent, WriteLogFails, Goto,
                        Measured
    <3> QED BY <1>6, <3>1, <3>2
  <2>3. t = c /\ Names(c)
    BY <1>1, <2>1, <2>2 DEF Alone
  <2>4. Clocks(c)'
    BY <2>1, <2>2, <2>3 DEF Names, Clocks
  <2>5. Gaps(c)'
    BY <2>1, <2>2, <2>3 DEF Names, Gaps
  <2> QED BY <2>1, <2>2, <2>3, <2>4, <2>5 DEF Names, Named
<1>7. ASSUME NEW t \in Threads, AlertIssue(t) PROVE Names(c)'
  <2>1. /\ active' = active /\ pc[t] = "issue"
        /\ UNCHANGED <<arrived, cur, gap, lastSeen, delta, log>>
        /\ pc' = [pc EXCEPT ![t] = "record"]
        /\ alert' = [alert EXCEPT ![t] =
                        [number |-> alertCounter, id |-> cur[t].id,
                         kind |-> Classify(cur[t], delta[t]), gap |-> gap[t]]]
    BY <1>7 DEF AlertIssue, Goto, clientVars, parserVars
  <2>2. t = c /\ Names(c)
    BY <1>1, <2>1 DEF Alone
  <2>3. pc'[c] = "record"
    BY <1>2, <2>1, <2>2
  <2>4. /\ alert'[c].id = cur[c].id /\ alert'[c].gap = gap[c]
        /\ alert'[c].kind = Classify(cur[c], delta[c])
    BY <1>2, <2>1, <2>2
  <2>5. IF gap[c] = Never THEN delta[c] = 0 ELSE delta[c] = gap[c]
    BY <2>1, <2>2 DEF Names, Gaps, Measured
  <2>6. alert'[c].kind = "DOS_BUS_FLOOD" <=>
            cur[c].id = ZeroId \/ delta[c] < FloodMs
    BY <2>4 DEF Classify
  <2>7. Named(alert'[c])
    <3>1. CASE gap[c] = Never
      BY <1>2, <2>4, <2>5, <2>6, <3>1 DEF Named
    <3>2. CASE gap[c] # Never
      BY <2>4, <2>5, <2>6, <3>2 DEF Named
    <3> QED BY <3>1, <3>2
  <2>8. Clocks(c)' /\ Gaps(c)'
    BY <2>1, <2>2, <2>3 DEF Names, Clocks, Gaps, Measured
  <2> QED BY <2>1, <2>2, <2>7, <2>8 DEF Names, Named
<1>8. ASSUME NEW t \in Threads, WriteLog(t) PROVE Names(c)'
  <2>1. /\ active' = active /\ pc[t] = "log"
        /\ UNCHANGED <<arrived, cur, gap, lastSeen, delta, alert>>
        /\ pc' = [pc EXCEPT ![t] = "idle"]
        /\ log' = Append(log, alert[t])
    BY <1>8 DEF WriteLog, Goto, clientVars, parserVars
  <2>2. t = c /\ Names(c)
    BY <1>1, <2>1 DEF Alone
  <2>3. pc'[c] = "idle"
    BY <1>2, <2>1, <2>2
  <2>4. \A i \in DOMAIN log' : Named(log'[i])
    <3>1. TAKE i \in DOMAIN log'
    <3>2. CASE i \in DOMAIN log
      <4>1. log'[i] = log[i]
        BY <2>1, <3>2, LogAppend
      <4> QED BY <2>2, <3>2, <4>1 DEF Names
    <3>3. CASE i \notin DOMAIN log
      <4>1. log'[i] = alert[c]
        BY <2>1, <2>2, <3>1, <3>3, LogAppend
      <4> QED BY <2>1, <2>2, <4>1 DEF Names
    <3> QED BY <3>2, <3>3
  <2>5. Clocks(c)' /\ Gaps(c)'
    BY <2>1, <2>2, <2>3 DEF Names, Clocks, Gaps, Measured
  <2> QED BY <2>3, <2>4, <2>5 DEF Names, Named
<1> QED BY <1>3, <1>4, <1>5, <1>6, <1>7, <1>8 DEF Next

(* With one client exactly the anomalous frames of id 0x000, the first of  *)
(* an id and those that follow another within the threshold are logged as  *)
(* floods.                                                                 *)
THEOREM FloodsAreFastOrFirst == Spec => []FloodIffFastOrFirst
<1>1. Init => NamesInv
  <2>1. Init => /\ DOMAIN log = {}
                /\ \A t \in Threads : pc[t] = "idle"
                /\ \A i \in Ids : arrived[i] = Never /\ lastSeen[i] = Never
    BY DEF Init
  <2> QED BY <2>1 DEF NamesInv, Clocks, Gaps, Measured
<1>2. TypeInv /\ NamesInv => FloodIffFastOrFirst
  BY OneClientIs DEF NamesInv, Named, FloodIffFastOrFirst
<1> QED BY <1>1, <1>2, TypeInit, TypeStep, AloneInit, AloneStep, NamesStep,
           PTL DEF Spec

==============================================================================

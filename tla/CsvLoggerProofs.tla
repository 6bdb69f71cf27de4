--------------------------- MODULE CsvLoggerProofs ---------------------------
(***************************************************************************)
(* Theorems about CsvLogger for any number of threads, sessions, rows and  *)
(* failing writes, and any buffer size.                                    *)
(***************************************************************************)
EXTENDS CsvLogger, SequenceTheorems, TLAPS

Item == Row \cup {Header}

(* Only a running logger is called, only a running or starting one is in a *)
(* session, and a file that has been opened or has content exists.         *)
TypeInv ==
    /\ TypeOK
    /\ life # "down" => session \in 1..MaxSessions
    /\ life # "down" \/ file # <<>> => exists
    /\ \A t \in Threads : pc[t] # "idle" => life = "up"

-------------------------------------------------------------------------------
LEMMA RowsAreItems == Seq(Row) \subseteq Seq(Item) /\ Header \notin Row
<1>1. Row \subseteq Item
  BY DEF Item
<1>2. Header \notin Row
  BY DEF Header, Row
<1> QED BY <1>1, <1>2

(* A part of a sequence, also an empty one.                                *)
LEMMA PartType ==
    ASSUME NEW S, NEW s \in Seq(S), NEW a \in Nat \ {0}, NEW b \in 0..Len(s)
    PROVE  SubSeq(s, a, b) \in Seq(S)
<1>1. \A i \in a..b : s[i] \in S
  <2>1. SUFFICES ASSUME NEW i \in a..b PROVE s[i] \in S
    OBVIOUS
  <2>2. i \in 1..Len(s)
    BY LenProperties
  <2> QED BY <2>2, ElementOfSeq
<1> QED BY <1>1, SubSeqProperties, LenProperties

Places == {"idle", "lock", "flush", "rows", "disk", "clear", "close", "unlock"}
Names == {"none", "log", "close", "flush"}

(* A step of thread t leads it to a place and leaves the others alone.     *)
LEMMA GotoType ==
    ASSUME TypeOK, NEW t \in Threads, NEW place \in Places, Goto(t, place)
    PROVE  /\ pc' \in [Threads -> Places] /\ op' \in [Threads -> Names]
           /\ pc'[t] = place
           /\ \A u \in Threads : u # t => pc'[u] = pc[u] /\ op'[u] = op[u]
           /\ place # "idle" => op' = op
BY DEF Goto, TypeOK, Places, Names

LEMMA AfterTypes ==
    \A t \in Threads : AfterFlush(t) \in Places /\ AfterRaise(t) \in Places
BY DEF AfterFlush, AfterRaise, Places

LEMMA TypeInit == Init => TypeInv
<1> SUFFICES ASSUME Init PROVE TypeInv
  OBVIOUS
<1>1. <<>> \in Seq(Row) /\ <<>> \in Seq(Row \cup {Header})
  OBVIOUS
<1>2. 0 \in 0..MaxSessions /\ 0 \in Nat /\ 1 \in Nat \ {0}
  BY LoggerAssumption DEF LoggerAssumption
<1>3. /\ op \in [Threads -> {"none", "log", "close", "flush"}]
      /\ pc \in [Threads -> {"idle", "lock", "flush", "rows", "disk", "clear",
                             "close", "unlock"}]
      /\ next \in [Threads -> Nat \ {0}]
  BY <1>2 DEF Init
<1>4. TypeOK
  BY <1>1, <1>2, <1>3 DEF Init, TypeOK
<1> QED BY <1>4 DEF TypeInv, Init

(* What the thread steps have in common.                                   *)
LEMMA ThreadStepType ==
    ASSUME TypeInv, NEW t \in Threads, NEW place \in Places, Goto(t, place),
           life = "up", life' = life, session' = session, exists' = exists,
           file' \in Seq(Item), isOpen' \in BOOLEAN, pending' \in Seq(Item),
           buffer' \in Seq(Row), total' \in Nat,
           holder' \in Threads \cup {NoOne}, next' \in [Threads -> Nat \ {0}],
           failures' \in Nat, raced' \in BOOLEAN, closedAt' \in Nat
    PROVE  TypeInv'
<1>1. TypeOK
  BY DEF TypeInv
<1>2. pc' \in [Threads -> Places] /\ op' \in [Threads -> Names]
  BY <1>1, GotoType
<1>3. TypeOK'
  BY <1>1, <1>2 DEF TypeOK, Item, Places, Names
<1> QED BY <1>3 DEF TypeInv

LEMMA TypeStep == TypeInv /\ [Next]_vars => TypeInv'
<1> SUFFICES ASSUME TypeInv, [Next]_vars PROVE TypeInv'
  OBVIOUS
<1>1. TypeOK
  BY DEF TypeInv
<1>2. /\ file \in Seq(Item) /\ pending \in Seq(Item) /\ buffer \in Seq(Row)
      /\ Len(pending) \in Nat /\ <<>> \in Seq(Item) /\ <<>> \in Seq(Row)
      /\ <<Header>> \in Seq(Item)
  BY <1>1, LenProperties DEF TypeOK, Item
<1>3. /\ exists \in BOOLEAN /\ isOpen \in BOOLEAN /\ total \in Nat
      /\ holder \in Threads \cup {NoOne} /\ next \in [Threads -> Nat \ {0}]
      /\ failures \in Nat /\ raced \in BOOLEAN /\ closedAt \in Nat
  BY <1>1 DEF TypeOK
<1>4. file \o pending \in Seq(Item)
  BY <1>2, ConcatProperties
<1>5. ASSUME NEW k \in 0..Len(pending), NEW m \in 0..Len(pending)
      PROVE  /\ file \o SubSeq(pending, 1, k) \in Seq(Item)
             /\ SubSeq(pending, k + 1, m) \in Seq(Item)
  <2>1. SubSeq(pending, 1, k) \in Seq(Item)
    BY <1>2, PartType
  <2>2. k + 1 \in Nat \ {0}
    BY <1>2
  <2>3. SubSeq(pending, k + 1, m) \in Seq(Item)
    BY <1>2, <2>2, PartType
  <2> QED BY <1>2, <2>1, <2>3, ConcatProperties
<1>6. CASE OpenFile
  <2>1. session' \in 0..MaxSessions /\ session' \in 1..MaxSessions
    BY <1>1, <1>6, LoggerAssumption DEF OpenFile, LoggerAssumption, TypeOK
  <2>2. pending' \in Seq(Item)
    BY <1>2, <1>6 DEF OpenFile
  <2>3. TypeOK'
    BY <1>1, <1>2, <1>6, <2>1, <2>2 DEF OpenFile, callVars, TypeOK, Item
  <2> QED BY <1>6, <2>1, <2>3 DEF OpenFile, callVars, TypeInv
<1>7. CASE HeaderFlushed
  <2>1. TypeOK'
    BY <1>1, <1>2, <1>4, <1>7
       DEF HeaderFlushed, callVars, historyVars, TypeOK, Item
  <2> QED BY <1>7, <2>1 DEF HeaderFlushed, callVars, TypeInv
<1>8. CASE Crash
  <2>1. file' \in Seq(Item)
    BY <1>5, <1>8 DEF Crash
  <2>2. /\ op' \in [Threads -> {"none", "log", "close", "flush"}]
        /\ pc' \in [Threads -> {"idle", "lock", "flush", "rows", "disk",
                                "clear", "close", "unlock"}]
        /\ next' \in [Threads -> Nat \ {0}]
    BY <1>8 DEF Crash
  <2>3. TypeOK'
    BY <1>1, <1>2, <1>8, <2>1, <2>2 DEF Crash, historyVars, TypeOK, Item
  <2> QED BY <1>8, <2>3 DEF Crash, TypeInv
<1>9. ASSUME NEW t \in Threads, CallLog(t) \/ CallClose(t) \/ CallFlush(t)
      PROVE  TypeInv'
  <2>1. PICK name \in {"log", "close", "flush"}, place \in {"lock", "flush"} :
            Call(t, name, place)
    BY <1>9 DEF CallLog, CallClose, CallFlush
  <2>2. raced' \in BOOLEAN
    BY <2>1 DEF Call
  <2>3. TypeOK'
    BY <1>1, <2>1, <2>2 DEF Call, TypeOK, fileVars, objectVars
  <2>4. life' = "up" /\ session' = session /\ life = "up"
    BY <2>1 DEF Call, objectVars
  <2>5. exists' = exists
    BY <2>1 DEF Call, fileVars
  <2> QED BY <2>3, <2>4, <2>5 DEF TypeInv
<1>10. ASSUME NEW t \in Threads, pc[t] # "idle" PROVE life = "up"
  BY <1>10 DEF TypeInv
<1> USE DEF Places
<1>11. ASSUME NEW t \in Threads, LogEnters(t) PROVE TypeInv'
  <2>1. buffer' \in Seq(Row)
    <3>1. <<session, total + 1>> \in Row
      <4>1. total + 1 \in Nat \ {0}
        BY <1>3
      <4>2. session \in 1..MaxSessions
        BY <1>10, <1>11 DEF LogEnters, TypeInv
      <4> QED BY <4>1, <4>2 DEF Row
    <3> QED BY <1>2, <1>11, <3>1, AppendProperties DEF LogEnters
  <2>2. PICK place \in Places : Goto(t, place)
    BY <1>11 DEF LogEnters
  <2>3. total' \in Nat /\ holder' \in Threads \cup {NoOne}
    BY <1>3, <1>11 DEF LogEnters
  <2>4. /\ life = "up" /\ UNCHANGED <<fileVars, objectVars, pending, next,
                                    historyVars>>
    BY <1>10, <1>11 DEF LogEnters
  <2> QED BY ONLY TypeInv, <1>2, <1>3, <2>1, <2>2, <2>3, <2>4, ThreadStepType
          DEF fileVars, objectVars, historyVars
<1>12. ASSUME NEW t \in Threads, CloseEnters(t) PROVE TypeInv'
  BY <1>2, <1>3, <1>10, <1>12, ThreadStepType
     DEF CloseEnters, fileVars, objectVars, historyVars
<1>13. ASSUME NEW t \in Threads, FlushBegins(t) PROVE TypeInv'
  <2>1. PICK place \in Places : Goto(t, place)
    BY <1>13, AfterTypes DEF FlushBegins
  <2> QED BY <1>2, <1>3, <1>10, <1>13, <2>1, ThreadStepType
          DEF FlushBegins, fileVars, objectVars, historyVars
<1>14. ASSUME NEW t \in Threads, WriteRow(t) PROVE TypeInv'
  <2>1. next[t] \in 1..Len(buffer)
    BY <1>3, <1>14 DEF WriteRow
  <2>2. buffer[next[t]] \in Item
    BY <1>2, <2>1, ElementOfSeq DEF Item
  <2>3. pending' \in Seq(Item)
    BY <1>2, <1>14, <2>2, AppendProperties DEF WriteRow
  <2>4. next' \in [Threads -> Nat \ {0}]
    BY <1>3, <1>14 DEF WriteRow
  <2>5. TypeOK'
    BY <1>1, <1>14, <2>3, <2>4
       DEF WriteRow, fileVars, objectVars, historyVars, TypeOK, Item
  <2>6. life = "up"
    BY <1>10, <1>14 DEF WriteRow
  <2> QED BY <1>14, <2>5, <2>6 DEF WriteRow, fileVars, objectVars, TypeInv
<1>15. ASSUME NEW t \in Threads, RowsWritten(t) PROVE TypeInv'
  <2>1. next' \in [Threads -> Nat \ {0}]
    BY <1>3, <1>15 DEF RowsWritten
  <2> QED BY <1>2, <1>3, <1>10, <1>15, <2>1, ThreadStepType
          DEF RowsWritten, fileVars, objectVars, historyVars
<1>16. ASSUME NEW t \in Threads, FlushDisk(t) PROVE TypeInv'
  BY <1>2, <1>3, <1>4, <1>10, <1>16, ThreadStepType
     DEF FlushDisk, objectVars, historyVars
<1>17. ASSUME NEW t \in Threads, Clear(t) PROVE TypeInv'
  BY <1>2, <1>3, <1>10, <1>17, AfterTypes, ThreadStepType
     DEF Clear, fileVars, objectVars, historyVars
<1>18. ASSUME NEW t \in Threads, FlushFails(t) PROVE TypeInv'
  <2>1. file' \in Seq(Item) /\ pending' \in Seq(Item)
    BY <1>5, <1>18 DEF FlushFails
  <2>2. next' \in [Threads -> Nat \ {0}] /\ failures' \in Nat
    BY <1>3, <1>18 DEF FlushFails
  <2> QED BY <1>2, <1>3, <1>10, <1>18, <2>1, <2>2, AfterTypes, ThreadStepType
          DEF FlushFails, objectVars
<1>19. ASSUME NEW t \in Threads, FlushOnClosed(t) PROVE TypeInv'
  <2>1. next' \in [Threads -> Nat \ {0}]
    BY <1>3, <1>19 DEF FlushOnClosed
  <2> QED BY <1>2, <1>3, <1>10, <1>19, <2>1, AfterTypes, ThreadStepType
          DEF FlushOnClosed, fileVars, objectVars, historyVars
<1>20. ASSUME NEW t \in Threads, CloseFile(t) PROVE TypeInv'
  BY <1>2, <1>3, <1>4, <1>10, <1>20, ThreadStepType DEF CloseFile, historyVars
<1>21. ASSUME NEW t \in Threads, Unlock(t) PROVE TypeInv'
  BY <1>2, <1>3, <1>10, <1>21, ThreadStepType
     DEF Unlock, fileVars, objectVars, historyVars
<1>22. CASE UNCHANGED vars
  BY <1>1, <1>22
     DEF vars, fileVars, objectVars, callVars, historyVars, TypeOK, TypeInv
<1> QED BY <1>6, <1>7, <1>8, <1>9, <1>11, <1>12, <1>13, <1>14, <1>15, <1>16,
           <1>17, <1>18, <1>19, <1>20, <1>21, <1>22 DEF Next, Inside

(* Type correctness.                                                       *)
THEOREM TypeCorrect == Spec => []TypeOK
<1>1. TypeInv => TypeOK
  BY DEF TypeInv
<1> QED BY <1>1, TypeInit, TypeStep, PTL DEF Spec

-------------------------------------------------------------------------------
(* The header is the first thing in the file or still on its way to an     *)
(* empty one; whatever else is on its way is a row.                        *)
HeaderInv ==
    /\ OneHeader
    /\ file = <<>> /\ life = "boot" => pending = <<Header>>
    /\ file # <<>> => pending \in Seq(Row)
    /\ life = "up" => file # <<>>
    /\ life = "down" => pending = <<>>

(* What has its header and grows by rows has its header.                   *)
LEMMA HeaderKept ==
    ASSUME NEW f \in Seq(Item), f # <<>>, NEW r \in Seq(Row),
           \A i \in 1..Len(f) : f[i] = Header <=> i = 1
    PROVE  /\ \A i \in 1..Len(f \o r) : (f \o r)[i] = Header <=> i = 1
           /\ f \o r # <<>>
<1>1. r \in Seq(Item)
  BY RowsAreItems
<1>2. Len(f) \in Nat /\ Len(r) \in Nat /\ Len(f) > 0
  BY <1>1, LenProperties, EmptySeq
<1>3. /\ Len(f \o r) = Len(f) + Len(r)
      /\ \A i \in 1..Len(f) + Len(r) :
            (f \o r)[i] = IF i <= Len(f) THEN f[i] ELSE r[i - Len(f)]
  BY <1>1, ConcatProperties
<1>4. ASSUME NEW i \in 1..Len(f \o r) PROVE (f \o r)[i] = Header <=> i = 1
  <2>1. CASE i <= Len(f)
    <3>1. i \in 1..Len(f) /\ (f \o r)[i] = f[i]
      BY <1>2, <1>3, <2>1
    <3> QED BY <3>1
  <2>2. CASE i > Len(f)
    <3>1. i - Len(f) \in 1..Len(r) /\ (f \o r)[i] = r[i - Len(f)] /\ i # 1
      BY <1>2, <1>3, <2>2
    <3>2. r[i - Len(f)] \in Row
      BY <3>1, ElementOfSeq
    <3> QED BY <3>1, <3>2, RowsAreItems
  <2> QED BY <1>2, <1>3, <2>1, <2>2
<1>5. f \o r # <<>>
  BY <1>1, <1>2, <1>3, EmptySeq, ConcatProperties
<1> QED BY <1>4, <1>5

LEMMA HeaderStep == TypeInv /\ HeaderInv /\ [Next]_vars => HeaderInv'
<1> SUFFICES ASSUME TypeInv, HeaderInv, [Next]_vars PROVE HeaderInv'
  OBVIOUS
<1>1. /\ file \in Seq(Item) /\ pending \in Seq(Item) /\ buffer \in Seq(Row)
      /\ Len(pending) \in Nat /\ <<>> \in Seq(Row)
      /\ next \in [Threads -> Nat \ {0}]
      /\ life \in {"down", "boot", "up"}
  BY LenProperties DEF TypeInv, TypeOK, Item
<1>2. ASSUME NEW t \in Threads, pc[t] # "idle"
      PROVE  life = "up" /\ file # <<>> /\ pending \in Seq(Row)
  BY <1>2 DEF TypeInv, HeaderInv
<1>3. ASSUME NEW k \in 0..Len(pending), NEW m \in 0..Len(pending),
             pending \in Seq(Row)
      PROVE  /\ SubSeq(pending, 1, k) \in Seq(Row)
             /\ SubSeq(pending, k + 1, m) \in Seq(Row)
  <2>1. SubSeq(pending, 1, k) \in Seq(Row)
    BY <1>3, PartType
  <2>2. k + 1 \in Nat \ {0}
    BY <1>1
  <2> QED BY <1>3, <2>1, <2>2, PartType
<1>4. ASSUME file # <<>>, life' = "up", NEW r \in Seq(Row),
             file' = file \o r, pending' \in Seq(Row)
      PROVE  HeaderInv'
  <2>1. OneHeader' /\ file' # <<>>
    BY <1>1, <1>4, HeaderKept DEF HeaderInv, OneHeader
  <2> QED BY <1>4, <2>1 DEF HeaderInv
<1>5. ASSUME file' = file, life' = "up", file # <<>>, pending' \in Seq(Row)
      PROVE  HeaderInv'
  BY <1>5 DEF HeaderInv, OneHeader
<1>6. CASE OpenFile
  <2>1. pending' = IF file = <<>> THEN <<Header>> ELSE <<>>
    <3>1. CASE file = <<>>
      BY <1>6, <3>1 DEF OpenFile, NeedsHeader
    <3>2. CASE file # <<>> /\ exists
      BY <1>6, <3>2 DEF OpenFile, NeedsHeader
    <3>3. CASE file # <<>> /\ ~exists
      BY <3>3 DEF TypeInv
    <3> QED BY <3>1, <3>2, <3>3
  <2> QED BY <1>1, <1>6, <2>1 DEF OpenFile, HeaderInv, OneHeader
<1>7. CASE HeaderFlushed
  <2>1. CASE file = <<>>
    <3>1. file' = <<Header>>
      BY <1>1, <1>7, <2>1, ConcatEmptySeq DEF HeaderFlushed, HeaderInv
    <3> QED BY <1>1, <1>7, <3>1 DEF HeaderFlushed, HeaderInv, OneHeader
  <2>2. CASE file # <<>>
    <3>1. pending \in Seq(Row)
      BY <2>2 DEF HeaderInv
    <3> QED BY <1>1, <1>4, <1>7, <2>2, <3>1 DEF HeaderFlushed
  <2> QED BY <2>1, <2>2
<1>8. CASE Crash
  <2>1. PICK k \in 0..Len(pending) : file' = file \o SubSeq(pending, 1, k)
    BY <1>8 DEF Crash
  <2>2. CASE file # <<>>
    <3>1. SubSeq(pending, 1, k) \in Seq(Row)
      BY <1>3, <2>2 DEF HeaderInv
    <3>2. OneHeader'
      BY <1>1, <2>1, <2>2, <3>1, HeaderKept DEF HeaderInv, OneHeader
    <3>3. file' # <<>>
      BY <1>1, <2>1, <2>2, <3>1, HeaderKept DEF HeaderInv, OneHeader
    <3> QED BY <1>1, <1>8, <3>2, <3>3 DEF Crash, HeaderInv
  <2>3. CASE file = <<>>
    <3>1. pending = <<Header>>
      BY <1>1, <1>8, <2>3 DEF Crash, HeaderInv
    <3>2. k \in {0, 1}
      BY <3>1
    <3>3. file' = SubSeq(pending, 1, k)
      <4>1. SubSeq(pending, 1, k) \in Seq(Item)
        BY <1>1, PartType
      <4> QED BY <2>1, <2>3, <4>1, ConcatEmptySeq
    <3>4. file' = <<>> \/ file' = <<Header>>
      <4>1. CASE k = 0
        BY <3>3, <4>1, SubSeqEmpty
      <4>2. CASE k = 1
        <5>1. Len(pending) = 1
          BY <3>1
        <5>2. SubSeq(pending, 1, 1) = pending
          BY <1>1, <5>1, SubSeqFull
        <5> QED BY <3>1, <3>3, <4>2, <5>2
      <4> QED BY <3>2, <4>1, <4>2
    <3>5. OneHeader'
      BY <3>4 DEF OneHeader
    <3> QED BY <1>1, <1>8, <3>5 DEF Crash, HeaderInv
  <2> QED BY <2>2, <2>3
<1>9. ASSUME NEW t \in Threads, CallLog(t) \/ CallClose(t) \/ CallFlush(t)
      PROVE  HeaderInv'
  <2>1. life = "up" /\ life' = "up" /\ file' = file /\ pending' = pending
    BY <1>9 DEF CallLog, CallClose, CallFlush, Call, fileVars, objectVars
  <2> QED BY <1>5, <2>1 DEF HeaderInv
<1>10. ASSUME NEW t \in Threads,
              \/ LogEnters(t) \/ CloseEnters(t) \/ FlushBegins(t)
              \/ RowsWritten(t) \/ Clear(t) \/ FlushOnClosed(t) \/ Unlock(t)
       PROVE  HeaderInv'
  <2>1. pc[t] # "idle" /\ life' = life /\ file' = file /\ pending' = pending
    BY <1>10
       DEF LogEnters, CloseEnters, FlushBegins, RowsWritten, Clear,
           FlushOnClosed, Unlock, fileVars, objectVars
  <2> QED BY <1>2, <1>5, <2>1
<1>11. ASSUME NEW t \in Threads, WriteRow(t) PROVE HeaderInv'
  <2>1. next[t] \in 1..Len(buffer)
    BY <1>1, <1>11 DEF WriteRow
  <2>2. buffer[next[t]] \in Row
    BY <1>1, <2>1, ElementOfSeq
  <2>3. pending' \in Seq(Row)
    BY <1>2, <1>11, <2>2, AppendProperties DEF WriteRow
  <2> QED BY <1>2, <1>5, <1>11, <2>3 DEF WriteRow, fileVars, objectVars
<1>12. ASSUME NEW t \in Threads, FlushDisk(t) \/ CloseFile(t) PROVE HeaderInv'
  <2>1. /\ pc[t] # "idle" /\ life' = life
        /\ file' = file \o pending /\ pending' = <<>>
    BY <1>12 DEF FlushDisk, CloseFile, objectVars
  <2> QED BY <1>1, <1>2, <1>4, <2>1
<1>13. ASSUME NEW t \in Threads, FlushFails(t) PROVE HeaderInv'
  <2>1. PICK k \in 0..Len(pending), m \in 0..Len(pending) :
            /\ file' = file \o SubSeq(pending, 1, k)
            /\ pending' = SubSeq(pending, k + 1, m)
    BY <1>13 DEF FlushFails
  <2>2. pc[t] # "idle" /\ life' = life
    BY <1>13 DEF FlushFails, objectVars
  <2>3. SubSeq(pending, 1, k) \in Seq(Row) /\ SubSeq(pending, k + 1, m) \in Seq(Row)
    BY <1>2, <1>3, <2>2
  <2> QED BY <1>2, <1>4, <2>1, <2>2, <2>3
<1>14. CASE UNCHANGED vars
  BY <1>14 DEF vars, fileVars, objectVars, HeaderInv, OneHeader
<1> QED BY <1>6, <1>7, <1>8, <1>9, <1>10, <1>11, <1>12, <1>13, <1>14
        DEF Next, Inside

(* One header, in front of every row, over any number of crashes.          *)
THEOREM HeaderCorrect == Spec => []OneHeader
<1>1. Init => HeaderInv
  <2> SUFFICES ASSUME Init PROVE HeaderInv
    OBVIOUS
  <2>1. file = <<>> /\ pending = <<>> /\ life = "down"
    BY DEF Init
  <2>2. OneHeader
    BY <2>1 DEF OneHeader
  <2> QED BY <2>1, <2>2 DEF HeaderInv
<1>2. HeaderInv => OneHeader
  BY DEF HeaderInv
<1> QED BY <1>1, <1>2, TypeInit, TypeStep, HeaderStep, PTL DEF Spec

-------------------------------------------------------------------------------
(* The elements of a sequence, of a concatenation, of a longer sequence.   *)
LEMMA ToSetElements ==
    ASSUME NEW S, NEW s \in Seq(S), NEW e
    PROVE  e \in ToSet(s) <=> \E i \in 1..Len(s) : s[i] = e
<1>1. DOMAIN s = 1..Len(s)
  BY LenProperties
<1> QED BY <1>1 DEF ToSet

LEMMA ToSetConcat ==
    ASSUME NEW S, NEW s \in Seq(S), NEW r \in Seq(S)
    PROVE  ToSet(s \o r) = ToSet(s) \cup ToSet(r)
<1>1. /\ s \o r \in Seq(S) /\ Len(s \o r) = Len(s) + Len(r)
      /\ \A i \in 1..Len(s) + Len(r) :
            (s \o r)[i] = IF i <= Len(s) THEN s[i] ELSE r[i - Len(s)]
  BY ConcatProperties
<1>2. Len(s) \in Nat /\ Len(r) \in Nat
  BY LenProperties
<1>3. ASSUME NEW e \in ToSet(s \o r) PROVE e \in ToSet(s) \cup ToSet(r)
  <2>1. PICK i \in 1..Len(s) + Len(r) : (s \o r)[i] = e
    BY <1>1, <1>3, ToSetElements
  <2>2. CASE i <= Len(s)
    <3>1. i \in 1..Len(s) /\ s[i] = e
      BY <1>1, <1>2, <2>1, <2>2
    <3> QED BY <3>1, ToSetElements
  <2>3. CASE i > Len(s)
    <3>1. i - Len(s) \in 1..Len(r) /\ r[i - Len(s)] = e
      BY <1>1, <1>2, <2>1, <2>3
    <3> QED BY <3>1, ToSetElements
  <2> QED BY <1>2, <2>2, <2>3
<1>4. ASSUME NEW e \in ToSet(s) PROVE e \in ToSet(s \o r)
  <2>1. PICK i \in 1..Len(s) : s[i] = e
    BY <1>4, ToSetElements
  <2>2. i \in 1..Len(s \o r) /\ (s \o r)[i] = e
    BY <1>1, <1>2, <2>1
  <2> QED BY <1>1, <2>2, ToSetElements
<1>5. ASSUME NEW e \in ToSet(r) PROVE e \in ToSet(s \o r)
  <2>1. PICK i \in 1..Len(r) : r[i] = e
    BY <1>5, ToSetElements
  <2>2. i + Len(s) \in 1..Len(s \o r) /\ (s \o r)[i + Len(s)] = e
    BY <1>1, <1>2, <2>1
  <2> QED BY <1>1, <2>2, ToSetElements
<1> QED BY <1>3, <1>4, <1>5

LEMMA ToSetAppend ==
    ASSUME NEW S, NEW s \in Seq(S), NEW e \in S
    PROVE  ToSet(Append(s, e)) = ToSet(s) \cup {e}
<1>1. Append(s, e) = s \o <<e>> /\ <<e>> \in Seq(S)
  BY AppendIsConcat
<1>2. ToSet(<<e>>) = {e}
  <2>1. DOMAIN <<e>> = {1} /\ <<e>>[1] = e
    OBVIOUS
  <2> QED BY <2>1 DEF ToSet
<1>3. ToSet(s \o <<e>>) = ToSet(s) \cup ToSet(<<e>>)
  BY <1>1, ToSetConcat
<1> QED BY <1>1, <1>2, <1>3

-------------------------------------------------------------------------------
(* Who is where: log_frame() and close() are past their lock only with it, *)
(* and a direct flush() that has met nobody is alone.                      *)
Active == {"flush", "rows", "disk", "clear", "close"}

LockInv ==
    /\ \A t \in Threads : pc[t] = "idle" <=> op[t] = "none"
    /\ \A t \in Threads : op[t] = "flush" => pc[t] \in Active \ {"close"}
    /\ \A t \in Threads :
          op[t] # "flush" /\ pc[t] \in Active \cup {"unlock"} => holder = t
    /\ ~raced => \A t, u \in Threads : op[t] = "flush" /\ u # t => pc[u] = "idle"
    /\ \A t \in Threads : pc[t] # "rows" => next[t] = 1

(* A step of thread t to a place where it may be.                          *)
LEMMA LockKept ==
    ASSUME TypeInv, LockInv, NEW t \in Threads, NEW place \in Places,
           Goto(t, place), pc[t] # "idle", raced' = raced,
           op[t] = "flush" => place \in {"idle"} \cup (Active \ {"close"}),
           op[t] # "flush" /\ place \in Active \cup {"unlock"} => holder' = t,
           \A u \in Threads \ {t} :
               op[u] # "flush" /\ pc[u] \in Active \cup {"unlock"} => holder' = u,
           \A u \in Threads \ {t} : next'[u] = next[u],
           place # "rows" => next'[t] = 1
    PROVE  LockInv'
<1>1. /\ pc' \in [Threads -> Places] /\ pc'[t] = place
      /\ \A u \in Threads : u # t => pc'[u] = pc[u] /\ op'[u] = op[u]
      /\ place # "idle" => op'[t] = op[t]
  BY GotoType DEF TypeInv
<1>2. place = "idle" => op'[t] = "none"
  BY DEF Goto, TypeInv, TypeOK
<1>3. op[t] # "none"
  BY DEF LockInv
<1>4. \A s \in Threads : pc'[s] = "idle" <=> op'[s] = "none"
  BY <1>1, <1>2, <1>3 DEF LockInv
<1>5. \A s \in Threads : op'[s] = "flush" => pc'[s] \in Active \ {"close"}
  BY <1>1, <1>2 DEF LockInv
<1>6. \A s \in Threads :
          op'[s] # "flush" /\ pc'[s] \in Active \cup {"unlock"} => holder' = s
  BY <1>1, <1>2 DEF LockInv, Active
<1>7. ~raced' => \A s, u \in Threads :
                    op'[s] = "flush" /\ u # s => pc'[u] = "idle"
  BY <1>1, <1>2 DEF LockInv
<1>8. \A s \in Threads : pc'[s] # "rows" => next'[s] = 1
  BY <1>1 DEF LockInv
<1> QED BY <1>4, <1>5, <1>6, <1>7, <1>8 DEF LockInv

LEMMA LockStep == TypeInv /\ LockInv /\ [Next]_vars => LockInv'
<1> SUFFICES ASSUME TypeInv, LockInv, [Next]_vars PROVE LockInv'
  OBVIOUS
<1>1. next \in [Threads -> Nat \ {0}] /\ holder \in Threads \cup {NoOne}
  BY DEF TypeInv, TypeOK
<1>2. \A u \in Threads :
          op[u] # "flush" /\ pc[u] \in Active \cup {"unlock"} => holder = u
  BY DEF LockInv
<1>3. CASE OpenFile \/ HeaderFlushed
  <2>1. /\ UNCHANGED callVars
        /\ \A t \in Threads : pc[t] = "idle"
    BY <1>3 DEF OpenFile, HeaderFlushed, TypeInv
  <2> QED BY <2>1 DEF callVars, LockInv, Active
<1>4. CASE Crash
  BY <1>4 DEF Crash, LockInv, Active
<1>5. ASSUME NEW t \in Threads, CallLog(t) \/ CallClose(t) \/ CallFlush(t)
      PROVE  LockInv'
  <2>1. PICK name \in {"log", "close", "flush"}, place \in {"lock", "flush"} :
            Call(t, name, place) /\ (name = "flush" <=> place = "flush")
    BY <1>5 DEF CallLog, CallClose, CallFlush
  <2>2. /\ pc[t] = "idle" /\ pc'[t] = place /\ op'[t] = name
        /\ \A u \in Threads : u # t => pc'[u] = pc[u] /\ op'[u] = op[u]
        /\ holder' = holder /\ next' = next
    BY <2>1 DEF Call, Busy, TypeInv, TypeOK
  <2>3. ~raced' =>
           /\ ~raced
           /\ \A u \in Threads : pc[u] # "idle" => name # "flush" /\ op[u] # "flush"
    BY <2>1 DEF Call, Busy
  <2>4. ~raced' => \A s, u \in Threads :
                      op'[s] = "flush" /\ u # s => pc'[u] = "idle"
    <3> SUFFICES ASSUME ~raced', NEW s \in Threads, NEW u \in Threads,
                        op'[s] = "flush", u # s
                 PROVE  pc'[u] = "idle"
      OBVIOUS
    <3>1. CASE s = t
      BY <2>2, <2>3, <3>1
    <3>2. CASE s # t
      <4>1. op[s] = "flush" /\ pc[s] # "idle"
        BY <2>2, <3>2 DEF LockInv
      <4> QED BY <2>3, <4>1
    <3> QED BY <3>1, <3>2
  <2>5. \A s \in Threads : pc'[s] = "idle" <=> op'[s] = "none"
    BY <2>2 DEF LockInv
  <2>6. \A s \in Threads : op'[s] = "flush" => pc'[s] \in Active \ {"close"}
    BY <2>1, <2>2 DEF LockInv, Active
  <2>7. \A s \in Threads :
            op'[s] # "flush" /\ pc'[s] \in Active \cup {"unlock"} => holder' = s
    BY <2>1, <2>2 DEF LockInv, Active
  <2>8. \A s \in Threads : pc'[s] # "rows" => next'[s] = 1
    BY <2>2 DEF LockInv
  <2> QED BY <2>4, <2>5, <2>6, <2>7, <2>8 DEF LockInv
<1>6. ASSUME NEW t \in Threads, LogEnters(t) \/ CloseEnters(t) PROVE LockInv'
  <2>1. /\ pc[t] = "lock" /\ op[t] \in {"log", "close"} /\ holder = NoOne
        /\ holder' = t /\ next' = next /\ raced' = raced
    BY <1>6 DEF LogEnters, CloseEnters, historyVars
  <2>2. PICK place \in {"flush", "unlock"} : Goto(t, place)
    BY <1>6 DEF LogEnters, CloseEnters
  <2>3. \A u \in Threads :
            ~(op[u] # "flush" /\ pc[u] \in Active \cup {"unlock"})
    BY <1>2, <2>1, LoggerAssumption DEF LoggerAssumption
  <2>4. next'[t] = 1
    BY <2>1 DEF LockInv
  <2> QED BY <2>1, <2>2, <2>3, <2>4, LockKept DEF Places
<1>7. ASSUME NEW t \in Threads, FlushBegins(t) PROVE LockInv'
  <2>1. /\ pc[t] = "flush" /\ holder' = holder /\ next' = next /\ raced' = raced
        /\ next[t] = 1
    BY <1>7 DEF FlushBegins, historyVars, LockInv
  <2>2. PICK place \in {"rows", AfterFlush(t)} : Goto(t, place)
    BY <1>7 DEF FlushBegins
  <2>3. op[t] \in {"log", "close", "flush"}
    BY <2>1 DEF LockInv, TypeInv, TypeOK
  <2>4. /\ op[t] = "flush" => place \in {"idle", "rows"}
        /\ op[t] # "flush" => place \in {"rows", "unlock", "close"}
        /\ place \in Places
    BY <2>2, <2>3 DEF AfterFlush, Places
  <2>5. op[t] # "flush" => holder = t
    BY <1>2, <2>1 DEF Active
  <2> QED BY <1>2, <2>1, <2>2, <2>4, <2>5, LockKept DEF Active
<1>8. ASSUME NEW t \in Threads, WriteRow(t) PROVE LockInv'
  <2>1. /\ pc[t] = "rows" /\ UNCHANGED <<holder, op, pc, raced>>
        /\ \A u \in Threads : u # t => next'[u] = next[u]
    BY <1>1, <1>8 DEF WriteRow, historyVars
  <2> QED BY <2>1 DEF LockInv
<1>9. ASSUME NEW t \in Threads, RowsWritten(t) \/ FlushDisk(t) PROVE LockInv'
  <2>1. /\ pc[t] \in {"rows", "disk"} /\ holder' = holder /\ raced' = raced
        /\ next'[t] = 1
        /\ \A u \in Threads : u # t => next'[u] = next[u]
    BY <1>1, <1>9 DEF RowsWritten, FlushDisk, historyVars, LockInv
  <2>2. PICK place \in {"disk", "clear"} : Goto(t, place)
    BY <1>9 DEF RowsWritten, FlushDisk
  <2>3. op[t] # "flush" => holder = t
    BY <1>2, <2>1 DEF Active
  <2>4. place \in Places /\ place \in Active \ {"close"}
    BY DEF Places, Active
  <2> QED BY <1>2, <2>1, <2>2, <2>3, <2>4, LockKept
<1>10. ASSUME NEW t \in Threads, Clear(t) PROVE LockInv'
  <2>1. /\ pc[t] = "clear" /\ holder' = holder /\ next' = next /\ raced' = raced
        /\ next[t] = 1 /\ Goto(t, AfterFlush(t))
    BY <1>10 DEF Clear, historyVars, LockInv
  <2>2. op[t] \in {"log", "close", "flush"}
    BY <2>1 DEF LockInv, TypeInv, TypeOK
  <2>3. /\ op[t] = "flush" => AfterFlush(t) = "idle"
        /\ AfterFlush(t) \in Places
    BY <2>2 DEF AfterFlush, Places
  <2>4. op[t] # "flush" => holder = t
    BY <1>2, <2>1 DEF Active
  <2> QED BY <1>2, <2>1, <2>3, <2>4, LockKept
<1>11. ASSUME NEW t \in Threads, FlushFails(t) \/ FlushOnClosed(t) PROVE LockInv'
  <2>1. /\ pc[t] \in {"rows", "disk"} /\ holder' = holder /\ raced' = raced
        /\ Goto(t, AfterRaise(t)) /\ next'[t] = 1
        /\ \A u \in Threads : u # t => next'[u] = next[u]
    BY <1>1, <1>11 DEF FlushFails, FlushOnClosed, historyVars
  <2>2. /\ op[t] = "flush" => AfterRaise(t) = "idle"
        /\ AfterRaise(t) \in Places
    BY DEF AfterRaise, Places
  <2>3. op[t] # "flush" => holder = t
    BY <1>2, <2>1 DEF Active
  <2> QED BY <1>2, <2>1, <2>2, <2>3, LockKept
<1>12. ASSUME NEW t \in Threads, CloseFile(t) PROVE LockInv'
  <2>1. /\ pc[t] = "close" /\ holder' = holder /\ raced' = raced
        /\ Goto(t, "unlock") /\ next' = next /\ next[t] = 1
    BY <1>12 DEF CloseFile, historyVars, LockInv
  <2>2. op[t] # "flush"
    BY <2>1 DEF LockInv
  <2>3. holder = t
    BY <1>2, <2>1, <2>2 DEF Active
  <2> QED BY <1>2, <2>1, <2>2, <2>3, LockKept DEF Places
<1>13. ASSUME NEW t \in Threads, Unlock(t) PROVE LockInv'
  <2>1. /\ pc[t] = "unlock" /\ holder' = NoOne /\ raced' = raced
        /\ Goto(t, "idle") /\ next' = next /\ next[t] = 1
    BY <1>13 DEF Unlock, historyVars, LockInv
  <2>2. op[t] # "flush"
    BY <2>1 DEF LockInv, Active
  <2>3. holder = t
    BY <1>2, <2>1, <2>2
  <2>4. \A u \in Threads \ {t} :
            ~(op[u] # "flush" /\ pc[u] \in Active \cup {"unlock"})
    BY <1>2, <2>3
  <2>5. "idle" \in Places /\ "idle" \notin Active \cup {"unlock"}
    BY DEF Places, Active
  <2> QED BY <2>1, <2>2, <2>4, <2>5, LockKept
<1>14. CASE UNCHANGED vars
  BY <1>14 DEF vars, callVars, historyVars, LockInv
<1> QED BY <1>3, <1>4, <1>5, <1>6, <1>7, <1>8, <1>9, <1>10, <1>11, <1>12,
           <1>13, <1>14 DEF Next, Inside

-------------------------------------------------------------------------------
(* Where the rows are.  Those writerows() has taken are in the stream or   *)
(* in the file, after the stream's flush they are in the file, and only    *)
(* then is the buffer cleared.                                             *)
Out == ToSet(pending) \cup ToSet(file)

BookOf(t) ==
    /\ pc[t] = "rows" =>
           \A i \in 1..Len(buffer) : i < next[t] => buffer[i] \in Out
    /\ pc[t] = "disk" => ToSet(buffer) \subseteq Out
    /\ pc[t] = "clear" => ToSet(buffer) \subseteq ToSet(file)
    /\ pc[t] = "close" /\ isOpen => buffer = <<>>

Books ==
    /\ Rows(total) \subseteq ToSet(buffer) \cup ToSet(file)
    /\ ~isOpen => Rows(closedAt) \subseteq ToSet(file)
    /\ \A t \in Threads : BookOf(t)

BooksInv ==
    /\ life = "boot" => total = 0 /\ isOpen
    /\ life = "up" /\ ~raced => Books

(* A thread in a block that touches the buffer is the only one there.      *)
LEMMA Alone ==
    ASSUME TypeInv, LockInv, ~raced, NEW t \in Threads, NEW u \in Threads \ {t},
           pc[t] \in Active \/ (pc[t] = "lock" /\ holder = NoOne)
    PROVE  pc[u] \notin Active
<1> SUFFICES ASSUME pc[u] \in Active PROVE FALSE
  OBVIOUS
<1>1. op[t] # "flush" /\ op[u] # "flush"
  BY DEF LockInv, Active
<1>2. holder = u
  BY <1>1 DEF LockInv
<1>3. CASE pc[t] \in Active
  BY <1>1, <1>2, <1>3 DEF LockInv
<1>4. CASE holder = NoOne
  BY <1>2, <1>4, LoggerAssumption DEF LoggerAssumption
<1> QED BY <1>3, <1>4

(* So a step of it has only its own book to keep.                          *)
LEMMA BooksKept ==
    ASSUME TypeInv, LockInv, ~raced, NEW t \in Threads,
           pc[t] \in Active \/ (pc[t] = "lock" /\ holder = NoOne),
           \A u \in Threads : u # t => pc'[u] = pc[u],
           Rows(total)' \subseteq ToSet(buffer') \cup ToSet(file'),
           ~isOpen' => Rows(closedAt)' \subseteq ToSet(file'),
           BookOf(t)'
    PROVE  Books'
<1>1. ASSUME NEW u \in Threads \ {t} PROVE BookOf(u)'
  <2>1. pc'[u] \notin Active
    BY Alone
  <2> QED BY <2>1 DEF BookOf, Active
<1> QED BY <1>1 DEF Books

LEMMA BooksStep ==
    TypeInv /\ LockInv /\ BooksInv /\ [Next]_vars => BooksInv'
<1> SUFFICES ASSUME TypeInv, LockInv, BooksInv, [Next]_vars PROVE BooksInv'
  OBVIOUS
<1>1. /\ file \in Seq(Item) /\ pending \in Seq(Item) /\ buffer \in Seq(Item)
      /\ buffer \in Seq(Row)
      /\ Len(pending) \in Nat /\ Len(buffer) \in Nat
      /\ next \in [Threads -> Nat \ {0}] /\ total \in Nat
      /\ \A t \in Threads : pc[t] # "idle" => life = "up"
  BY RowsAreItems, LenProperties DEF TypeInv, TypeOK, Item
<1>2. ToSet(file \o pending) = Out
  BY <1>1, ToSetConcat DEF Out
<1>3. ASSUME NEW k \in 0..Len(pending)
      PROVE  ToSet(file) \subseteq ToSet(file \o SubSeq(pending, 1, k))
  <2>1. SubSeq(pending, 1, k) \in Seq(Item)
    BY <1>1, PartType
  <2>2. ASSUME NEW r \in Seq(Item) PROVE ToSet(file) \subseteq ToSet(file \o r)
    BY <1>1, ToSetConcat
  <2> QED BY ONLY <2>1, <2>2
<1>4. ASSUME life' = "up", ~raced' => Books' PROVE BooksInv'
  BY <1>4 DEF BooksInv
<1>5. CASE OpenFile
  BY <1>5 DEF OpenFile, BooksInv
<1>6. CASE HeaderFlushed
  <2>1. /\ total' = 0 /\ isOpen' /\ life' = "up"
        /\ \A t \in Threads : pc'[t] = "idle"
    BY <1>6 DEF HeaderFlushed, BooksInv, TypeInv, callVars
  <2>2. Rows(total)' = {}
    BY <2>1 DEF Rows
  <2>3. \A t \in Threads : BookOf(t)'
    BY <2>1 DEF BookOf
  <2> QED BY <1>4, <2>1, <2>2, <2>3 DEF Books
<1>7. CASE Crash
  BY <1>7 DEF Crash, BooksInv
<1>8. ASSUME NEW t \in Threads, CallLog(t) \/ CallClose(t) \/ CallFlush(t)
      PROVE  BooksInv'
  <2>1. PICK name \in {"log", "close", "flush"}, place \in {"lock", "flush"} :
            Call(t, name, place)
    BY <1>8 DEF CallLog, CallClose, CallFlush
  <2>2. /\ life = "up" /\ life' = "up" /\ (~raced' => ~raced)
        /\ UNCHANGED <<file, pending, buffer, total, next, isOpen, session,
                      closedAt>>
        /\ \A u \in Threads : pc'[u] \in {pc[u], "lock", "flush"}
    BY <2>1 DEF Call, fileVars, objectVars, TypeInv, TypeOK
  <2>3. ASSUME ~raced' PROVE Books'
    <3>1. Books
      BY <2>2, <2>3 DEF BooksInv
    <3>2. ASSUME NEW u \in Threads PROVE BookOf(u)'
      BY <2>2, <3>1 DEF Books, BookOf, Out
    <3> QED BY <2>2, <3>1, <3>2 DEF Books, Rows
  <2> QED BY <1>4, <2>2, <2>3
<1>9. ASSUME NEW t \in Threads, LogEnters(t) PROVE BooksInv'
  <2>1. /\ pc[t] = "lock" /\ holder = NoOne /\ raced' = raced /\ life' = life
        /\ UNCHANGED <<file, isOpen, session, closedAt>>
        /\ total' = total + 1
        /\ buffer' = Append(buffer, <<session, total + 1>>)
    BY <1>9 DEF LogEnters, fileVars, objectVars, historyVars
  <2>2. PICK place \in {"flush", "unlock"} : Goto(t, place)
    BY <1>9 DEF LogEnters
  <2>3. /\ pc'[t] \in {"flush", "unlock"}
        /\ \A u \in Threads : u # t => pc'[u] = pc[u]
    BY <2>2, GotoType DEF TypeInv, Places
  <2>4. ASSUME ~raced PROVE Books'
    <3>1. Books
      BY <1>1, <2>1, <2>4 DEF BooksInv
    <3>2. ToSet(buffer') = ToSet(buffer) \cup {<<session, total + 1>>}
      <4>1. session \in 1..MaxSessions /\ total + 1 \in Nat \ {0}
        BY <1>1, <2>1 DEF TypeInv
      <4>2. <<session, total + 1>> \in Row
        BY <4>1 DEF Row
      <4> QED BY <1>1, <2>1, <4>2, ToSetAppend
    <3>3. Rows(total)' = Rows(total) \cup {<<session, total + 1>>}
      <4>1. 1..(total + 1) = (1..total) \cup {total + 1}
        BY <1>1
      <4> QED BY <2>1, <4>1 DEF Rows
    <3>4. Rows(total)' \subseteq ToSet(buffer') \cup ToSet(file')
      BY <2>1, <3>1, <3>2, <3>3 DEF Books
    <3>5. ~isOpen' => Rows(closedAt)' \subseteq ToSet(file')
      BY <2>1, <3>1 DEF Books, Rows
    <3>6. BookOf(t)'
      BY <2>3 DEF BookOf
    <3> QED BY <2>1, <2>3, <2>4, <3>4, <3>5, <3>6, BooksKept
  <2> QED BY <1>1, <1>4, <2>1, <2>4
<1>10. ASSUME NEW t \in Threads, CloseEnters(t) \/ Unlock(t) PROVE BooksInv'
  <2>1. /\ pc[t] # "idle" /\ raced' = raced /\ life' = life
        /\ UNCHANGED <<file, pending, buffer, total, next, isOpen, session,
                      closedAt>>
    BY <1>10 DEF CloseEnters, Unlock, fileVars, objectVars, historyVars
  <2>2. PICK place \in {"flush", "idle"} : Goto(t, place)
    BY <1>10 DEF CloseEnters, Unlock
  <2>3. \A u \in Threads : pc'[u] \in {pc[u], "flush", "idle"}
    BY <2>2, GotoType DEF TypeInv, Places
  <2>4. ASSUME ~raced PROVE Books'
    <3>1. Books
      BY <1>1, <2>1, <2>4 DEF BooksInv
    <3>2. ASSUME NEW u \in Threads PROVE BookOf(u)'
      BY <2>1, <2>3, <3>1 DEF Books, BookOf, Out
    <3> QED BY <2>1, <3>1, <3>2 DEF Books, Rows
  <2> QED BY <1>1, <1>4, <2>1, <2>4
<1>11. ASSUME NEW t \in Threads, FlushBegins(t) PROVE BooksInv'
  <2>1. /\ pc[t] = "flush" /\ raced' = raced /\ life' = life
        /\ UNCHANGED <<file, pending, buffer, total, next, isOpen, session,
                      closedAt>>
    BY <1>11 DEF FlushBegins, fileVars, objectVars, historyVars
  <2>2. PICK place \in {"rows", AfterFlush(t)} :
            Goto(t, place) /\ (place # "rows" => ~isOpen \/ buffer = <<>>)
    <3>1. CASE isOpen /\ buffer # <<>>
      BY <1>11, <3>1 DEF FlushBegins
    <3>2. CASE ~(isOpen /\ buffer # <<>>)
      BY <1>11, <3>2 DEF FlushBegins
    <3> QED BY <3>1, <3>2
  <2>3. place \in {"rows", "unlock", "close", "idle"}
    BY <2>2 DEF AfterFlush
  <2>4. pc'[t] = place /\ \A u \in Threads : u # t => pc'[u] = pc[u]
    BY <2>2, <2>3, GotoType DEF TypeInv, Places
  <2>5. ASSUME ~raced PROVE Books'
    <3>1. Books
      BY <1>1, <2>1, <2>5 DEF BooksInv
    <3>2. next'[t] = 1
      BY <2>1 DEF LockInv
    <3>3. BookOf(t)'
      BY <1>1, <2>1, <2>2, <2>3, <2>4, <3>2 DEF BookOf
    <3>4. pc[t] \in Active
      BY <2>1 DEF Active
    <3> QED BY <2>1, <2>4, <2>5, <3>1, <3>3, <3>4, BooksKept DEF Books, Rows
  <2> QED BY <1>1, <1>4, <2>1, <2>5
<1>12. ASSUME NEW t \in Threads, WriteRow(t) PROVE BooksInv'
  <2>1. /\ pc[t] = "rows" /\ raced' = raced /\ life' = life /\ pc' = pc
        /\ UNCHANGED <<file, buffer, total, isOpen, session, closedAt>>
        /\ next[t] <= Len(buffer) /\ next'[t] = next[t] + 1
        /\ pending' = Append(pending, buffer[next[t]])
    BY <1>1, <1>12 DEF WriteRow, fileVars, objectVars, historyVars
  <2>2. ASSUME ~raced PROVE Books'
    <3>1. Books
      BY <1>1, <2>1, <2>2 DEF BooksInv
    <3>2. next[t] \in 1..Len(buffer)
      BY <1>1, <2>1
    <3>3. buffer[next[t]] \in Item
      BY <1>1, <3>2, ElementOfSeq
    <3>4. Out' = Out \cup {buffer[next[t]]}
      <4>1. ToSet(pending') = ToSet(pending) \cup {buffer[next[t]]}
        BY <1>1, <2>1, <3>3, ToSetAppend
      <4> QED BY <2>1, <4>1 DEF Out
    <3>5. ASSUME NEW i \in 1..Len(buffer), i < next[t] + 1
          PROVE  buffer[i] \in Out'
      <4>1. CASE i = next[t]
        BY <3>4, <4>1
      <4>2. CASE i < next[t]
        BY <2>1, <3>1, <3>4, <4>2 DEF Books, BookOf
      <4> QED BY <1>1, <3>5, <4>1, <4>2
    <3>6. BookOf(t)'
      BY <2>1, <3>5 DEF BookOf
    <3>7. pc[t] \in Active
      BY <2>1 DEF Active
    <3> QED BY <2>1, <2>2, <3>1, <3>6, <3>7, BooksKept DEF Books, Rows
  <2> QED BY <1>1, <1>4, <2>1, <2>2
<1>13. ASSUME NEW t \in Threads, RowsWritten(t) PROVE BooksInv'
  <2>1. /\ pc[t] = "rows" /\ raced' = raced /\ life' = life
        /\ UNCHANGED <<file, pending, buffer, total, isOpen, session, closedAt>>
        /\ next[t] > Len(buffer) /\ Goto(t, "disk")
    BY <1>13 DEF RowsWritten, fileVars, objectVars, historyVars
  <2>2. pc'[t] = "disk" /\ \A u \in Threads : u # t => pc'[u] = pc[u]
    BY <2>1, GotoType DEF TypeInv, Places
  <2>3. ASSUME ~raced PROVE Books'
    <3>1. Books
      BY <1>1, <2>1, <2>3 DEF BooksInv
    <3>2. ASSUME NEW e \in ToSet(buffer) PROVE e \in Out
      <4>1. PICK i \in 1..Len(buffer) : buffer[i] = e
        BY <1>1, <3>2, ToSetElements
      <4>2. i < next[t]
        BY <1>1, <2>1
      <4> QED BY <2>1, <3>1, <4>1, <4>2 DEF Books, BookOf
    <3>3. BookOf(t)'
      BY <2>1, <2>2, <3>2 DEF BookOf, Out
    <3>4. pc[t] \in Active
      BY <2>1 DEF Active
    <3> QED BY <2>1, <2>2, <2>3, <3>1, <3>3, <3>4, BooksKept DEF Books, Rows
  <2> QED BY <1>1, <1>4, <2>1, <2>3
<1>14. ASSUME NEW t \in Threads, FlushDisk(t) PROVE BooksInv'
  <2>1. /\ pc[t] = "disk" /\ raced' = raced /\ life' = life
        /\ UNCHANGED <<buffer, total, isOpen, session, closedAt>>
        /\ file' = file \o pending /\ Goto(t, "clear")
    BY <1>14 DEF FlushDisk, objectVars, historyVars
  <2>2. pc'[t] = "clear" /\ \A u \in Threads : u # t => pc'[u] = pc[u]
    BY <2>1, GotoType DEF TypeInv, Places
  <2>3. ToSet(file') = Out /\ ToSet(file) \subseteq ToSet(file')
    BY <1>2, <2>1 DEF Out
  <2>4. ASSUME ~raced PROVE Books'
    <3>1. Books
      BY <1>1, <2>1, <2>4 DEF BooksInv
    <3>2. BookOf(t)'
      BY <2>1, <2>2, <2>3, <3>1 DEF Books, BookOf
    <3>3. pc[t] \in Active
      BY <2>1 DEF Active
    <3>4. /\ Rows(total)' \subseteq ToSet(buffer') \cup ToSet(file')
          /\ ~isOpen' => Rows(closedAt)' \subseteq ToSet(file')
      BY <2>1, <2>3, <3>1 DEF Books, Rows
    <3> QED BY <2>2, <2>4, <3>2, <3>3, <3>4, BooksKept
  <2> QED BY <1>1, <1>4, <2>1, <2>4
<1>15. ASSUME NEW t \in Threads, Clear(t) PROVE BooksInv'
  <2>1. /\ pc[t] = "clear" /\ raced' = raced /\ life' = life
        /\ UNCHANGED <<file, pending, total, isOpen, session, closedAt>>
        /\ buffer' = <<>> /\ Goto(t, AfterFlush(t))
    BY <1>15 DEF Clear, fileVars, objectVars, historyVars
  <2>2. AfterFlush(t) \in {"unlock", "close", "idle"}
    BY DEF AfterFlush
  <2>3. /\ pc'[t] \in {"unlock", "close", "idle"}
        /\ \A u \in Threads : u # t => pc'[u] = pc[u]
    BY <2>1, <2>2, GotoType DEF TypeInv, Places
  <2>4. ASSUME ~raced PROVE Books'
    <3>1. Books
      BY <1>1, <2>1, <2>4 DEF BooksInv
    <3>2. BookOf(t)'
      BY <2>1, <2>3 DEF BookOf
    <3>3. pc[t] \in Active
      BY <2>1 DEF Active
    <3>4. /\ Rows(total)' \subseteq ToSet(buffer') \cup ToSet(file')
          /\ ~isOpen' => Rows(closedAt)' \subseteq ToSet(file')
      BY <2>1, <3>1 DEF Books, BookOf, Rows
    <3> QED BY <2>3, <2>4, <3>2, <3>3, <3>4, BooksKept
  <2> QED BY <1>1, <1>4, <2>1, <2>4
<1>16. ASSUME NEW t \in Threads, FlushFails(t) \/ FlushOnClosed(t)
       PROVE  BooksInv'
  <2>1. /\ pc[t] \in {"rows", "disk"} /\ raced' = raced /\ life' = life
        /\ UNCHANGED <<buffer, total, isOpen, session, closedAt>>
        /\ Goto(t, AfterRaise(t))
    BY <1>16 DEF FlushFails, FlushOnClosed, fileVars, objectVars, historyVars
  <2>2. ToSet(file) \subseteq ToSet(file')
    <3>1. CASE FlushFails(t)
      BY <1>3, <3>1 DEF FlushFails
    <3>2. CASE FlushOnClosed(t)
      BY <3>2 DEF FlushOnClosed, fileVars
    <3> QED BY <1>16, <3>1, <3>2
  <2>3. AfterRaise(t) \in {"unlock", "idle"}
    BY DEF AfterRaise
  <2>4. /\ pc'[t] \in {"unlock", "idle"}
        /\ \A u \in Threads : u # t => pc'[u] = pc[u]
    BY <2>1, <2>3, GotoType DEF TypeInv, Places
  <2>5. ASSUME ~raced PROVE Books'
    <3>1. Books
      BY <1>1, <2>1, <2>5 DEF BooksInv
    <3>2. BookOf(t)'
      BY <2>4 DEF BookOf
    <3>3. pc[t] \in Active
      BY <2>1 DEF Active
    <3>4. /\ Rows(total)' \subseteq ToSet(buffer') \cup ToSet(file')
          /\ ~isOpen' => Rows(closedAt)' \subseteq ToSet(file')
      BY <2>1, <2>2, <3>1 DEF Books, Rows
    <3> QED BY <2>4, <2>5, <3>2, <3>3, <3>4, BooksKept
  <2> QED BY <1>1, <1>4, <2>1, <2>5
<1>17. ASSUME NEW t \in Threads, CloseFile(t) PROVE BooksInv'
  <2>1. /\ pc[t] = "close" /\ raced' = raced /\ life' = life
        /\ UNCHANGED <<buffer, total, session>>
        /\ file' = file \o pending /\ ~isOpen' /\ Goto(t, "unlock")
        /\ closedAt' = IF isOpen THEN total ELSE closedAt
    BY <1>17 DEF CloseFile, historyVars
  <2>2. pc'[t] = "unlock" /\ \A u \in Threads : u # t => pc'[u] = pc[u]
    BY <2>1, GotoType DEF TypeInv, Places
  <2>3. ToSet(file) \subseteq ToSet(file')
    BY <1>2, <2>1 DEF Out
  <2>4. ASSUME ~raced PROVE Books'
    <3>1. Books
      BY <1>1, <2>1, <2>4 DEF BooksInv
    <3>2. BookOf(t)'
      BY <2>2 DEF BookOf
    <3>3. pc[t] \in Active
      BY <2>1 DEF Active
    <3>4. Rows(total)' \subseteq ToSet(buffer') \cup ToSet(file')
      BY <2>1, <2>3, <3>1 DEF Books, Rows
    <3>5. Rows(closedAt)' \subseteq ToSet(file')
      <4>1. CASE isOpen
        <5>1. ToSet(buffer) = {}
          <6>1. buffer = <<>>
            BY <2>1, <3>1, <4>1 DEF Books, BookOf
          <6> QED BY <6>1 DEF ToSet
        <5>2. Rows(total) \subseteq ToSet(file)
          BY <3>1, <5>1 DEF Books
        <5> QED BY <2>1, <2>3, <4>1, <5>2 DEF Rows
      <4>2. CASE ~isOpen
        BY <2>1, <2>3, <3>1, <4>2 DEF Books, Rows
      <4> QED BY <4>1, <4>2
    <3> QED BY <2>2, <2>4, <3>2, <3>3, <3>4, <3>5, BooksKept
  <2> QED BY <1>1, <1>4, <2>1, <2>4
<1>18. CASE UNCHANGED vars
  <2>1. ASSUME NEW u \in Threads, BookOf(u) PROVE BookOf(u)'
    BY <1>18, <2>1
       DEF vars, fileVars, objectVars, callVars, historyVars, BookOf, Out
  <2> QED BY <1>18, <2>1
          DEF vars, fileVars, objectVars, callVars, historyVars, BooksInv,
              Books, Rows
<1> QED BY <1>5, <1>6, <1>7, <1>8, <1>9, <1>10, <1>11, <1>12, <1>13, <1>14,
           <1>15, <1>16, <1>17, <1>18 DEF Next, Inside

LEMMA BooksInit == Init => LockInv /\ BooksInv
<1> SUFFICES ASSUME Init PROVE LockInv /\ BooksInv
  OBVIOUS
<1>1. /\ \A t \in Threads : pc[t] = "idle" /\ op[t] = "none" /\ next[t] = 1
      /\ life = "down"
  BY DEF Init
<1> QED BY <1>1 DEF LockInv, BooksInv, Active

(* A row leaves the buffer only for the file.                              *)
THEOREM NoRowForgottenCorrect == Spec => []NoRowForgotten
<1>1. BooksInv => NoRowForgotten
  BY DEF BooksInv, Books, NoRowForgotten
<1> QED BY <1>1, TypeInit, TypeStep, BooksInit, LockStep, BooksStep, PTL
        DEF Spec

(* A closed file has every row logged until it was closed.                 *)
THEOREM ClosedIsCompleteCorrect == Spec => []ClosedIsComplete
<1>1. BooksInv => ClosedIsComplete
  BY DEF BooksInv, Books, ClosedIsComplete
<1> QED BY <1>1, TypeInit, TypeStep, BooksInit, LockStep, BooksStep, PTL
        DEF Spec

-------------------------------------------------------------------------------
(* What the buffer holds while no write has failed: the latest rows, and   *)
(* so many as make it full only while the lock's holder empties it.        *)
Emptying == {"flush", "rows", "disk", "clear"}

Latest ==
    /\ Len(buffer) <= total
    /\ \A i \in 1..Len(buffer) :
          buffer[i] = <<session, total - Len(buffer) + i>>

Bounded ==
    isOpen =>
        /\ Len(buffer) <= BufferSize
        /\ Len(buffer) = BufferSize => holder # NoOne /\ pc[holder] \in Emptying

BufferInv == life # "down" /\ failures = 0 /\ ~raced => Latest /\ Bounded

(* A step of t that leaves buffer and lock as they are.                    *)
LEMMA BufferKept ==
    ASSUME TypeInv, BufferInv, NEW t \in Threads,
           UNCHANGED <<buffer, total, session, isOpen, holder>>,
           life' # "down" /\ failures' = 0 /\ ~raced' =>
               life # "down" /\ failures = 0 /\ ~raced,
           \A u \in Threads : u # t => pc'[u] = pc[u],
           pc[t] \in Emptying /\ isOpen /\ buffer # <<>> => pc'[t] \in Emptying
    PROVE  BufferInv'
<1> SUFFICES ASSUME life # "down", failures = 0, ~raced
             PROVE  Latest' /\ Bounded'
  BY DEF BufferInv
<1>1. Latest /\ Bounded
  BY DEF BufferInv
<1>2. Latest'
  BY <1>1 DEF Latest
<1>3. ASSUME isOpen, Len(buffer) = BufferSize
      PROVE  holder # NoOne /\ pc'[holder] \in Emptying
  <2>1. holder # NoOne /\ pc[holder] \in Emptying
    BY <1>1, <1>3 DEF Bounded
  <2>2. holder \in Threads
    BY <2>1 DEF TypeInv, TypeOK
  <2>3. buffer # <<>>
    BY <1>3, LoggerAssumption DEF LoggerAssumption
  <2> QED BY <1>3, <2>1, <2>2, <2>3
<1>4. Bounded'
  BY <1>1, <1>3 DEF Bounded
<1> QED BY <1>2, <1>4

LEMMA BufferStep ==
    TypeInv /\ LockInv /\ BufferInv /\ [Next]_vars => BufferInv'
<1> SUFFICES ASSUME TypeInv, LockInv, BufferInv, [Next]_vars PROVE BufferInv'
  OBVIOUS
<1>1. /\ buffer \in Seq(Row) /\ Len(buffer) \in Nat /\ total \in Nat
      /\ BufferSize \in Nat \ {0} /\ failures \in Nat /\ NoOne \notin Threads
      /\ \A t \in Threads : pc[t] # "idle" => life = "up"
  BY LenProperties, LoggerAssumption DEF TypeInv, TypeOK, LoggerAssumption
<1>2. ASSUME buffer' = <<>>, total' \in Nat PROVE BufferInv'
  <2>1. Len(buffer') = 0 /\ 1..0 = {}
    BY <1>2
  <2> QED BY <1>1, <1>2, <2>1 DEF BufferInv, Latest, Bounded
<1>3. CASE OpenFile
  BY <1>2, <1>3 DEF OpenFile
<1>4. CASE HeaderFlushed
  BY <1>4 DEF HeaderFlushed, callVars, historyVars, BufferInv, Latest, Bounded
<1>5. CASE Crash
  BY <1>5 DEF Crash, BufferInv
<1>6. ASSUME NEW t \in Threads, CallLog(t) \/ CallClose(t) \/ CallFlush(t)
      PROVE  BufferInv'
  <2>1. PICK name \in {"log", "close", "flush"}, place \in {"lock", "flush"} :
            Call(t, name, place)
    BY <1>6 DEF CallLog, CallClose, CallFlush
  <2>2. /\ pc[t] = "idle" /\ \A u \in Threads : u # t => pc'[u] = pc[u]
        /\ UNCHANGED <<buffer, total, session, isOpen, holder, life, failures>>
        /\ ~raced' => ~raced
    BY <2>1 DEF Call, Busy, fileVars, objectVars, TypeInv, TypeOK
  <2>3. pc[t] \notin Emptying
    BY <2>2 DEF Emptying
  <2> QED BY <2>2, <2>3, BufferKept
<1>7. ASSUME NEW t \in Threads, LogEnters(t) PROVE BufferInv'
  <2>1. /\ holder = NoOne /\ holder' = t /\ total' = total + 1
        /\ buffer' = Append(buffer, <<session, total + 1>>)
        /\ UNCHANGED <<isOpen, session, life, failures, raced>>
    BY <1>7 DEF LogEnters, objectVars, historyVars
  <2>2. <<session, total + 1>> \in Row
    <3>1. session \in 1..MaxSessions /\ total + 1 \in Nat \ {0}
      BY <1>1, <1>7 DEF LogEnters, TypeInv
    <3> QED BY <3>1 DEF Row
  <2>3. /\ Len(buffer') = Len(buffer) + 1
        /\ \A i \in 1..Len(buffer) : buffer'[i] = buffer[i]
        /\ buffer'[Len(buffer) + 1] = <<session, total + 1>>
    BY <1>1, <2>1, <2>2, AppendProperties
  <2>4. SUFFICES ASSUME Latest, Bounded PROVE Latest' /\ Bounded'
    BY <2>1 DEF BufferInv
  <2>5. Len(buffer') <= total'
    BY <1>1, <2>1, <2>3, <2>4 DEF Latest
  <2>6. ASSUME NEW i \in 1..Len(buffer')
        PROVE  buffer'[i] = <<session', total' - Len(buffer') + i>>
    <3>1. total' - Len(buffer') = total - Len(buffer)
      BY <1>1, <2>1, <2>3
    <3>2. CASE i \in 1..Len(buffer)
      BY <2>1, <2>3, <2>4, <3>1, <3>2 DEF Latest
    <3>3. CASE i = Len(buffer) + 1
      <4>1. total - Len(buffer) + i = total + 1
        BY <1>1, <3>3
      <4> QED BY <2>1, <2>3, <3>1, <3>3, <4>1
    <3> QED BY <1>1, <2>3, <3>2, <3>3
  <2>7. ASSUME isOpen PROVE Len(buffer) < BufferSize
    BY <1>1, <2>1, <2>4, <2>7 DEF Bounded
  <2>8. ASSUME Len(buffer') = BufferSize PROVE pc'[t] = "flush"
    <3>1. Full(buffer')
      BY <1>1, <2>8 DEF Full
    <3>2. Goto(t, "flush")
      BY <1>7, <3>1 DEF LogEnters
    <3> QED BY <3>2, GotoType DEF TypeInv, Places
  <2>9. Bounded'
    BY <1>1, <2>1, <2>3, <2>7, <2>8 DEF Bounded, Emptying
  <2> QED BY <2>5, <2>6, <2>9 DEF Latest
<1>8. ASSUME NEW t \in Threads, CloseEnters(t) PROVE BufferInv'
  <2>1. /\ holder = NoOne
        /\ UNCHANGED <<buffer, total, session, isOpen, life, failures, raced>>
    BY <1>8 DEF CloseEnters, objectVars, historyVars
  <2> QED BY <1>1, <2>1 DEF BufferInv, Latest, Bounded
<1>9. ASSUME NEW t \in Threads, FlushBegins(t) PROVE BufferInv'
  <2>1. UNCHANGED <<buffer, total, session, isOpen, holder, life, failures, raced>>
    BY <1>9 DEF FlushBegins, objectVars, historyVars
  <2>2. PICK place \in Places :
            Goto(t, place) /\ (isOpen /\ buffer # <<>> => place = "rows")
    BY <1>9, AfterTypes DEF FlushBegins, Places
  <2>3. pc'[t] = place /\ \A u \in Threads : u # t => pc'[u] = pc[u]
    BY <2>2, GotoType DEF TypeInv
  <2>4. isOpen /\ buffer # <<>> => pc'[t] \in Emptying
    BY <2>2, <2>3 DEF Emptying
  <2> QED BY <2>1, <2>3, <2>4, BufferKept
<1>10. ASSUME NEW t \in Threads, WriteRow(t) PROVE BufferInv'
  BY <1>10
     DEF WriteRow, objectVars, historyVars, BufferInv, Latest, Bounded
<1>11. ASSUME NEW t \in Threads, RowsWritten(t) \/ FlushDisk(t) PROVE BufferInv'
  <2>1. UNCHANGED <<buffer, total, session, isOpen, holder, life, failures, raced>>
    BY <1>11 DEF RowsWritten, FlushDisk, objectVars, historyVars
  <2>2. PICK place \in {"disk", "clear"} : Goto(t, place)
    BY <1>11 DEF RowsWritten, FlushDisk
  <2>3. pc'[t] = place /\ \A u \in Threads : u # t => pc'[u] = pc[u]
    BY <2>2, GotoType DEF TypeInv, Places
  <2> QED BY <2>1, <2>2, <2>3, BufferKept DEF Emptying
<1>12. ASSUME NEW t \in Threads, Clear(t) PROVE BufferInv'
  BY <1>1, <1>2, <1>12 DEF Clear
<1>13. ASSUME NEW t \in Threads, FlushFails(t) PROVE BufferInv'
  BY <1>1, <1>13 DEF FlushFails, BufferInv
<1>14. ASSUME NEW t \in Threads, FlushOnClosed(t) PROVE BufferInv'
  <2>1. /\ ~isOpen
        /\ UNCHANGED <<buffer, total, session, isOpen, life, failures, raced>>
    BY <1>14 DEF FlushOnClosed, objectVars, historyVars
  <2> QED BY <2>1 DEF BufferInv, Latest, Bounded
<1>15. ASSUME NEW t \in Threads, CloseFile(t) PROVE BufferInv'
  BY <1>15 DEF CloseFile, historyVars, BufferInv, Latest, Bounded
<1>16. ASSUME NEW t \in Threads, Unlock(t) PROVE BufferInv'
  <2>1. /\ pc[t] = "unlock"
        /\ UNCHANGED <<buffer, total, session, isOpen, life, failures, raced>>
    BY <1>16 DEF Unlock, objectVars, historyVars
  <2>2. holder = t /\ pc[holder] \notin Emptying
    <3>1. op[t] # "flush"
      BY <2>1 DEF LockInv, Active
    <3> QED BY <2>1, <3>1 DEF LockInv, Emptying
  <2> QED BY <2>1, <2>2 DEF BufferInv, Latest, Bounded
<1>17. CASE UNCHANGED vars
  BY <1>17 DEF vars, objectVars, callVars, historyVars, BufferInv, Latest, Bounded
<1> QED BY <1>3, <1>4, <1>5, <1>6, <1>7, <1>8, <1>9, <1>10, <1>11, <1>12,
           <1>13, <1>14, <1>15, <1>16, <1>17 DEF Next, Inside

(* A crash loses fewer rows than the buffer holds, and the one being       *)
(* logged: what is not among the latest has left the buffer, and hence is  *)
(* in the file.                                                            *)
THEOREM CrashLosesLessCorrect == Spec => []CrashLosesLess
<1>1. TypeInv /\ BooksInv /\ BufferInv => CrashLosesLess
  <2> SUFFICES ASSUME TypeInv, BooksInv, BufferInv,
                      life = "up", isOpen, failures = 0, ~raced
               PROVE  LET onFile == {i \in 1..total : <<session, i>> \in ToSet(file)}
                      IN  /\ \A i \in 1..total :
                                i + BufferSize <= total => i \in onFile
                          /\ holder = NoOne /\ total >= BufferSize =>
                                total + 1 - BufferSize \in onFile
    BY DEF CrashLosesLess
  <2>1. /\ buffer \in Seq(Row) /\ Len(buffer) \in Nat /\ total \in Nat
        /\ BufferSize \in Nat \ {0}
    BY LenProperties, LoggerAssumption DEF TypeInv, TypeOK, LoggerAssumption
  <2>2. Latest /\ Bounded /\ Books
    BY DEF BufferInv, BooksInv
  <2>3. ASSUME NEW i \in 1..total, i <= total - Len(buffer)
        PROVE  <<session, i>> \in ToSet(file)
    <3>1. <<session, i>> \in ToSet(buffer) \cup ToSet(file)
      BY <2>2 DEF Books, Rows
    <3>2. ASSUME NEW j \in 1..Len(buffer), buffer[j] = <<session, i>>
          PROVE  FALSE
      <4>1. total - Len(buffer) + j = i
        BY <2>2, <3>2 DEF Latest
      <4> QED BY <2>1, <2>3, <4>1
    <3> QED BY <2>1, <3>1, <3>2, ToSetElements
  <2>4. ASSUME NEW i \in 1..total, i + BufferSize <= total
        PROVE  <<session, i>> \in ToSet(file)
    <3>1. i <= total - Len(buffer)
      BY <2>1, <2>2, <2>4 DEF Bounded
    <3> QED BY <2>3, <3>1
  <2>5. ASSUME holder = NoOne, total >= BufferSize
        PROVE  /\ total + 1 - BufferSize \in 1..total
               /\ <<session, total + 1 - BufferSize>> \in ToSet(file)
    <3>1. Len(buffer) < BufferSize
      BY <2>1, <2>2, <2>5 DEF Bounded
    <3>2. /\ total + 1 - BufferSize \in 1..total
          /\ total + 1 - BufferSize <= total - Len(buffer)
      BY <2>1, <2>5, <3>1
    <3> QED BY <2>3, <3>2
  <2> QED BY <2>4, <2>5
<1>2. Init => BufferInv
  BY DEF Init, BufferInv
<1> QED BY <1>1, <1>2, TypeInit, TypeStep, BooksInit, LockStep, BooksStep,
           BufferStep, PTL DEF Spec

-------------------------------------------------------------------------------
(* What has left the buffer, in the file or on its way there.  Of session  *)
(* s it is rows 1..n in this order, each once.                             *)
Stream == file \o pending

Written(q, s, n) ==
    /\ \A i \in DOMAIN q : q[i][1] = s => q[i][2] \in 1..n
    /\ \A i, j \in DOMAIN q :
          q[i][1] = s /\ q[j][1] = s /\ i < j => q[i][2] < q[j][2]
    /\ \A k \in 1..n : \E i \in DOMAIN q : q[i] = <<s, k>>

LEMMA WrittenAppend ==
    ASSUME NEW q \in Seq(Item), NEW s \in Nat \ {0}, NEW n \in Nat, Written(q, s, n)
    PROVE  Written(Append(q, <<s, n + 1>>), s, n + 1)
<1> DEFINE e == <<s, n + 1>>
           c == Append(q, e)
<1>1. /\ Len(q) \in Nat /\ DOMAIN q = 1..Len(q) /\ e[1] = s /\ e[2] = n + 1
  BY LenProperties
<1>2. /\ DOMAIN c = 1..Len(q) + 1
      /\ \A i \in DOMAIN q : c[i] = q[i]
      /\ c[Len(q) + 1] = e
  OBVIOUS
<1> HIDE DEF e, c
<1>3. \A i \in DOMAIN c : i \in DOMAIN q \/ i = Len(q) + 1
  BY <1>1, <1>2
<1>4. \A i \in DOMAIN q : q[i][1] = s => q[i][2] \in 1..n
  BY DEF Written
<1>5. \A i \in DOMAIN c : c[i][1] = s => c[i][2] \in 1..n + 1
  BY <1>1, <1>2, <1>3, <1>4
<1>6. ASSUME NEW i \in DOMAIN c, NEW j \in DOMAIN c,
             c[i][1] = s, c[j][1] = s, i < j
      PROVE  c[i][2] < c[j][2]
  <2>1. i \in DOMAIN q
    BY <1>1, <1>2, <1>6
  <2>2. CASE j \in DOMAIN q
    BY <1>2, <1>6, <2>1, <2>2 DEF Written
  <2>3. CASE j = Len(q) + 1
    <3>1. c[i][2] \in 1..n /\ c[j][2] = n + 1
      BY <1>1, <1>2, <1>4, <1>6, <2>1, <2>3
    <3> QED BY <3>1
  <2> QED BY <1>3, <2>2, <2>3
<1>7. ASSUME NEW k \in 1..n + 1 PROVE \E i \in DOMAIN c : c[i] = <<s, k>>
  <2>1. CASE k = n + 1
    <3>1. Len(q) + 1 \in DOMAIN c /\ c[Len(q) + 1] = <<s, k>>
      BY <1>1, <1>2, <2>1 DEF e
    <3> QED BY <3>1
  <2>2. CASE k \in 1..n
    <3>1. PICK i \in DOMAIN q : q[i] = <<s, k>>
      BY <2>2 DEF Written
    <3> QED BY <1>1, <1>2, <3>1
  <2> QED BY <2>1, <2>2
<1>8. Written(c, s, n + 1)
  BY <1>5, <1>6, <1>7 DEF Written
<1> QED BY <1>8 DEF c, e

(* What the property says of a file, and that the beginning of a stream    *)
(* has it.                                                                 *)
InOrder(f, s) ==
    /\ \A i, j \in {h \in DOMAIN f : f[h][1] = s} : i < j => f[i][2] < f[j][2]
    /\ \A j \in {h \in DOMAIN f : f[h][1] = s} : \A n \in 1..f[j][2] - 1 :
          \E i \in 1..j - 1 : f[i] = <<s, n>>

LEMMA BeginningInOrder ==
    ASSUME NEW q \in Seq(Item), NEW f \in Seq(Item), NEW s, NEW n \in Nat,
           Written(q, s, n), Len(f) <= Len(q), \A i \in 1..Len(f) : f[i] = q[i]
    PROVE  InOrder(f, s)
<1>1. /\ Len(q) \in Nat /\ DOMAIN q = 1..Len(q)
      /\ Len(f) \in Nat /\ DOMAIN f = 1..Len(f)
  BY LenProperties
<1>2. \A i \in DOMAIN f : i \in DOMAIN q /\ f[i] = q[i]
  BY <1>1
<1>3. \A i, j \in DOMAIN f :
          f[i][1] = s /\ f[j][1] = s /\ i < j => f[i][2] < f[j][2]
  BY <1>2 DEF Written
<1>4. ASSUME NEW j \in DOMAIN f, f[j][1] = s, NEW m \in 1..f[j][2] - 1
      PROVE  \E i \in 1..j - 1 : f[i] = <<s, m>>
  <2>1. f[j][2] \in 1..n /\ q[j] = f[j] /\ j \in DOMAIN q
    BY <1>2, <1>4 DEF Written
  <2>2. m \in 1..n /\ m < q[j][2]
    BY <2>1
  <2>3. PICK i \in DOMAIN q : q[i] = <<s, m>>
    BY <2>2 DEF Written
  <2>4. q[i][1] = s /\ q[i][2] = m /\ q[j][1] = s
    BY <1>4, <2>1, <2>3
  <2>5. ~(j < i)
    <3>1. j < i => q[j][2] < q[i][2]
      BY <2>1, <2>4 DEF Written
    <3> QED BY <2>1, <2>2, <2>4, <3>1
  <2>6. i # j
    BY <2>1, <2>2, <2>4
  <2>7. i \in 1..j - 1 /\ i \in 1..Len(f)
    BY <1>1, <2>5, <2>6
  <2> QED BY <2>3, <2>7
<1> QED BY <1>3, <1>4 DEF InOrder

(* Rows of this session and earlier ones.                                  *)
Upto(s) == {e \in Item : e[1] \in 0..s}

(* How far writerows() has come.  It does not outlive the open file.       *)
Progress ==
    /\ \A t \in Threads :
          pc[t] = "rows" =>
              /\ isOpen
              /\ next[t] <= Len(buffer) + 1
              /\ Written(Stream, session, total - Len(buffer) + next[t] - 1)
    /\ \A t \in Threads : pc[t] = "disk" => isOpen
    /\ \A t \in Threads :
          pc[t] \in {"disk", "clear"} => Written(Stream, session, total)
    /\ (\A t \in Threads : pc[t] \notin {"rows", "disk", "clear"}) =>
          Written(Stream, session, total - Len(buffer))

KnownSessions ==
    /\ file \in Seq(Upto(session)) /\ pending \in Seq(Upto(session))
    /\ buffer \in Seq(Upto(session))

OrderInv ==
    /\ KnownSessions
    /\ life = "down" => InOrderOnce
    /\ life # "down" /\ failures = 0 /\ ~raced => Progress

LEMMA SessionsStep == TypeInv /\ KnownSessions /\ [Next]_vars => KnownSessions'
<1> SUFFICES ASSUME TypeInv, KnownSessions, [Next]_vars PROVE KnownSessions'
  OBVIOUS
<1> DEFINE U == Upto(session)
<1>1. /\ file \in Seq(U) /\ pending \in Seq(U) /\ buffer \in Seq(U)
      /\ <<>> \in Seq(U)
      /\ Len(pending) \in Nat /\ session \in Nat /\ Len(buffer) \in Nat
      /\ next \in [Threads -> Nat \ {0}] /\ total \in Nat
  BY LenProperties, LoggerAssumption
     DEF KnownSessions, TypeInv, TypeOK, LoggerAssumption
<1>2. file \o pending \in Seq(U)
  BY <1>1, ConcatProperties
<1>3. ASSUME NEW k \in 0..Len(pending), NEW m \in 0..Len(pending)
      PROVE  /\ file \o SubSeq(pending, 1, k) \in Seq(U)
             /\ SubSeq(pending, k + 1, m) \in Seq(U)
  <2>1. SubSeq(pending, 1, k) \in Seq(U)
    BY <1>1, PartType
  <2>2. k + 1 \in Nat \ {0}
    BY <1>1
  <2>3. SubSeq(pending, k + 1, m) \in Seq(U)
    BY <1>1, <2>2, PartType
  <2> QED BY <1>1, <2>1, <2>3, ConcatProperties
<1>4. CASE OpenFile
  <2>1. /\ session' = session + 1 /\ file' = file /\ buffer' = <<>>
        /\ pending' = <<>> \/ pending' = <<Header>>
    BY <1>4 DEF OpenFile
  <2>2. U \subseteq Upto(session + 1)
    BY <1>1 DEF Upto
  <2>3. Header \in Upto(session + 1)
    BY <1>1 DEF Upto, Header, Item
  <2> HIDE DEF U
  <2>4. file \in Seq(Upto(session + 1))
    BY <1>1, <2>2
  <2>5. <<>> \in Seq(Upto(session + 1)) /\ <<Header>> \in Seq(Upto(session + 1))
    BY <2>3
  <2> QED BY <2>1, <2>4, <2>5 DEF KnownSessions
<1> HIDE DEF U
<1>5. CASE HeaderFlushed
  BY <1>1, <1>2, <1>5 DEF HeaderFlushed, U, KnownSessions
<1>6. CASE Crash
  BY <1>1, <1>3, <1>6 DEF Crash, U, KnownSessions
<1>7. CASE UNCHANGED <<file, pending, session>> /\ buffer' \in {buffer, <<>>}
  BY <1>1, <1>7 DEF U, KnownSessions
<1>8. ASSUME NEW t \in Threads, CallLog(t) \/ CallClose(t) \/ CallFlush(t)
      PROVE  KnownSessions'
  BY <1>7, <1>8 DEF CallLog, CallClose, CallFlush, Call, fileVars, objectVars
<1>9. ASSUME NEW t \in Threads,
              \/ CloseEnters(t) \/ FlushBegins(t) \/ RowsWritten(t)
              \/ Clear(t) \/ FlushOnClosed(t) \/ Unlock(t)
      PROVE  KnownSessions'
  BY <1>7, <1>9
     DEF CloseEnters, FlushBegins, RowsWritten, Clear, FlushOnClosed, Unlock,
         fileVars, objectVars
<1>10. ASSUME NEW t \in Threads, LogEnters(t) PROVE KnownSessions'
  <2>1. <<session, total + 1>> \in U
    <3>1. life = "up" /\ total + 1 \in Nat \ {0}
      BY <1>1, <1>10 DEF LogEnters, TypeInv
    <3>2. session \in 1..MaxSessions
      BY <3>1 DEF TypeInv
    <3> QED BY <1>1, <3>1, <3>2 DEF U, Upto, Item, Row
  <2> QED BY <1>1, <1>10, <2>1, AppendProperties
          DEF LogEnters, fileVars, objectVars, U, KnownSessions
<1>11. ASSUME NEW t \in Threads, FlushDisk(t) \/ CloseFile(t)
       PROVE  KnownSessions'
  BY <1>1, <1>2, <1>11 DEF FlushDisk, CloseFile, objectVars, U, KnownSessions
<1>12. ASSUME NEW t \in Threads, FlushFails(t) PROVE KnownSessions'
  BY <1>1, <1>3, <1>12 DEF FlushFails, objectVars, U, KnownSessions
<1>13. ASSUME NEW t \in Threads, WriteRow(t) PROVE KnownSessions'
  <2>1. next[t] \in 1..Len(buffer)
    BY <1>1, <1>13 DEF WriteRow
  <2>2. buffer[next[t]] \in U
    BY <1>1, <2>1, ElementOfSeq
  <2> QED BY <1>1, <1>13, <2>2, AppendProperties
          DEF WriteRow, fileVars, objectVars, U, KnownSessions
<1>14. CASE UNCHANGED vars
  BY <1>7, <1>14 DEF vars, fileVars, objectVars
<1> QED BY <1>4, <1>5, <1>6, <1>8, <1>9, <1>10, <1>11, <1>12, <1>13, <1>14
        DEF Next, Inside

(* A step of a thread that is alone in its block has only its own progress *)
(* to account for.                                                         *)
Writing == {"rows", "disk", "clear"}

LEMMA ProgressKept ==
    ASSUME TypeInv, LockInv, ~raced, NEW t \in Threads,
           pc[t] \in Active \/ (pc[t] = "lock" /\ holder = NoOne),
           \A u \in Threads : u # t => pc'[u] = pc[u],
           pc'[t] = "rows" =>
               /\ isOpen'
               /\ next'[t] <= Len(buffer') + 1
               /\ Written(Stream', session', total' - Len(buffer') + next'[t] - 1),
           pc'[t] = "disk" => isOpen',
           pc'[t] \in {"disk", "clear"} => Written(Stream', session', total'),
           pc'[t] \notin Writing => Written(Stream', session', total' - Len(buffer'))
    PROVE  Progress'
<1>1. \A u \in Threads \ {t} : pc'[u] \notin Writing
  <2>1. ASSUME NEW u \in Threads \ {t} PROVE pc[u] \notin Active
    BY Alone
  <2> QED BY <2>1 DEF Active, Writing
<1> QED BY <1>1 DEF Progress, Writing

LEMMA ProgressStep ==
    ASSUME TypeInv, LockInv, BufferInv, OrderInv, Next,
           life # "down", life' # "down",
           failures = 0, ~raced, failures' = 0, ~raced'
    PROVE  Progress'
<1> USE DEF Active, Writing
<1>1. /\ Progress /\ Latest
  BY DEF OrderInv, BufferInv
<1>2. /\ file \in Seq(Item) /\ pending \in Seq(Item) /\ buffer \in Seq(Row)
      /\ Len(buffer) \in Nat /\ total \in Nat
      /\ next \in [Threads -> Nat \ {0}]
      /\ \A t \in Threads : pc[t] # "idle" => life = "up"
  BY LenProperties DEF TypeInv, TypeOK, Item
<1>3. /\ Stream \in Seq(Item) /\ Stream \o <<>> = Stream
      /\ total - Len(buffer) \in Nat
  <2>1. Stream \in Seq(Item)
    BY <1>2, ConcatProperties DEF Stream
  <2>2. total - Len(buffer) \in Nat
    BY <1>1, <1>2 DEF Latest
  <2> QED BY <2>1, <2>2, ConcatEmptySeq
<1>4. ASSUME NEW t \in Threads, pc[t] \in Active \/ (pc[t] = "lock" /\ holder = NoOne),
             pc[t] \notin Writing
      PROVE  Written(Stream, session, total - Len(buffer))
  <2>1. \A u \in Threads : pc[u] \notin Writing
    BY <1>4, Alone
  <2> QED BY <1>1, <2>1 DEF Progress
<1>5. CASE OpenFile
  BY <1>5 DEF OpenFile
<1>6. CASE HeaderFlushed
  <2>1. /\ \A t \in Threads : pc[t] = "idle" /\ pc'[t] = "idle"
        /\ UNCHANGED <<session, buffer, total>>
        /\ file' = Stream /\ pending' = <<>>
    BY <1>6 DEF HeaderFlushed, callVars, TypeInv, Stream
  <2>2. Stream' = Stream
    BY <1>3, <2>1 DEF Stream
  <2>3. Written(Stream, session, total - Len(buffer))
    BY <1>1, <2>1 DEF Progress
  <2> QED BY <2>1, <2>2, <2>3 DEF Progress
<1>7. CASE Crash
  BY <1>7 DEF Crash
<1>8. ASSUME NEW t \in Threads, CallLog(t) \/ CallClose(t) \/ CallFlush(t)
      PROVE  Progress'
  <2>1. PICK name \in {"log", "close", "flush"}, place \in {"lock", "flush"} :
            Call(t, name, place)
    BY <1>8 DEF CallLog, CallClose, CallFlush
  <2>2. /\ pc[t] = "idle" /\ pc'[t] \in {"lock", "flush"}
        /\ \A u \in Threads : u # t => pc'[u] = pc[u]
        /\ UNCHANGED <<file, pending, buffer, total, session, isOpen, next>>
    BY <2>1 DEF Call, Busy, fileVars, objectVars, TypeInv, TypeOK
  <2>3. Stream' = Stream
    BY <2>2 DEF Stream
  <2>4. \A u \in Threads : pc'[u] \in Writing => pc'[u] = pc[u]
    BY <2>2
  <2>5. \A u \in Threads : pc[u] \in Writing => pc'[u] = pc[u]
    BY <2>2
  <2> QED BY <1>1, <2>2, <2>3, <2>4, <2>5 DEF Progress
<1>9. ASSUME NEW t \in Threads, LogEnters(t) PROVE Progress'
  <2>1. /\ pc[t] = "lock" /\ holder = NoOne /\ total' = total + 1
        /\ buffer' = Append(buffer, <<session, total + 1>>)
        /\ UNCHANGED <<file, pending, session>>
    BY <1>9 DEF LogEnters, fileVars, objectVars
  <2>2. PICK place \in {"flush", "unlock"} : Goto(t, place)
    BY <1>9 DEF LogEnters
  <2>3. /\ pc'[t] \in {"flush", "unlock"}
        /\ \A u \in Threads : u # t => pc'[u] = pc[u]
    BY <2>2, GotoType DEF TypeInv, Places
  <2>4. Len(buffer') = Len(buffer) + 1
    <3>1. <<session, total + 1>> \in Row
      <4>1. session \in 1..MaxSessions /\ total + 1 \in Nat \ {0}
        BY <1>2, <2>1 DEF TypeInv
      <4> QED BY <4>1 DEF Row
    <3> QED BY <1>2, <2>1, <3>1, AppendProperties
  <2>5. Stream' = Stream /\ total' - Len(buffer') = total - Len(buffer)
    BY <1>2, <2>1, <2>4 DEF Stream
  <2>6. Written(Stream, session, total - Len(buffer))
    BY <1>4, <2>1
  <2> QED BY <2>1, <2>3, <2>5, <2>6, ProgressKept
<1>10. ASSUME NEW t \in Threads, CloseEnters(t) PROVE Progress'
  <2>1. /\ pc[t] = "lock" /\ holder = NoOne /\ Goto(t, "flush")
        /\ UNCHANGED <<file, pending, session, buffer, total>>
    BY <1>10 DEF CloseEnters, fileVars, objectVars
  <2>2. pc'[t] = "flush" /\ \A u \in Threads : u # t => pc'[u] = pc[u]
    BY <2>1, GotoType DEF TypeInv, Places
  <2>3. Written(Stream, session, total - Len(buffer)) /\ Stream' = Stream
    BY <1>4, <2>1 DEF Stream
  <2> QED BY <2>1, <2>2, <2>3, ProgressKept
<1>11. ASSUME NEW t \in Threads, FlushBegins(t) PROVE Progress'
  <2>1. /\ pc[t] = "flush" /\ next' = next /\ next[t] = 1
        /\ UNCHANGED <<file, pending, session, isOpen, buffer, total>>
    BY <1>11 DEF FlushBegins, fileVars, objectVars, LockInv
  <2>2. PICK place \in {"rows", AfterFlush(t)} :
            Goto(t, place) /\ (place = "rows" => isOpen)
    <3>1. CASE isOpen /\ buffer # <<>>
      BY <1>11, <3>1 DEF FlushBegins
    <3>2. CASE ~(isOpen /\ buffer # <<>>)
      BY <1>11, <3>2 DEF FlushBegins, AfterFlush
    <3> QED BY <3>1, <3>2
  <2>3. place \in {"rows", "unlock", "close", "idle"}
    BY <2>2 DEF AfterFlush
  <2>4. pc'[t] = place /\ \A u \in Threads : u # t => pc'[u] = pc[u]
    BY <2>2, <2>3, GotoType DEF TypeInv, Places
  <2>5. Written(Stream, session, total - Len(buffer)) /\ Stream' = Stream
    BY <1>4, <2>1 DEF Stream
  <2>6. /\ next'[t] <= Len(buffer') + 1
        /\ total' - Len(buffer') + next'[t] - 1 = total - Len(buffer)
    BY <1>2, <2>1
  <2> QED BY <2>1, <2>2, <2>3, <2>4, <2>5, <2>6, ProgressKept
<1>12. ASSUME NEW t \in Threads, WriteRow(t) PROVE Progress'
  <2>1. /\ pc[t] = "rows" /\ pc' = pc /\ next'[t] = next[t] + 1
        /\ next[t] \in 1..Len(buffer)
        /\ pending' = Append(pending, buffer[next[t]])
        /\ UNCHANGED <<file, session, isOpen, buffer, total>>
    BY <1>2, <1>12 DEF WriteRow, fileVars, objectVars
  <2> DEFINE n == total - Len(buffer) + next[t] - 1
  <2>2. n \in Nat /\ n + 1 = total - Len(buffer) + next[t]
    BY <1>2, <1>3, <2>1
  <2>3. Written(Stream, session, n) /\ isOpen
    BY <1>1, <2>1 DEF Progress
  <2>4. buffer[next[t]] = <<session, n + 1>>
    BY <1>1, <2>1, <2>2 DEF Latest
  <2>5. <<session, n + 1>> \in Item
    <3>1. buffer[next[t]] \in Row
      BY <1>2, <2>1, ElementOfSeq
    <3> QED BY <2>4, <3>1 DEF Item
  <2>6. Stream' = Append(Stream, <<session, n + 1>>)
    <3> HIDE DEF n
    <3>1. Stream' = file \o Append(pending, <<session, n + 1>>)
      BY <2>1, <2>4 DEF Stream
    <3>2. ASSUME NEW e \in Item
          PROVE  file \o Append(pending, e) = Append(file \o pending, e)
      BY <1>2
    <3> QED BY <2>5, <3>1, <3>2 DEF Stream
  <2>7. session \in Nat \ {0}
    BY <1>2, <2>1, LoggerAssumption DEF TypeInv, LoggerAssumption
  <2>8. Written(Stream', session', n + 1)
    <3> HIDE DEF n
    <3> QED BY <1>3, <2>1, <2>2, <2>3, <2>6, <2>7, WrittenAppend
  <2>9. total' - Len(buffer') + next'[t] - 1 = n + 1
    BY <1>2, <2>1, <2>2
  <2>10. next'[t] <= Len(buffer') + 1
    BY <1>2, <2>1
  <2> HIDE DEF n
  <2> QED BY <2>1, <2>3, <2>8, <2>9, <2>10, ProgressKept
<1>13. ASSUME NEW t \in Threads, RowsWritten(t) PROVE Progress'
  <2>1. /\ pc[t] = "rows" /\ next[t] > Len(buffer) /\ Goto(t, "disk")
        /\ UNCHANGED <<file, pending, session, isOpen, buffer, total>>
    BY <1>13 DEF RowsWritten, fileVars, objectVars
  <2>2. pc'[t] = "disk" /\ \A u \in Threads : u # t => pc'[u] = pc[u]
    BY <2>1, GotoType DEF TypeInv, Places
  <2>3. /\ isOpen /\ next[t] <= Len(buffer) + 1
        /\ Written(Stream, session, total - Len(buffer) + next[t] - 1)
    BY <1>1, <2>1 DEF Progress
  <2>4. total - Len(buffer) + next[t] - 1 = total
    <3>1. next[t] \in Nat
      BY <1>2
    <3> QED BY ONLY <1>2, <2>1, <2>3, <3>1
  <2>5. Stream' = Stream /\ Written(Stream, session, total)
    BY <2>1, <2>3, <2>4 DEF Stream
  <2> QED BY <2>1, <2>2, <2>3, <2>5, ProgressKept
<1>14. ASSUME NEW t \in Threads, FlushDisk(t) PROVE Progress'
  <2>1. /\ pc[t] = "disk" /\ Goto(t, "clear")
        /\ file' = Stream /\ pending' = <<>>
        /\ UNCHANGED <<session, isOpen, buffer, total>>
    BY <1>14 DEF FlushDisk, objectVars, Stream
  <2>2. pc'[t] = "clear" /\ \A u \in Threads : u # t => pc'[u] = pc[u]
    BY <2>1, GotoType DEF TypeInv, Places
  <2>3. Stream' = Stream /\ Written(Stream, session, total)
    BY <1>1, <1>3, <2>1 DEF Stream, Progress
  <2> QED BY <2>1, <2>2, <2>3, ProgressKept
<1>15. ASSUME NEW t \in Threads, Clear(t) PROVE Progress'
  <2>1. /\ pc[t] = "clear" /\ buffer' = <<>> /\ Goto(t, AfterFlush(t))
        /\ UNCHANGED <<file, pending, session, total>>
    BY <1>15 DEF Clear, fileVars, objectVars
  <2>2. AfterFlush(t) \in {"unlock", "close", "idle"}
    BY DEF AfterFlush
  <2>3. /\ pc'[t] \in {"unlock", "close", "idle"}
        /\ \A u \in Threads : u # t => pc'[u] = pc[u]
    BY <2>1, <2>2, GotoType DEF TypeInv, Places
  <2>4. Stream' = Stream /\ Written(Stream, session, total)
    BY <1>1, <2>1 DEF Stream, Progress
  <2>5. total' - Len(buffer') = total
    BY <1>2, <2>1
  <2> QED BY <2>1, <2>3, <2>4, <2>5, ProgressKept
<1>16. ASSUME NEW t \in Threads, FlushFails(t) PROVE Progress'
  BY <1>16 DEF FlushFails
<1>17. ASSUME NEW t \in Threads, FlushOnClosed(t) PROVE Progress'
  BY <1>1, <1>17 DEF FlushOnClosed, Progress
<1>18. ASSUME NEW t \in Threads, CloseFile(t) PROVE Progress'
  <2>1. /\ pc[t] = "close" /\ Goto(t, "unlock")
        /\ file' = Stream /\ pending' = <<>>
        /\ UNCHANGED <<session, buffer, total>>
    BY <1>18 DEF CloseFile, Stream
  <2>2. pc'[t] = "unlock" /\ \A u \in Threads : u # t => pc'[u] = pc[u]
    BY <2>1, GotoType DEF TypeInv, Places
  <2>3. Stream' = Stream /\ Written(Stream, session, total - Len(buffer))
    BY <1>3, <1>4, <2>1 DEF Stream
  <2> QED BY <2>1, <2>2, <2>3, ProgressKept
<1>19. ASSUME NEW t \in Threads, Unlock(t) PROVE Progress'
  <2>1. /\ pc[t] = "unlock" /\ Goto(t, "idle")
        /\ UNCHANGED <<file, pending, session, isOpen, buffer, total, next>>
    BY <1>19 DEF Unlock, fileVars, objectVars
  <2>2. pc'[t] = "idle" /\ \A u \in Threads : u # t => pc'[u] = pc[u]
    BY <2>1, GotoType DEF TypeInv, Places
  <2>3. \A u \in Threads :
            \/ pc'[u] = pc[u]
            \/ pc'[u] \notin Writing /\ pc[u] \notin Writing
    BY <2>1, <2>2
  <2>4. Stream' = Stream
    BY <2>1 DEF Stream
  <2> QED BY <1>1, <2>1, <2>3, <2>4 DEF Progress
<1> QED BY <1>5, <1>6, <1>7, <1>8, <1>9, <1>10, <1>11, <1>12, <1>13, <1>14,
           <1>15, <1>16, <1>17, <1>18, <1>19 DEF Next, Inside

(* While the logger lives, the stream has what it should.                  *)
LEMMA StreamWritten ==
    ASSUME TypeInv, Latest, Progress
    PROVE  \E n \in Nat : Written(Stream, session, n)
<1>1. /\ Len(buffer) \in Nat /\ total \in Nat /\ total - Len(buffer) \in Nat
      /\ next \in [Threads -> Nat \ {0}]
  BY LenProperties DEF TypeInv, TypeOK, Latest
<1>2. ASSUME NEW t \in Threads, pc[t] = "rows"
      PROVE  \E n \in Nat : Written(Stream, session, n)
  <2>1. total - Len(buffer) + next[t] - 1 \in Nat
    BY <1>1
  <2> QED BY <1>2, <2>1 DEF Progress
<1> QED BY <1>1, <1>2 DEF Progress

LEMMA LivingInOrder ==
    ASSUME TypeInv, Latest, Progress, NEW k \in 0..Len(pending),
           NEW f, f = file \o SubSeq(pending, 1, k)
    PROVE  InOrder(f, session)
<1>1. PICK n \in Nat : Written(Stream, session, n)
  BY StreamWritten
<1>2. /\ file \in Seq(Item) /\ pending \in Seq(Item)
      /\ Len(file) \in Nat /\ Len(pending) \in Nat
  BY LenProperties DEF TypeInv, TypeOK, Item
<1>3. /\ SubSeq(pending, 1, k) \in Seq(Item)
      /\ Len(SubSeq(pending, 1, k)) = k
      /\ \A i \in 1..k : SubSeq(pending, 1, k)[i] = pending[i]
  <2>1. SubSeq(pending, 1, k) \in Seq(Item)
    BY <1>2, PartType
  <2> QED BY <1>2, <2>1
<1>4. /\ Stream \in Seq(Item) /\ Len(Stream) = Len(file) + Len(pending)
      /\ \A i \in 1..Len(file) + Len(pending) :
            Stream[i] = IF i <= Len(file) THEN file[i] ELSE pending[i - Len(file)]
  BY <1>2, ConcatProperties DEF Stream
<1> DEFINE r == SubSeq(pending, 1, k)
<1> HIDE DEF r
<1>5. r \in Seq(Item) /\ Len(r) = k /\ \A i \in 1..k : r[i] = pending[i]
  BY <1>3 DEF r
<1>6. /\ f \in Seq(Item) /\ Len(f) = Len(file) + k
      /\ \A i \in 1..Len(file) + k :
            f[i] = IF i <= Len(file) THEN file[i] ELSE r[i - Len(file)]
  BY <1>2, <1>5, ConcatProperties DEF r
<1>7. ASSUME NEW i \in 1..Len(f) PROVE f[i] = Stream[i]
  <2>1. i \in 1..Len(file) + k /\ i \in 1..Len(file) + Len(pending)
    BY <1>2, <1>6
  <2>2. CASE i <= Len(file)
    BY <1>4, <1>6, <2>1, <2>2
  <2>3. CASE i > Len(file)
    <3>1. i - Len(file) \in 1..k
      BY <1>2, <2>1, <2>3
    <3> QED BY <1>2, <1>4, <1>5, <1>6, <2>1, <2>3, <3>1
  <2> QED BY <1>2, <2>1, <2>2, <2>3
<1>8. Len(f) <= Len(Stream)
  BY <1>2, <1>4, <1>6
<1> QED BY <1>1, <1>4, <1>6, <1>7, <1>8, BeginningInOrder

LEMMA InOrderOnceIs ==
    InOrderOnce <=> (failures = 0 /\ ~raced => InOrder(file, session))
BY DEF InOrderOnce, InOrder

LEMMA OrderHolds == TypeInv /\ BufferInv /\ OrderInv => InOrderOnce
<1> SUFFICES ASSUME TypeInv, BufferInv, OrderInv, life # "down",
                    failures = 0, ~raced
             PROVE  InOrder(file, session)
  BY InOrderOnceIs DEF OrderInv
<1>1. Latest /\ Progress
  BY DEF BufferInv, OrderInv
<1>2. file \in Seq(Item) /\ pending \in Seq(Item) /\ Len(pending) \in Nat
  BY LenProperties DEF TypeInv, TypeOK, Item
<1>3. file = file \o SubSeq(pending, 1, 0) /\ 0 \in 0..Len(pending)
  BY <1>2, SubSeqEmpty, ConcatEmptySeq
<1> QED BY <1>1, <1>3, LivingInOrder

LEMMA OrderStep ==
    TypeInv /\ LockInv /\ BufferInv /\ OrderInv /\ [Next]_vars => OrderInv'
<1> SUFFICES ASSUME TypeInv, LockInv, BufferInv, OrderInv, [Next]_vars
             PROVE  OrderInv'
  OBVIOUS
<1>1. KnownSessions'
  BY SessionsStep DEF OrderInv
<1>2. CASE UNCHANGED vars
  <2>1. OrderInv = OrderInv'
    BY <1>2 DEF vars, fileVars, objectVars, callVars, historyVars, OrderInv,
                KnownSessions, InOrderOnce, Progress, Stream
  <2> QED BY <2>1
<1>3. CASE OpenFile
  <2>1. /\ life' = "boot" /\ total' = 0 /\ buffer' = <<>> /\ file' = file
        /\ session' = session + 1 /\ pc' = pc /\ life = "down"
        /\ pending' \in {<<>>, <<Header>>}
    BY <1>3 DEF OpenFile, callVars
  <2>2. session \in Nat /\ file \in Seq(Upto(session)) /\ Len(file) \in Nat
    BY LoggerAssumption, LenProperties
       DEF TypeInv, TypeOK, OrderInv, KnownSessions, LoggerAssumption
  <2>3. \A t \in Threads : pc'[t] = "idle"
    BY <2>1 DEF TypeInv
  <2>4. Len(buffer') = 0 /\ 1..0 = {}
    BY <2>1
  <2>5. \A i \in DOMAIN (Stream') : (Stream')[i][1] # session'
    <3>1. \A i \in 1..Len(file) : file[i][1] \in 0..session
      BY <2>2, ElementOfSeq DEF Upto
    <3>2. Header[1] = 0
      BY DEF Header
    <3>3. CASE pending' = <<>>
      <4>1. Stream' = file /\ DOMAIN file = 1..Len(file)
        BY <2>1, <2>2, <3>3, ConcatEmptySeq, LenProperties DEF Stream
      <4> QED BY <2>1, <2>2, <3>1, <4>1
    <3>4. CASE pending' = <<Header>>
      <4>1. Stream' = Append(file, Header)
        BY <2>1, <2>2, <3>4, AppendIsConcat DEF Stream
      <4>2. /\ DOMAIN (Stream') = 1..Len(file) + 1
            /\ \A i \in 1..Len(file) : (Stream')[i] = file[i]
            /\ (Stream')[Len(file) + 1] = Header
        BY <2>2, <4>1
      <4> QED BY <2>1, <2>2, <3>1, <3>2, <4>2
    <3> QED BY <2>1, <3>3, <3>4
  <2>6. Written(Stream', session', 0)
    BY <2>4, <2>5 DEF Written
  <2>7. Progress'
    BY <2>1, <2>3, <2>4, <2>6 DEF Progress
  <2> QED BY <1>1, <2>1, <2>7 DEF OrderInv
<1>4. CASE Crash
  <2>1. PICK k \in 0..Len(pending) : file' = file \o SubSeq(pending, 1, k)
    BY <1>4 DEF Crash
  <2>2. /\ life # "down" /\ life' = "down"
        /\ UNCHANGED <<session, failures, raced>>
    BY <1>4 DEF Crash, historyVars
  <2>3. ASSUME failures = 0, ~raced PROVE InOrder(file', session)
    <3>1. Latest /\ Progress
      BY <2>2, <2>3 DEF BufferInv, OrderInv
    <3> QED BY <2>1, <3>1, LivingInOrder
  <2>4. InOrderOnce'
    BY <2>2, <2>3 DEF InOrderOnce, InOrder
  <2> QED BY <1>1, <2>2, <2>4 DEF OrderInv
<1>5. ASSUME Next, ~OpenFile, ~Crash PROVE OrderInv'
  <2>1. life # "down" /\ life' # "down" /\ (failures' = 0 => failures = 0)
        /\ (~raced' => ~raced)
    <3>1. CASE HeaderFlushed
      BY <3>1 DEF HeaderFlushed, historyVars
    <3>2. ASSUME NEW t \in Threads, CallLog(t) \/ CallClose(t) \/ CallFlush(t)
          PROVE  life # "down" /\ life' = life /\ failures' = failures /\ (~raced' => ~raced)
      BY <3>2 DEF CallLog, CallClose, CallFlush, Call, objectVars
    <3>3. ASSUME NEW t \in Threads, LogEnters(t) \/ CloseEnters(t) \/ Inside(t)
          PROVE  pc[t] # "idle" /\ life' = life /\ raced' = raced
                 /\ failures' \in {failures, failures + 1}
      BY <3>3 DEF LogEnters, CloseEnters, Inside, FlushBegins, WriteRow,
         RowsWritten, FlushDisk, Clear, FlushFails, FlushOnClosed, CloseFile,
         Unlock, objectVars, historyVars
    <3>4. failures \in Nat /\ \A t \in Threads : pc[t] # "idle" => life = "up"
      BY DEF TypeInv, TypeOK
    <3> QED BY <1>5, <3>1, <3>2, <3>3, <3>4 DEF Next
  <2>2. failures' = 0 /\ ~raced' => Progress'
    BY <1>5, <2>1, ProgressStep
  <2> QED BY <1>1, <2>1, <2>2 DEF OrderInv
<1> QED BY <1>2, <1>3, <1>4, <1>5

(* Unless a write fails, the rows of a session are in the file in order,   *)
(* each once and without a gap.                                            *)
THEOREM InOrderOnceCorrect == Spec => []InOrderOnce
<1>1. Init => BufferInv /\ OrderInv
  <2> SUFFICES ASSUME Init PROVE BufferInv /\ OrderInv
    OBVIOUS
  <2>1. file = <<>> /\ pending = <<>> /\ buffer = <<>> /\ life = "down"
    BY DEF Init
  <2>2. InOrderOnce
    BY <2>1 DEF InOrderOnce
  <2>3. KnownSessions
    BY <2>1 DEF KnownSessions
  <2> QED BY <2>1, <2>2, <2>3 DEF BufferInv, OrderInv
<1> QED BY <1>1, TypeInit, TypeStep, BooksInit, LockStep, BufferStep,
           OrderStep, OrderHolds, PTL DEF Spec

==============================================================================

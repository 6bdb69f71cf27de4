--------------------------- MODULE ModelStoreProofs ---------------------------
(***************************************************************************)
(* Theorems about ModelStore for any programs and any number of calls of   *)
(* save() and of faults.  The files belong to the programs that write      *)
(* them, so the argument is about a save() that meets no other: it holds   *)
(* the highest number there is, and what it has written stays.             *)
(***************************************************************************)
EXTENDS ModelStore, TLAPS

(* Every number in use is that of a save() that has begun.                 *)
NumberInv ==
    /\ \A f \in Files :
          /\ group[f] \subseteq 1 .. saves
          /\ finished[f] \subseteq 1 .. saves
          /\ file[f] \in (1 .. saves) \cup {Absent, Torn}
    /\ \A p \in Programs : pc[p] \in Saving => call[p].mine \in 1 .. saves

(* What is in the model file has been written to the end.                  *)
SavedInv ==
    /\ file["model"] \in saved \cup {Absent, Torn}
    /\ finished["model"] \subseteq saved
    /\ \A p \in Programs :
          pc[p] \in {"export", "exporting"} => call[p].mine \in saved
    /\ ServedIsSaved

(* A save() that has met no other is the only one and the latest, and has  *)
(* its files to itself.                                                    *)
LoneInv ==
    /\ \A p \in Programs : call[p].lone =>
          /\ pc[p] \in Saving
          /\ call[p].mine = saves
          /\ \A q \in Programs : pc[q] \in Saving => q = p
          /\ pc[p] = "dumping" => group["model"] = {saves}
          /\ pc[p] # "dumping" => file["model"] = saves
          /\ pc[p] = "exporting" => group["meta"] = {saves}
    /\ \A p \in Programs : pc[p] \in Saving /\ ~call[p].lone => mixed
    /\ MetaNeverAhead

(* After a save() that was whole and alone the files agree, and what a     *)
(* calm audit has read of one is still what the other holds.               *)
AuditInv ==
    /\ (\A p \in Programs : pc[p] \notin Saving) /\ ~broken =>
          file["model"] = file["meta"]
    /\ \A p \in Programs : call[p].calm =>
          /\ pc[p] = "audit"
          /\ \A q \in Programs : pc[q] \notin Saving
          /\ file["model"] = call[p].meta

StoreInv == TypeOK /\ NumberInv /\ SavedInv /\ LoneInv /\ AuditInv

(* The types of a call's local state and of a program's place.             *)
Calls == [keeps : BOOLEAN, mine : 0 .. MaxSaves, lone : BOOLEAN,
          meta : Numbers \cup {Absent}, calm : BOOLEAN]

Stages == {"load", "train", "evaluate", "dump", "audit"} \cup Saving \cup Rest

(* Nothing is written before the first step.                               *)
LEMMA StoreInit == Init => StoreInv
<1> SUFFICES ASSUME Init PROVE StoreInv
  OBVIOUS
<1> USE StoreAssumption DEF StoreAssumption, Init
<1>1. NoCall \in Calls
  BY DEF NoCall, Calls, Numbers
<1>2. call \in [Programs -> Calls]
  BY <1>1
<1>3. TypeOK
  <2>1. pc \in [Programs -> Stages]
    BY DEF Stages, Rest
  <2>2. /\ file \in [Files -> Numbers \cup {Absent, Torn}]
        /\ cache \in [Programs -> Numbers \cup {Absent}]
    OBVIOUS
  <2>3. /\ group \in [Files -> SUBSET Numbers]
        /\ finished \in [Files -> SUBSET Numbers]
    OBVIOUS
  <2>4. saves \in 0 .. MaxSaves /\ faults \in 0 .. MaxFaults
    OBVIOUS
  <2> QED BY <1>2, <2>1, <2>2, <2>3, <2>4 DEF TypeOK, Calls, Stages
<1>4. \A p \in Programs : ~call[p].lone /\ ~call[p].calm /\ pc[p] = "down"
  BY DEF NoCall
<1>5. NumberInv /\ SavedInv /\ AuditInv
  BY <1>4 DEF NumberInv, SavedInv, AuditInv, ServedIsSaved, Files, Saving
<1>6. LoneInv
  BY <1>4 DEF LoneInv, MetaNeverAhead, Loads, Files, Saving
<1> QED BY <1>3, <1>5, <1>6 DEF StoreInv

-------------------------------------------------------------------------------
(* The type invariant.                                                     *)

(* An open() or a close() of a save() keeps the types of the files.        *)
LEMMA OpensTyped ==
  ASSUME TypeOK, NEW f \in Files, NEW number \in Numbers, Opens(f, number)
  PROVE  /\ file' \in [Files -> Numbers \cup {Absent, Torn}]
         /\ group' \in [Files -> SUBSET Numbers]
         /\ finished' \in [Files -> SUBSET Numbers]
BY DEF TypeOK, Opens

LEMMA ClosesTyped ==
  ASSUME TypeOK, NEW f \in Files, NEW number \in Numbers, Closes(f, number)
  PROVE  /\ file' \in [Files -> Numbers \cup {Absent, Torn}]
         /\ group' \in [Files -> SUBSET Numbers]
         /\ finished' \in [Files -> SUBSET Numbers]
<1>1. group' \in [Files -> SUBSET Numbers]
  BY DEF TypeOK, Closes
<1>2. finished' \in [Files -> SUBSET Numbers]
  BY DEF TypeOK, Closes
<1>3. finished'[f] \subseteq Numbers
  BY <1>2
<1>4. PICK content \in Numbers \cup {Absent, Torn} :
         file' = [file EXCEPT ![f] = content]
  BY <1>3 DEF Closes
<1> QED BY <1>1, <1>2, <1>4 DEF TypeOK

(* Every step of a program keeps the types.                                *)
LEMMA TypeStep == StoreInv /\ [Next]_vars => TypeOK'
<1> SUFFICES ASSUME StoreInv, [Next]_vars PROVE TypeOK'
  OBVIOUS
<1> DEFINE PcKept   == pc' \in [Programs -> Stages]
           CallKept == call' \in [Programs -> Calls]
           RestKept == /\ file' \in [Files -> Numbers \cup {Absent, Torn}]
                       /\ group' \in [Files -> SUBSET Numbers]
                       /\ finished' \in [Files -> SUBSET Numbers]
                       /\ cache' \in [Programs -> Numbers \cup {Absent}]
                       /\ saves' \in 0 .. MaxSaves
                       /\ faults' \in 0 .. MaxFaults
                       /\ saved' \in SUBSET Numbers
                       /\ broken' \in BOOLEAN
                       /\ mixed' \in BOOLEAN
<1>a. TypeOK /\ NumberInv
  BY DEF StoreInv
<1>b. call \in [Programs -> Calls] /\ pc \in [Programs -> Stages]
  BY <1>a DEF TypeOK, Calls, Stages
<1>c. NoCall \in Calls
  BY StoreAssumption DEF StoreAssumption, NoCall, Calls, Numbers
<1>d. \A p \in Programs : pc[p] \in Saving => call[p].mine \in Numbers
  BY <1>a, StoreAssumption DEF StoreAssumption, NumberInv, TypeOK, Numbers
<1>g. ASSUME PcKept, CallKept, RestKept PROVE TypeOK'
  BY <1>g DEF TypeOK, Calls, Stages
<1>1. ASSUME NEW p \in Programs, Get(p) PROVE TypeOK'
  <2>1. PcKept
    <3>1. "train" \in Stages /\ "load" \in Stages
      BY DEF Stages
    <3> QED BY <1>1, <1>b, <3>1 DEF Get, Goto
  <2>2. CallKept
    <3>1. [call[p] EXCEPT !.keeps = TRUE] \in Calls
      BY <1>b DEF Calls
    <3>2. call' = [call EXCEPT ![p] = [call[p] EXCEPT !.keeps = TRUE]]
      BY <1>1 DEF Get
    <3> QED BY <3>1, <3>2, <1>b
  <2>3. RestKept
    BY <1>1, <1>a DEF Get, TypeOK, fileVars, history
  <2> QED BY <2>1, <2>2, <2>3, <1>g
<1>2. ASSUME NEW p \in Programs, NEW keep \in BOOLEAN, Retrain(p, keep)
      PROVE  TypeOK'
  <2>1. PcKept
    <3>1. "train" \in Stages
      BY DEF Stages
    <3> QED BY <1>2, <1>b, <3>1 DEF Retrain, Goto
  <2>2. CallKept
    <3>1. [call[p] EXCEPT !.keeps = keep] \in Calls
      BY <1>b DEF Calls
    <3>2. call' = [call EXCEPT ![p] = [call[p] EXCEPT !.keeps = keep]]
      BY <1>2 DEF Retrain
    <3> QED BY <3>1, <3>2, <1>b
  <2>3. RestKept
    BY <1>2, <1>a DEF Retrain, TypeOK, fileVars, history
  <2> QED BY <2>1, <2>2, <2>3, <1>g
<1>3. ASSUME NEW p \in Programs, Load(p) PROVE TypeOK'
  <2>1. PcKept /\ CallKept
    <3>1. "served" \in Stages
      BY <1>b DEF Stages, Rest
    <3> QED BY <1>3, <1>b, <1>c, <3>1 DEF Load, Ends, Goto
  <2>2. RestKept
    <3>1. file["model"] \in Numbers
      BY <1>3, <1>a, StoreAssumption
      DEF Load, Loads, TypeOK, Files, StoreAssumption
    <3> QED BY <1>3, <1>a, <3>1 DEF Load, TypeOK, fileVars, history
  <2> QED BY <2>1, <2>2, <1>g
<1>4. ASSUME NEW p \in Programs, LoadRaises(p) PROVE TypeOK'
  <2>1. PcKept /\ CallKept
    <3>1. "train" \in Stages
      BY DEF Stages, Saving
    <3> QED BY <1>4, <1>b, <3>1 DEF LoadRaises, Goto
  <2>2. RestKept
    BY <1>4, <1>a DEF LoadRaises, TypeOK, fileVars, history
  <2> QED BY <2>1, <2>2, <1>g
<1>5. ASSUME NEW p \in Programs, Train(p) PROVE TypeOK'
  <2>1. PcKept /\ CallKept
    <3>1. "evaluate" \in Stages
      BY DEF Stages, Saving
    <3> QED BY <1>5, <1>b, <3>1 DEF Train, Goto
  <2>2. RestKept
    BY <1>5, <1>a DEF Train, TypeOK, fileVars, history
  <2> QED BY <2>1, <2>2, <1>g
<1>6. ASSUME NEW p \in Programs, Evaluate(p) PROVE TypeOK'
  <2>1. PcKept /\ CallKept
    <3>1. "dump" \in Stages
      BY DEF Stages, Saving
    <3> QED BY <1>6, <1>b, <3>1 DEF Evaluate, Goto
  <2>2. RestKept
    BY <1>6, <1>a DEF Evaluate, TypeOK, fileVars, history
  <2> QED BY <2>1, <2>2, <1>g
<1>7. ASSUME NEW p \in Programs, NoData(p) PROVE TypeOK'
  <2>1. PcKept /\ CallKept
    <3>1. "no data" \in Stages
      BY <1>b DEF Stages, Rest
    <3> QED BY <1>7, <1>b, <1>c, <3>1 DEF NoData, Ends, Goto
  <2>2. RestKept
    BY <1>7, <1>a DEF NoData, TypeOK, fileVars, history
  <2> QED BY <2>1, <2>2, <1>g
<1>8. ASSUME NEW p \in Programs, DumpOpens(p) PROVE TypeOK'
  <2>1. PcKept
    <3>1. "dumping" \in Stages
      BY DEF Stages, Saving
    <3> QED BY <1>8, <1>b, <3>1 DEF DumpOpens, Goto
  <2>2. saves + 1 \in Numbers /\ saves' \in 0 .. MaxSaves
    <3>1. saves \in 0 .. MaxSaves /\ MaxSaves \in Nat
      BY <1>a, StoreAssumption DEF TypeOK, StoreAssumption
    <3>2. saves < MaxSaves /\ saves' = saves + 1
      BY <1>8 DEF DumpOpens
    <3> QED BY ONLY <3>1, <3>2 DEF Numbers
  <2>3. CallKept
    <3>1. ASSUME NEW q \in Programs PROVE call'[q] \in Calls
      <4>1. CASE q = p
        <5>1. (Savers = {}) \in BOOLEAN /\ saves + 1 \in 0 .. MaxSaves
          BY <2>2 DEF Numbers
        <5>2. [call[q] EXCEPT !.mine = saves + 1, !.lone = Savers = {}] \in Calls
          BY <1>b, <5>1 DEF Calls
        <5> QED BY <1>8, <4>1, <5>2 DEF DumpOpens
      <4>2. CASE q # p
        <5>1. (call[q].lone /\ q \notin Savers) \in BOOLEAN
          OBVIOUS
        <5>2. [call[q] EXCEPT !.lone = @ /\ q \notin Savers, !.calm = FALSE]
                 \in Calls
          BY <1>b, <5>1 DEF Calls
        <5> QED BY <1>8, <4>2, <5>2 DEF DumpOpens
      <4> QED BY <4>1, <4>2
    <3>2. call' = [q \in Programs |-> call'[q]]
      BY <1>8 DEF DumpOpens
    <3> QED BY <3>1, <3>2
  <2>4. RestKept
    <3>1. "model" \in Files /\ Opens("model", saves + 1)
      BY <1>8 DEF DumpOpens, Files
    <3>2. (mixed \/ Savers # {}) \in BOOLEAN
      OBVIOUS
    <3> QED BY <1>8, <1>a, <2>2, <3>1, <3>2, OpensTyped DEF DumpOpens, TypeOK
  <2> QED BY <2>1, <2>3, <2>4, <1>g
<1>9. ASSUME NEW p \in Programs, DumpCloses(p) PROVE TypeOK'
  <2>1. PcKept /\ CallKept
    <3>1. "export" \in Stages
      BY DEF Stages, Saving
    <3> QED BY <1>9, <1>b, <3>1 DEF DumpCloses, Goto
  <2>2. call[p].mine \in Numbers
    BY <1>9, <1>d DEF DumpCloses, Goto, Saving
  <2>3. "model" \in Files /\ Closes("model", call[p].mine)
    BY <1>9 DEF DumpCloses, Files
  <2>4. (mixed /\ ~call[p].lone) \in BOOLEAN
    OBVIOUS
  <2>5. RestKept
    BY <1>9, <1>a, <2>2, <2>3, <2>4, ClosesTyped
    DEF DumpCloses, TypeOK, history
  <2> QED BY <2>1, <2>5, <1>g
<1>10. ASSUME NEW p \in Programs, ExportOpens(p) PROVE TypeOK'
  <2>1. PcKept /\ CallKept
    <3>1. "exporting" \in Stages
      BY DEF Stages, Saving
    <3> QED BY <1>10, <1>b, <3>1 DEF ExportOpens, Goto
  <2>2. call[p].mine \in Numbers
    BY <1>10, <1>d DEF ExportOpens, Goto, Saving
  <2>3. "meta" \in Files /\ Opens("meta", call[p].mine)
    BY <1>10 DEF ExportOpens, Files
  <2>5. RestKept
    BY <1>10, <1>a, <2>2, <2>3, OpensTyped
    DEF ExportOpens, TypeOK, history
  <2> QED BY <2>1, <2>5, <1>g
<1>11. ASSUME NEW p \in Programs, ExportCloses(p) PROVE TypeOK'
  <2>1. PcKept /\ CallKept
    <3>1. "served" \in Stages
      BY <1>b DEF Stages, Rest
    <3> QED BY <1>11, <1>b, <1>c, <3>1 DEF ExportCloses, Ends, Goto
  <2>2. call[p].mine \in Numbers
    BY <1>11, <1>d DEF ExportCloses, Goto, Saving, Ends
  <2>3. "meta" \in Files /\ Closes("meta", call[p].mine)
    BY <1>11 DEF ExportCloses, Files
  <2>4. (~call[p].lone) \in BOOLEAN
    OBVIOUS
  <2>5. RestKept
    BY <1>11, <1>a, <2>2, <2>3, <2>4, ClosesTyped
    DEF ExportCloses, TypeOK, history
  <2> QED BY <2>1, <2>5, <1>g
<1>12. ASSUME NEW p \in Programs, SaveRaises(p) PROVE TypeOK'
  <2>1. PcKept /\ CallKept
    <3>1. "no disk" \in Stages
      BY <1>b DEF Stages, Rest
    <3> QED BY <1>12, <1>b, <1>c, <3>1 DEF SaveRaises, Ends, Goto
  <2>2. RestKept
    <3>1. faults' \in 0 .. MaxFaults
      <4>1. faults \in 0 .. MaxFaults /\ MaxFaults \in Nat
        BY <1>a, StoreAssumption DEF TypeOK, StoreAssumption
      <4>2. faults < MaxFaults /\ faults' = faults + 1
        BY <1>12 DEF SaveRaises
      <4> QED BY ONLY <4>1, <4>2
    <3> QED BY <1>12, <1>a, <3>1 DEF SaveRaises, TypeOK, fileVars
  <2> QED BY <2>1, <2>2, <1>g
<1>13. ASSUME NEW p \in Programs, Crash(p) PROVE TypeOK'
  <2>1. PcKept /\ CallKept
    <3>1. "down" \in Stages
      BY <1>b DEF Stages, Rest
    <3> QED BY <1>13, <1>b, <1>c, <3>1 DEF Crash, Ends, Goto
  <2>2. RestKept
    <3>1. faults' \in 0 .. MaxFaults
      <4>1. faults \in 0 .. MaxFaults /\ MaxFaults \in Nat
        BY <1>a, StoreAssumption DEF TypeOK, StoreAssumption
      <4>2. faults < MaxFaults /\ faults' = faults + 1
        BY <1>13 DEF Crash
      <4> QED BY ONLY <4>1, <4>2
    <3> QED BY <1>13, <1>a, <3>1 DEF Crash, TypeOK, fileVars
  <2> QED BY <2>1, <2>2, <1>g
<1>14. ASSUME NEW p \in Programs, Exit(p) PROVE TypeOK'
  <2>1. PcKept /\ CallKept
    <3>1. "down" \in Stages
      BY <1>b DEF Stages, Rest
    <3> QED BY <1>14, <1>b, <1>c, <3>1 DEF Exit, Ends, Goto
  <2>2. RestKept
    BY <1>14, <1>a DEF Exit, TypeOK, fileVars, history
  <2> QED BY <2>1, <2>2, <1>g
<1>15. ASSUME NEW p \in Programs, AuditReads(p) PROVE TypeOK'
  <2>1. PcKept
    <3>1. "audit" \in Stages
      BY DEF Stages
    <3> QED BY <1>15, <1>b, <3>1 DEF AuditReads, Goto
  <2>2. CallKept
    <3>1. file["meta"] \in Numbers
      BY <1>15, <1>a, StoreAssumption
      DEF AuditReads, Loads, TypeOK, Files, StoreAssumption
    <3>2. (Savers = {} /\ ~broken) \in BOOLEAN
      OBVIOUS
    <3>3. [call[p] EXCEPT !.meta = file["meta"], !.calm = Savers = {} /\ ~broken]
             \in Calls
      BY <1>b, <3>1, <3>2 DEF Calls
    <3>4. call' = [call EXCEPT ![p] =
                     [call[p] EXCEPT !.meta = file["meta"],
                                     !.calm = Savers = {} /\ ~broken]]
      BY <1>15 DEF AuditReads
    <3> QED BY <3>3, <3>4, <1>b
  <2>3. RestKept
    BY <1>15, <1>a DEF AuditReads, TypeOK, fileVars, history
  <2> QED BY <2>1, <2>2, <2>3, <1>g
<1>16. ASSUME NEW p \in Programs, AuditPasses(p) PROVE TypeOK'
  <2>1. PcKept /\ CallKept
    <3>1. "audited" \in Stages
      BY <1>b DEF Stages, Rest
    <3> QED BY <1>16, <1>b, <1>c, <3>1 DEF AuditPasses, Ends, Goto
  <2>2. RestKept
    BY <1>16, <1>a DEF AuditPasses, TypeOK, fileVars, history
  <2> QED BY <2>1, <2>2, <1>g
<1>17. ASSUME NEW p \in Programs, AuditRaises(p) PROVE TypeOK'
  <2>1. PcKept /\ CallKept
    <3>1. "no audit" \in Stages
      BY <1>b DEF Stages, Rest
    <3> QED BY <1>17, <1>b, <1>c, <3>1 DEF AuditRaises, Ends, Goto
  <2>2. RestKept
    BY <1>17, <1>a DEF AuditRaises, TypeOK, fileVars, history
  <2> QED BY <2>1, <2>2, <1>g
<1>18. CASE UNCHANGED vars
  BY <1>18, <1>a DEF TypeOK, vars, fileVars, history
<1> QED
  BY <1>1, <1>2, <1>3, <1>4, <1>5, <1>6, <1>7, <1>8, <1>9,
     <1>10, <1>11, <1>12, <1>13, <1>14, <1>15, <1>16, <1>17, <1>18 DEF Next, Goes

-------------------------------------------------------------------------------
(* What the steps do to the parts of the state that the invariants name.   *)

NobodySaves == \A q \in Programs : pc[q] \notin Saving

Apart(p) == \A q \in Programs : q # p => pc'[q] = pc[q] /\ call'[q] = call[q]

(* A step outside save(): no file changes, and only a call that begins an  *)
(* audit may be calm.                                                      *)
Outside(p) ==
    /\ UNCHANGED <<file, group, finished, saves, saved, broken, mixed>>
    /\ pc[p] \notin Saving /\ pc'[p] \notin Saving
    /\ Apart(p)
    /\ ~call'[p].lone
    /\ call'[p].calm =>
          /\ pc'[p] = "audit" /\ NobodySaves /\ ~broken
          /\ call'[p].meta = file["meta"]
    /\ \A q \in Programs :
          cache'[q] # cache[q] /\ cache'[q] # Absent =>
             cache'[q] = file["model"] /\ file["model"] \in Nat

(* An error or a crash in save().                                          *)
Fails(p) ==
    /\ UNCHANGED <<file, group, finished, saves, saved, mixed>>
    /\ broken'
    /\ pc[p] \in Saving /\ pc'[p] \notin Saving
    /\ Apart(p)
    /\ ~call'[p].lone /\ ~call'[p].calm
    /\ \A q \in Programs : cache'[q] # cache[q] => cache'[q] = Absent

(* The four steps of save() itself.                                        *)
Saves(p) == \/ DumpOpens(p) \/ DumpCloses(p) \/ ExportOpens(p)
            \/ ExportCloses(p)

(* Every step is one of these.                                             *)
LEMMA Steps ==
  ASSUME StoreInv, [Next]_vars
  PROVE  \/ UNCHANGED vars
         \/ \E p \in Programs : Outside(p) \/ Fails(p) \/ Saves(p)
<1>a. TypeOK /\ LoneInv /\ AuditInv
  BY DEF StoreInv
<1>b. call \in [Programs -> Calls] /\ pc \in [Programs -> Stages]
      /\ cache \in [Programs -> Numbers \cup {Absent}]
  BY <1>a DEF TypeOK, Calls, Stages
<1>c. NoCall \in Calls /\ ~NoCall.lone /\ ~NoCall.calm
  BY StoreAssumption DEF StoreAssumption, NoCall, Calls, Numbers
<1>d. \A p \in Programs : pc[p] \notin Saving => ~call[p].lone
  BY <1>a DEF LoneInv
<1>e. \A p \in Programs : pc[p] # "audit" => ~call[p].calm
  BY <1>a DEF AuditInv
<1>f. "audit" \notin Rest /\ Rest \cap Saving = {}
  BY DEF Rest, Saving
<1>1. ASSUME NEW p \in Programs, Get(p) PROVE Outside(p)
  <2>1. /\ Apart(p) /\ call'[p].lone = call[p].lone
        /\ call'[p].calm = call[p].calm
    <3>1. call'[p] = [call[p] EXCEPT !.keeps = TRUE]
      BY <1>1, <1>b DEF Get
    <3>2. call[p] \in Calls
      BY <1>b
    <3>3. Apart(p)
      BY <1>1, <1>b DEF Get, Goto, Apart
    <3> QED BY <3>1, <3>2, <3>3 DEF Calls
  <2>2. /\ pc[p] \in Rest /\ pc'[p] \in {"train", "load"}
        /\ UNCHANGED <<file, group, finished, saves, saved, broken, mixed, cache>>
    BY <1>1, <1>b DEF Get, Goto, fileVars, history
  <2>3. pc'[p] \notin Saving
    BY <2>2 DEF Saving
  <2> QED BY <1>d, <1>e, <1>f, <2>1, <2>2, <2>3 DEF Outside
<1>2. ASSUME NEW p \in Programs, NEW keep \in BOOLEAN,
             Retrain(p, keep) PROVE Outside(p)
  <2>1. /\ Apart(p) /\ call'[p].lone = call[p].lone
        /\ call'[p].calm = call[p].calm
    <3>1. call'[p] = [call[p] EXCEPT !.keeps = keep]
      BY <1>2, <1>b DEF Retrain
    <3>2. call[p] \in Calls
      BY <1>b
    <3>3. Apart(p)
      BY <1>2, <1>b DEF Retrain, Goto, Apart
    <3> QED BY <3>1, <3>2, <3>3 DEF Calls
  <2>2. /\ pc[p] \in Rest /\ pc'[p] = "train"
        /\ UNCHANGED <<file, group, finished, saves, saved, broken, mixed, cache>>
    BY <1>2, <1>b DEF Retrain, Goto, fileVars, history
  <2>3. pc'[p] \notin Saving
    BY <2>2 DEF Saving
  <2> QED BY <1>d, <1>e, <1>f, <2>1, <2>2, <2>3 DEF Outside
<1>3. ASSUME NEW p \in Programs, Load(p) PROVE Outside(p)
  <2>1. call'[p] = NoCall /\ Apart(p)
    BY <1>3, <1>b DEF Load, Ends, Goto, Apart
  <2> QED BY <1>3, <1>b, <1>c, <2>1
          DEF Load, Ends, Goto, Loads, fileVars, history, Outside, Rest, Saving
<1>4. ASSUME NEW p \in Programs, LoadRaises(p) PROVE Outside(p)
  <2>1. call' = call /\ Apart(p)
    BY <1>4, <1>b DEF LoadRaises, Goto, Apart
  <2> QED BY <1>4, <1>b, <1>d, <1>e, <2>1
          DEF LoadRaises, Goto, fileVars, history, Outside, Rest, Saving
<1>5. ASSUME NEW p \in Programs, Train(p) PROVE Outside(p)
  <2>1. call' = call /\ Apart(p)
    BY <1>5, <1>b DEF Train, Goto, Apart
  <2> QED BY <1>5, <1>b, <1>d, <1>e, <2>1
          DEF Train, Goto, fileVars, history, Outside, Rest, Saving
<1>6. ASSUME NEW p \in Programs, Evaluate(p) PROVE Outside(p)
  <2>1. call' = call /\ Apart(p)
    BY <1>6, <1>b DEF Evaluate, Goto, Apart
  <2> QED BY <1>6, <1>b, <1>d, <1>e, <2>1
          DEF Evaluate, Goto, fileVars, history, Outside, Rest, Saving
<1>7. ASSUME NEW p \in Programs, NoData(p) PROVE Outside(p)
  <2>1. call'[p] = NoCall /\ Apart(p)
    BY <1>7, <1>b DEF NoData, Ends, Goto, Apart
  <2> QED BY <1>7, <1>b, <1>c, <2>1
          DEF NoData, Ends, Goto, fileVars, history, Outside, Rest, Saving
<1>8. ASSUME NEW p \in Programs, Exit(p) PROVE Outside(p)
  <2>1. call'[p] = NoCall /\ Apart(p)
    BY <1>8, <1>b DEF Exit, Ends, Goto, Apart
  <2> QED BY <1>8, <1>b, <1>c, <2>1
          DEF Exit, Ends, Goto, fileVars, history, Outside, Rest, Saving
<1>9. ASSUME NEW p \in Programs, AuditReads(p) PROVE Outside(p)
  <2>1. /\ Apart(p) /\ call'[p].lone = call[p].lone
        /\ call'[p].calm => NobodySaves /\ ~broken
        /\ call'[p].meta = file["meta"]
    <3>1. call'[p] = [call[p] EXCEPT !.meta = file["meta"],
                                     !.calm = Savers = {} /\ ~broken]
      BY <1>9, <1>b DEF AuditReads
    <3>2. call[p] \in Calls
      BY <1>b
    <3>3. Apart(p)
      BY <1>9, <1>b DEF AuditReads, Goto, Apart
    <3> QED BY <3>1, <3>2, <3>3 DEF Calls, Savers, NobodySaves
  <2>2. /\ pc[p] \in Rest /\ pc'[p] = "audit"
        /\ UNCHANGED <<file, group, finished, saves, saved, broken, mixed, cache>>
    BY <1>9, <1>b DEF AuditReads, Goto, fileVars, history
  <2>3. pc'[p] \notin Saving
    BY <2>2 DEF Saving
  <2> QED BY <1>d, <1>f, <2>1, <2>2, <2>3 DEF Outside
<1>10. ASSUME NEW p \in Programs, AuditPasses(p) PROVE Outside(p)
  <2>1. call'[p] = NoCall /\ Apart(p)
    BY <1>10, <1>b DEF AuditPasses, Ends, Goto, Apart
  <2> QED BY <1>10, <1>b, <1>c, <2>1
          DEF AuditPasses, Ends, Goto, fileVars, history, Outside, Rest, Saving
<1>11. ASSUME NEW p \in Programs, AuditRaises(p) PROVE Outside(p)
  <2>1. call'[p] = NoCall /\ Apart(p)
    BY <1>11, <1>b DEF AuditRaises, Ends, Goto, Apart
  <2> QED BY <1>11, <1>b, <1>c, <2>1
          DEF AuditRaises, Ends, Goto, fileVars, history, Outside, Rest, Saving
<1>12. ASSUME NEW p \in Programs, SaveRaises(p) PROVE Fails(p)
  <2>1. call'[p] = NoCall /\ Apart(p)
    BY <1>12, <1>b DEF SaveRaises, Ends, Goto, Apart
  <2>2. pc[p] \in Saving /\ pc'[p] \in Rest
    BY <1>12, <1>b DEF SaveRaises, Ends, Goto, Rest
  <2> QED BY <1>12, <1>b, <1>c, <1>f, <2>1, <2>2 DEF SaveRaises, fileVars, Fails
<1>13. ASSUME NEW p \in Programs, Crash(p) PROVE Fails(p)
  <2>1. call'[p] = NoCall /\ Apart(p)
    BY <1>13, <1>b DEF Crash, Ends, Goto, Apart
  <2>2. pc[p] \in Saving /\ pc'[p] \in Rest
    BY <1>13, <1>b DEF Crash, Ends, Goto, Rest
  <2> QED BY <1>13, <1>b, <1>c, <1>f, <2>1, <2>2 DEF Crash, fileVars, Fails
<1> QED
  BY <1>1, <1>2, <1>3, <1>4, <1>5, <1>6, <1>7,
     <1>8, <1>9, <1>10, <1>11, <1>12, <1>13
  DEF Next, Goes, Saves

-------------------------------------------------------------------------------
(* What the four steps of save() do.                                       *)

LEMMA DumpOpensDoes ==
  ASSUME StoreInv, NEW p \in Programs, DumpOpens(p)
  PROVE  /\ pc[p] \notin Saving /\ pc'[p] = "dumping"
         /\ \A q \in Programs : q # p => pc'[q] = pc[q]
         /\ call'[p].mine = saves + 1
         /\ call'[p].lone => NobodySaves
         /\ ~call'[p].lone => ~NobodySaves
         /\ \A q \in Programs : /\ ~call'[q].calm
                                /\ q # p => /\ ~call'[q].lone
                                            /\ call'[q].mine = call[q].mine
         /\ file'["model"] = Torn /\ file'["meta"] = file["meta"]
         /\ NobodySaves => group'["model"] = {saves + 1}
         /\ group'["model"] \subseteq group["model"] \cup {saves + 1}
         /\ group'["meta"] = group["meta"]
         /\ finished'["model"] \subseteq finished["model"]
         /\ finished'["meta"] = finished["meta"]
         /\ saves' = saves + 1
         /\ mixed' = (mixed \/ ~NobodySaves)
         /\ UNCHANGED <<cache, saved, broken>>
<1>a. TypeOK /\ LoneInv /\ AuditInv
  BY DEF StoreInv
<1>b. /\ call \in [Programs -> Calls] /\ pc \in [Programs -> Stages]
      /\ DOMAIN file = Files /\ DOMAIN group = Files /\ DOMAIN finished = Files
  BY <1>a DEF TypeOK, Calls, Stages
<1>1. Savers = {} <=> NobodySaves
  BY DEF Savers, NobodySaves
<1>2. /\ pc[p] = "dump" /\ pc'[p] = "dumping"
      /\ \A q \in Programs : q # p => pc'[q] = pc[q]
  BY <1>b DEF DumpOpens, Goto
<1>3. pc[p] \notin Saving
  BY <1>2 DEF Saving
<1>4. /\ call'[p].mine = saves + 1
      /\ call'[p].lone = (Savers = {})
      /\ call'[p].calm = call[p].calm
  <2>1. call'[p] = [call[p] EXCEPT !.mine = saves + 1, !.lone = Savers = {}]
    BY DEF DumpOpens
  <2>2. call[p] \in Calls
    BY <1>b
  <2> QED BY <2>1, <2>2 DEF Calls
<1>5. ~call[p].calm
  BY <1>a, <1>2 DEF AuditInv
<1>6. ASSUME NEW q \in Programs, q # p
      PROVE  /\ ~call'[q].calm /\ ~call'[q].lone
             /\ call'[q].mine = call[q].mine
  <2>1. call'[q] = [call[q] EXCEPT !.lone = @ /\ q \notin Savers,
                                   !.calm = FALSE]
    BY <1>6 DEF DumpOpens
  <2>2. call[q] \in Calls
    BY <1>b
  <2>3. call[q].lone => q \in Savers
    BY <1>a DEF LoneInv, Savers
  <2> QED BY <2>1, <2>2, <2>3 DEF Calls
<1>7. /\ file'["model"] = Torn /\ file'["meta"] = file["meta"]
      /\ group'["meta"] = group["meta"] /\ finished'["meta"] = finished["meta"]
      /\ group'["model"] = IF Writers("model") = {} THEN {saves + 1}
                           ELSE group["model"] \cup {saves + 1}
      /\ finished'["model"] \subseteq finished["model"]
  BY <1>b DEF DumpOpens, Opens, Files
<1>8. NobodySaves => Writers("model") = {}
  BY DEF NobodySaves, Writers, Saving
<1>9. /\ mixed' = (mixed \/ Savers # {}) /\ saves' = saves + 1
      /\ UNCHANGED <<cache, saved, broken>>
  BY DEF DumpOpens
<1>10. mixed' = (mixed \/ ~NobodySaves)
  BY <1>1, <1>9
<1> QED BY <1>1, <1>2, <1>3, <1>4, <1>5, <1>6, <1>7, <1>8, <1>9, <1>10

(* A close() leaves what its own save() or another that has finished wrote *)
(* or pieces, and its own if there was no other.                           *)
LEMMA ClosesDoes ==
  ASSUME TypeOK, NEW f \in Files, NEW number, Closes(f, number)
  PROVE  /\ file'[f] \in finished[f] \cup {number, Torn}
         /\ group[f] = {number} => file'[f] = number
         /\ finished'[f] = finished[f] \cup {number}
         /\ \A g \in Files : g # f => /\ file'[g] = file[g]
                                      /\ finished'[g] = finished[g]
         /\ group' = group
<1>1. DOMAIN file = Files /\ DOMAIN finished = Files
  BY DEF TypeOK
<1>2. /\ finished'[f] = finished[f] \cup {number} /\ group' = group
      /\ \A g \in Files : g # f => finished'[g] = finished[g]
  BY <1>1 DEF Closes
<1>3. PICK content \in IF group[f] = {number} THEN {number}
                       ELSE {Torn} \cup finished'[f] :
         file' = [file EXCEPT ![f] = content]
  BY DEF Closes
<1> QED BY <1>1, <1>2, <1>3

LEMMA DumpClosesDoes ==
  ASSUME StoreInv, NEW p \in Programs, DumpCloses(p)
  PROVE  /\ pc[p] = "dumping" /\ pc'[p] = "export"
         /\ \A q \in Programs : q # p => pc'[q] = pc[q]
         /\ Closes("model", call[p].mine)
         /\ saved' = saved \cup {call[p].mine}
         /\ mixed' = (mixed /\ ~call[p].lone)
         /\ UNCHANGED <<cache, call, saves, broken>>
<1>1. pc \in [Programs -> Stages]
  BY DEF StoreInv, TypeOK, Stages
<1> QED BY <1>1 DEF DumpCloses, Goto

LEMMA ExportOpensDoes ==
  ASSUME StoreInv, NEW p \in Programs, ExportOpens(p)
  PROVE  /\ pc[p] = "export" /\ pc'[p] = "exporting"
         /\ \A q \in Programs : q # p => pc'[q] = pc[q]
         /\ file'["meta"] = Torn /\ file'["model"] = file["model"]
         /\ Writers("meta") = {} => group'["meta"] = {call[p].mine}
         /\ group'["meta"] \subseteq group["meta"] \cup {call[p].mine}
         /\ group'["model"] = group["model"]
         /\ finished'["meta"] \subseteq finished["meta"]
         /\ finished'["model"] = finished["model"]
         /\ UNCHANGED <<cache, call, saves, saved, broken, mixed>>
<1>1. /\ pc \in [Programs -> Stages]
      /\ DOMAIN file = Files /\ DOMAIN group = Files /\ DOMAIN finished = Files
  BY DEF StoreInv, TypeOK, Stages
<1> QED BY <1>1 DEF ExportOpens, Goto, Opens, Files, history

LEMMA ExportClosesDoes ==
  ASSUME StoreInv, NEW p \in Programs, ExportCloses(p)
  PROVE  /\ pc[p] = "exporting" /\ pc'[p] = "served"
         /\ Apart(p) /\ ~call'[p].lone /\ ~call'[p].calm
         /\ Closes("meta", call[p].mine)
         /\ \A q \in Programs : cache'[q] \in {cache[q], call[p].mine}
         /\ broken' = ~call[p].lone
         /\ UNCHANGED <<saves, saved, mixed>>
<1>1. /\ call \in [Programs -> Calls] /\ pc \in [Programs -> Stages]
      /\ cache \in [Programs -> Numbers \cup {Absent}]
  BY DEF StoreInv, TypeOK, Calls, Stages
<1>2. ~NoCall.lone /\ ~NoCall.calm
  BY DEF NoCall
<1> QED BY <1>1, <1>2 DEF ExportCloses, Ends, Goto, Apart

-------------------------------------------------------------------------------
(* The invariant, part by part.                                            *)

(* A save() takes a number that is new, and nobody writes another's.       *)
LEMMA NumberStep == StoreInv /\ [Next]_vars => NumberInv'
<1> SUFFICES ASSUME StoreInv, [Next]_vars PROVE NumberInv'
  OBVIOUS
<1>t. TypeOK
  BY DEF StoreInv
<1> USE DEF NumberInv, Files
<1>1. CASE UNCHANGED vars
  BY <1>1 DEF StoreInv, vars, fileVars, history
<1>2. ASSUME NEW p \in Programs, Outside(p) PROVE NumberInv'
  BY <1>2 DEF StoreInv, Outside, Apart
<1>3. ASSUME NEW p \in Programs, Fails(p) PROVE NumberInv'
  BY <1>3 DEF StoreInv, Fails, Apart
<1>4. ASSUME NEW p \in Programs, DumpOpens(p) PROVE NumberInv'
  <2>1. saves \in Nat
    BY <1>t DEF TypeOK
  <2>2. 1 .. saves \subseteq 1 .. saves' /\ saves' \in 1 .. saves'
    BY <1>4, <2>1, DumpOpensDoes
  <2> QED BY <1>4, <2>2, DumpOpensDoes DEF StoreInv
<1>5. ASSUME NEW p \in Programs, DumpCloses(p) PROVE NumberInv'
  <2>1. call[p].mine \in 1 .. saves
    BY <1>5, DumpClosesDoes DEF StoreInv, Saving
  <2>2. \A q \in Programs : pc'[q] \in Saving => call'[q].mine \in 1 .. saves
    BY <1>5, <2>1, DumpClosesDoes DEF StoreInv
  <2> QED BY <1>5, <1>t, <2>1, <2>2, DumpClosesDoes, ClosesDoes DEF StoreInv
<1>6. ASSUME NEW p \in Programs, ExportOpens(p) PROVE NumberInv'
  <2>1. call[p].mine \in 1 .. saves
    BY <1>6, ExportOpensDoes DEF StoreInv, Saving
  <2>2. \A q \in Programs : pc'[q] \in Saving => call'[q].mine \in 1 .. saves
    BY <1>6, <2>1, ExportOpensDoes DEF StoreInv
  <2> QED BY <1>6, <2>1, <2>2, ExportOpensDoes DEF StoreInv
<1>7. ASSUME NEW p \in Programs, ExportCloses(p) PROVE NumberInv'
  <2>1. call[p].mine \in 1 .. saves
    BY <1>7, ExportClosesDoes DEF StoreInv, Saving
  <2>2. \A q \in Programs : pc'[q] \in Saving => call'[q].mine \in 1 .. saves
    BY <1>7, ExportClosesDoes DEF StoreInv, Apart, Saving
  <2> QED BY <1>7, <1>t, <2>1, <2>2, ExportClosesDoes, ClosesDoes DEF StoreInv
<1> QED BY <1>1, <1>2, <1>3, <1>4, <1>5, <1>6, <1>7, Steps DEF Saves

(* Only what has been written to the end is ever in a file or a cache.     *)
LEMMA SavedStep == StoreInv /\ [Next]_vars => SavedInv'
<1> SUFFICES ASSUME StoreInv, [Next]_vars PROVE SavedInv'
  OBVIOUS
<1>t. TypeOK
  BY DEF StoreInv
<1> USE DEF SavedInv, ServedIsSaved, Files
<1>1. CASE UNCHANGED vars
  BY <1>1 DEF StoreInv, vars, fileVars, history
<1>2. ASSUME NEW p \in Programs, Outside(p) PROVE SavedInv'
  <2>1. \A q \in Programs : pc'[q] \in {"export", "exporting"} =>
           pc[q] = pc'[q] /\ call[q] = call'[q]
    BY <1>2 DEF Outside, Apart, Saving
  <2>2. \A q \in Programs : cache'[q] # Absent => cache'[q] \in saved
    <3>1. file["model"] \in Nat => file["model"] \in saved
      BY StoreAssumption DEF StoreInv, StoreAssumption
    <3> QED BY <1>2, <3>1 DEF StoreInv, Outside
  <2> QED BY <1>2, <2>1, <2>2 DEF StoreInv, Outside
<1>3. ASSUME NEW p \in Programs, Fails(p) PROVE SavedInv'
  <2>1. \A q \in Programs : pc'[q] \in {"export", "exporting"} =>
           pc[q] = pc'[q] /\ call[q] = call'[q]
    BY <1>3 DEF Fails, Apart, Saving
  <2> QED BY <1>3, <2>1 DEF StoreInv, Fails
<1>4. ASSUME NEW p \in Programs, DumpOpens(p) PROVE SavedInv'
  BY <1>4, DumpOpensDoes DEF StoreInv
<1>5. ASSUME NEW p \in Programs, DumpCloses(p) PROVE SavedInv'
  BY <1>5, <1>t, DumpClosesDoes, ClosesDoes DEF StoreInv
<1>6. ASSUME NEW p \in Programs, ExportOpens(p) PROVE SavedInv'
  BY <1>6, ExportOpensDoes DEF StoreInv
<1>7. ASSUME NEW p \in Programs, ExportCloses(p) PROVE SavedInv'
  <2>1. \A q \in Programs : pc'[q] \in {"export", "exporting"} =>
           pc[q] = pc'[q] /\ call[q] = call'[q]
    BY <1>7, ExportClosesDoes DEF Apart
  <2>2. call[p].mine \in saved
    BY <1>7, ExportClosesDoes DEF StoreInv
  <2> QED BY <1>7, <1>t, <2>1, <2>2, ExportClosesDoes, ClosesDoes DEF StoreInv
<1> QED BY <1>1, <1>2, <1>3, <1>4, <1>5, <1>6, <1>7, Steps DEF Saves

(* A save() alone keeps its files until it ends or meets another.          *)
LEMMA LoneStep == StoreInv /\ [Next]_vars => LoneInv'
<1> SUFFICES ASSUME StoreInv, [Next]_vars PROVE LoneInv'
  OBVIOUS
<1>t. TypeOK
  BY DEF StoreInv
<1> USE DEF LoneInv, MetaNeverAhead, Loads, Files
<1>1. CASE UNCHANGED vars
  BY <1>1 DEF StoreInv, vars, fileVars, history
<1>2. ASSUME NEW p \in Programs, Outside(p) PROVE LoneInv'
  BY <1>2 DEF StoreInv, Outside, Apart
<1>3. ASSUME NEW p \in Programs, Fails(p) PROVE LoneInv'
  BY <1>3 DEF StoreInv, Fails, Apart
<1>4. ASSUME NEW p \in Programs, DumpOpens(p) PROVE LoneInv'
  <2>1. MetaNeverAhead'
    BY <1>4, DumpOpensDoes, StoreAssumption DEF StoreAssumption
  <2>2. \A q \in Programs : pc'[q] \in Saving /\ ~call'[q].lone => mixed'
    BY <1>4, DumpOpensDoes DEF NobodySaves
  <2>3. \A q \in Programs : call'[q].lone => q = p /\ NobodySaves
    BY <1>4, DumpOpensDoes
  <2>4. pc'[p] \in Saving /\ pc'[p] = "dumping"
    BY <1>4, DumpOpensDoes DEF Saving
  <2>5. call'[p].lone => \A q \in Programs : pc'[q] \in Saving => q = p
    BY <1>4, <2>3, DumpOpensDoes DEF NobodySaves
  <2>6. call'[p].mine = saves' /\ (call'[p].lone => group'["model"] = {saves'})
    BY <1>4, <2>3, DumpOpensDoes
  <2> QED BY <2>1, <2>2, <2>3, <2>4, <2>5, <2>6
<1>5. ASSUME NEW p \in Programs, DumpCloses(p) PROVE LoneInv'
  <2>1. /\ \A q \in Programs : pc'[q] \in Saving <=> pc[q] \in Saving
        /\ pc[p] \in Saving
    BY <1>5, DumpClosesDoes DEF Saving
  <2>2. call[p].lone => file'["model"] = saves /\ call[p].mine = saves
    BY <1>5, <1>t, DumpClosesDoes, ClosesDoes DEF StoreInv
  <2>3. file'["meta"] = file["meta"] /\ group' = group
    BY <1>5, <1>t, DumpClosesDoes, ClosesDoes
  <2>4. ~call[p].lone => mixed'
    BY <1>5, <2>1, DumpClosesDoes DEF StoreInv
  <2>5. \A q \in Programs : call[q].lone => q = p
    BY <2>1 DEF StoreInv
  <2>6. MetaNeverAhead'
    <3>1. file["meta"] \in Nat => file["meta"] <= saves
      BY StoreAssumption, <1>t DEF StoreInv, NumberInv, StoreAssumption, TypeOK
    <3> QED BY <2>2, <2>3, <2>4, <3>1
  <2>7. \A q \in Programs : pc'[q] \in Saving /\ ~call'[q].lone => mixed'
    BY <1>5, <2>1, <2>4, <2>5, DumpClosesDoes DEF StoreInv
  <2> QED BY <1>5, <2>1, <2>2, <2>3, <2>5, <2>6, <2>7, DumpClosesDoes
          DEF StoreInv
<1>6. ASSUME NEW p \in Programs, ExportOpens(p) PROVE LoneInv'
  <2>1. \A q \in Programs : pc'[q] \in Saving <=> pc[q] \in Saving
    BY <1>6, ExportOpensDoes DEF Saving
  <2>2. pc[p] \in Saving
    BY <1>6, ExportOpensDoes DEF Saving
  <2>3. call[p].lone => Writers("meta") = {}
    BY <1>6, <2>2, ExportOpensDoes DEF StoreInv, Writers, Saving
  <2>4. \A q \in Programs : call[q].lone => q = p
    BY <2>2 DEF StoreInv
  <2>5. MetaNeverAhead'
    BY <1>6, ExportOpensDoes, StoreAssumption DEF StoreAssumption
  <2> QED BY <1>6, <2>1, <2>3, <2>4, <2>5, ExportOpensDoes DEF StoreInv
<1>7. ASSUME NEW p \in Programs, ExportCloses(p) PROVE LoneInv'
  <2>1. pc[p] \in Saving /\ pc'[p] \notin Saving
    BY <1>7, ExportClosesDoes DEF Saving
  <2>2. \A q \in Programs : ~call'[q].lone
    BY <1>7, <2>1, ExportClosesDoes DEF StoreInv, Apart
  <2>3. \A q \in Programs : pc'[q] \in Saving /\ ~call'[q].lone => mixed'
    BY <1>7, <2>1, ExportClosesDoes DEF StoreInv, Apart
  <2>4. MetaNeverAhead'
    <3>1. CASE call[p].lone
      <4>1. file'["meta"] = saves /\ file'["model"] = saves
        BY <1>7, <1>t, <3>1, ExportClosesDoes, ClosesDoes DEF StoreInv
      <4> QED BY <4>1
    <3>2. CASE ~call[p].lone
      BY <1>7, <2>1, <3>2, ExportClosesDoes DEF StoreInv
    <3> QED BY <3>1, <3>2
  <2> QED BY <2>2, <2>3, <2>4
<1> QED BY <1>1, <1>2, <1>3, <1>4, <1>5, <1>6, <1>7, Steps DEF Saves

(* Only a whole save() that was alone makes the files agree, and a save()  *)
(* that begins ends every calm.                                            *)
LEMMA AuditStep == StoreInv /\ [Next]_vars => AuditInv'
<1> SUFFICES ASSUME StoreInv, [Next]_vars PROVE AuditInv'
  OBVIOUS
<1>t. TypeOK
  BY DEF StoreInv
<1> USE DEF AuditInv, Files
<1>1. CASE UNCHANGED vars
  BY <1>1 DEF StoreInv, vars, fileVars, history
<1>2. ASSUME NEW p \in Programs, Outside(p) PROVE AuditInv'
  BY <1>2 DEF StoreInv, Outside, Apart, NobodySaves
<1>3. ASSUME NEW p \in Programs, Fails(p) PROVE AuditInv'
  BY <1>3 DEF StoreInv, Fails, Apart
<1>4. ASSUME NEW p \in Programs, DumpOpens(p) PROVE AuditInv'
  <2>1. pc'[p] \in Saving
    BY <1>4, DumpOpensDoes DEF Saving
  <2> QED BY <1>4, <2>1, DumpOpensDoes
<1>5. ASSUME NEW p \in Programs, DumpCloses(p) PROVE AuditInv'
  <2>1. pc[p] \in Saving /\ pc'[p] \in Saving
    BY <1>5, DumpClosesDoes DEF Saving
  <2> QED BY <1>5, <2>1, DumpClosesDoes DEF StoreInv
<1>6. ASSUME NEW p \in Programs, ExportOpens(p) PROVE AuditInv'
  <2>1. pc[p] \in Saving /\ pc'[p] \in Saving
    BY <1>6, ExportOpensDoes DEF Saving
  <2> QED BY <1>6, <2>1, ExportOpensDoes DEF StoreInv
<1>7. ASSUME NEW p \in Programs, ExportCloses(p) PROVE AuditInv'
  <2>1. pc[p] \in Saving
    BY <1>7, ExportClosesDoes DEF Saving
  <2>2. \A q \in Programs : ~call'[q].calm
    BY <1>7, <2>1, ExportClosesDoes DEF StoreInv, Apart
  <2>3. call[p].lone => file'["meta"] = saves /\ file'["model"] = saves
    BY <1>7, <1>t, ExportClosesDoes, ClosesDoes DEF StoreInv, LoneInv
  <2> QED BY <1>7, <2>2, <2>3, ExportClosesDoes
<1> QED BY <1>1, <1>2, <1>3, <1>4, <1>5, <1>6, <1>7, Steps DEF Saves

(* In every reachable state of any number of programs and saves.           *)
LEMMA StoreInvariant == Spec => []StoreInv
<1>1. StoreInv /\ [Next]_vars => StoreInv'
  BY TypeStep, NumberStep, SavedStep, LoneStep, AuditStep DEF StoreInv
<1> QED BY StoreInit, <1>1, PTL DEF Spec

(* The type invariant.                                                     *)
THEOREM TypeCorrect == Spec => []TypeOK
<1>1. StoreInv => TypeOK
  BY DEF StoreInv
<1> QED BY <1>1, StoreInvariant, PTL

(* A program decides only with models that were written to the end.        *)
THEOREM OnlySavedModels == Spec => []ServedIsSaved
<1>1. StoreInv => ServedIsSaved
  BY DEF StoreInv, SavedInv
<1> QED BY <1>1, StoreInvariant, PTL

(* The metadata is never that of a newer model, whatever crashes or fails  *)
(* between the two writes, as long as no two save() meet.                  *)
THEOREM MetadataBehind == Spec => []MetaNeverAhead
<1>1. StoreInv => MetaNeverAhead
  BY DEF StoreInv, LoneInv
<1> QED BY <1>1, StoreInvariant, PTL

(* An audit that no save() disturbs has read the files of one save().      *)
THEOREM AuditsOneModel == Spec => AuditedPair
<1>1. StoreInv =>
         \A p \in Programs :
             AuditPasses(p) /\ call[p].calm => file["model"] = call[p].meta
  BY DEF StoreInv, AuditInv
<1> QED BY StoreInvariant, <1>1, PTL DEF Spec, AuditedPair

===============================================================================

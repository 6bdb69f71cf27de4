------------------------------ MODULE ModelStore ------------------------------
(***************************************************************************)
(* ModelManager and what it manages: the model file, the metadata file     *)
(* beside it, and the model each program keeps in memory.                  *)
(*                                                                         *)
(* The programs that use them (the detector, `model_manager`, with         *)
(* --retrain or --audit, the trainer, the evaluation) share the two files  *)
(* and nothing else, without a lock.  joblib.dump and json.dump write in   *)
(* place: from open() to close() a file is in pieces, a crash or an error  *)
(* leaves it so, and two programs that write at once may spoil it.         *)
(*                                                                         *)
(* A model is the number of the save() that writes it; what the forest has *)
(* learnt is not modelled.                                                 *)
(***************************************************************************)
EXTENDS Naturals

CONSTANTS
    Programs,   \* the processes that may run at the same time
    Absent,     \* there is no such file, or no model in memory
    Torn,       \* a file that does not load
    MaxSaves,   \* bound: calls of save()
    MaxFaults   \* bound: crashes and errors inside a save()

ASSUME StoreAssumption ==
    /\ Absent \notin Nat
    /\ Torn \notin Nat
    /\ Absent # Torn
    /\ MaxSaves \in Nat
    /\ MaxFaults \in Nat

VARIABLES
    file,       \* contents of the files "model" and "meta"
    group,      \* the saves that have had a file open together
    finished,   \* those of them that have written all of it
    cache,      \* ModelManager._cached_model of each program
    pc,         \* where each program stands, or how its last call ended
    call,       \* what is local to the call it is in
    saves,      \* how many calls of save() have begun
    faults,     \* crashes and errors inside a save()
    saved,      \* history: the models that were written to the end
    broken,     \* history: the last save() was not whole, or not alone
    mixed       \* history: two have met since a lone one wrote its model

fileVars == <<file, group, finished>>
history  == <<saved, broken, mixed>>
vars == <<fileVars, cache, pc, call, saves, faults, history>>

Files == {"model", "meta"}

(* The program does not run, or its last call has returned or raised.      *)
Rest == {"down", "served", "no data", "no disk", "audited", "no audit"}

(* A save() is under way from the first open() to the last close().        *)
Saving == {"dumping", "export", "exporting"}

Savers == {p \in Programs : pc[p] \in Saving}

Writers(f) ==
    {p \in Programs : pc[p] = IF f = "model" THEN "dumping" ELSE "exporting"}

Loads(content) == content \in Nat

(* Local to a call: will it cache what it trains (get_or_train_model)?     *)
(* The number of its save(), and has that met no other?  The metadata an   *)
(* audit has read, and has there been no save() since the audit began nor  *)
(* a broken one before it?                                                 *)
NoCall == [keeps |-> FALSE, mine |-> 0, lone |-> FALSE,
           meta |-> Absent, calm |-> FALSE]

Init ==
    /\ file = [f \in Files |-> Absent]
    /\ group = [f \in Files |-> {}]
    /\ finished = [f \in Files |-> {}]
    /\ cache = [p \in Programs |-> Absent]
    /\ pc = [p \in Programs |-> "down"]
    /\ call = [p \in Programs |-> NoCall]
    /\ saves = 0
    /\ faults = 0
    /\ saved = {}
    /\ broken = FALSE
    /\ mixed = FALSE

Goto(p, from, to) ==
    /\ pc[p] \in from
    /\ pc' = [pc EXCEPT ![p] = to]

(* A call returns to its caller, or raises.                                *)
Ends(p, from, how) ==
    /\ Goto(p, from, how)
    /\ call' = [call EXCEPT ![p] = NoCall]

-------------------------------------------------------------------------------
(* get_or_train_model.  A call that finds the cache full and need not      *)
(* retrain returns at once and changes nothing.                            *)
Get(p) ==
    /\ cache[p] = Absent
    /\ Goto(p, Rest, IF file["model"] = Absent THEN "train" ELSE "load")
    /\ call' = [call EXCEPT ![p].keeps = TRUE]
    /\ UNCHANGED <<fileVars, cache, saves, faults, history>>

(* force_retrain, and the programs that call train_pipeline themselves.    *)
Retrain(p, keep) ==
    /\ Goto(p, Rest, "train")
    /\ call' = [call EXCEPT ![p].keeps = keep]
    /\ UNCHANGED <<fileVars, cache, saves, faults, history>>

(* CANIsolationForestModel.load; the metadata is not read.                 *)
Load(p) ==
    /\ Loads(file["model"])
    /\ Ends(p, {"load"}, "served")
    /\ cache' = [cache EXCEPT ![p] = file["model"]]
    /\ UNCHANGED <<fileVars, saves, faults, history>>

(* Mutant: the exception of load() reaches the caller.                     *)
LoadPropagates(p) ==
    /\ ~Loads(file["model"])
    /\ Ends(p, {"load"}, "no model")
    /\ UNCHANGED <<fileVars, cache, saves, faults, history>>

(* joblib.load raises: a warning, and a new training.                      *)
LoadRaises(p) ==
    /\ ~Loads(file["model"])
    /\ Goto(p, {"load"}, "train")
    /\ UNCHANGED <<fileVars, cache, call, saves, faults, history>>

-------------------------------------------------------------------------------
(* train_pipeline.  What comes before the save touches no file.  A dataset *)
(* may be missing, empty or good at any time.                              *)

(* Mutant: the model is cached as soon as it is fitted.                    *)
TrainCaches(p) ==
    /\ Goto(p, {"train"}, "evaluate")
    /\ cache' = [cache EXCEPT ![p] = saves + 1]
    /\ UNCHANGED <<fileVars, call, saves, faults, history>>

Train(p) ==
    /\ Goto(p, {"train"}, "evaluate")
    /\ UNCHANGED <<fileVars, cache, call, saves, faults, history>>

(* With no attack CSV, or one with rows.                                   *)
Evaluate(p) ==
    /\ Goto(p, {"evaluate"}, "dump")
    /\ UNCHANGED <<fileVars, cache, call, saves, faults, history>>

(* The baseline is missing (extract_features_from_csv) or empty (fit); or  *)
(* the evaluation CSV is there and empty (predict): the model that has     *)
(* just been trained is not saved.                                         *)
NoData(p) ==
    /\ Ends(p, {"train", "evaluate"}, "no data")
    /\ UNCHANGED <<fileVars, cache, saves, faults, history>>

-------------------------------------------------------------------------------
(* CANIsolationForestModel.save: the model, then the metadata.             *)

(* open() truncates the file, whoever else has it open.                    *)
Opens(f, number) ==
    /\ file' = [file EXCEPT ![f] = Torn]
    /\ group' = [group EXCEPT ![f] =
                    IF Writers(f) = {} THEN {number} ELSE @ \cup {number}]
    /\ finished' = [finished EXCEPT ![f] =
                       IF Writers(f) = {} THEN {} ELSE @]

(* close(): the last bytes are written.  Of several writers one may have   *)
(* overwritten the rest, or their bytes are mixed.                         *)
Closes(f, number) ==
    /\ finished' = [finished EXCEPT ![f] = @ \cup {number}]
    /\ \E content \in IF group[f] = {number} THEN {number}
                      ELSE {Torn} \cup finished'[f] :
          file' = [file EXCEPT ![f] = content]
    /\ UNCHANGED group

(* Mutant: save() exports the metadata before it dumps the model.          *)
MetaFirst(p) ==
    /\ saves < MaxSaves
    /\ Goto(p, {"dump"}, "dumping")
    /\ saves' = saves + 1
    /\ file' = [file EXCEPT !["meta"] = saves + 1]
    /\ group' = [group EXCEPT !["model"] = {saves + 1}]
    /\ call' = [call EXCEPT ![p].mine = saves + 1, ![p].lone = Savers = {}]
    /\ mixed' = (mixed \/ Savers # {})
    /\ UNCHANGED <<finished, cache, faults, saved, broken>>

DumpOpens(p) ==
    /\ saves < MaxSaves
    /\ Goto(p, {"dump"}, "dumping")
    /\ saves' = saves + 1
    /\ Opens("model", saves + 1)
    /\ call' = [q \in Programs |->
                  IF q = p
                  THEN [call[q] EXCEPT !.mine = saves + 1, !.lone = Savers = {}]
                  ELSE [call[q] EXCEPT !.lone = @ /\ q \notin Savers,
                                       !.calm = FALSE]]
    /\ mixed' = (mixed \/ Savers # {})
    /\ UNCHANGED <<cache, faults, saved, broken>>

DumpCloses(p) ==
    /\ Goto(p, {"dumping"}, "export")
    /\ Closes("model", call[p].mine)
    /\ saved' = saved \cup {call[p].mine}
    /\ mixed' = (mixed /\ ~call[p].lone)
    /\ UNCHANGED <<cache, call, saves, faults, broken>>

(* Mutant: save() keeps metadata that is already there.                    *)
ExportSkipped(p) ==
    IF Loads(file["meta"])
    THEN /\ Ends(p, {"export"}, "served")
         /\ broken' = ~call[p].lone
         /\ UNCHANGED <<fileVars, cache, saves, faults, saved, mixed>>
    ELSE /\ Goto(p, {"export"}, "exporting")
         /\ Opens("meta", call[p].mine)
         /\ UNCHANGED <<cache, call, saves, faults, history>>

ExportOpens(p) ==
    /\ Goto(p, {"export"}, "exporting")
    /\ Opens("meta", call[p].mine)
    /\ UNCHANGED <<cache, call, saves, faults, history>>

(* The end of save() and of train_pipeline: only now is the model cached   *)
(* and returned.                                                           *)
ExportCloses(p) ==
    /\ Ends(p, {"exporting"}, "served")
    /\ Closes("meta", call[p].mine)
    /\ cache' = [cache EXCEPT ![p] = IF call[p].keeps THEN call[p].mine ELSE @]
    /\ broken' = ~call[p].lone
    /\ UNCHANGED <<saves, faults, saved, mixed>>

(* An OSError in save(): nothing catches it, and the file stays as it is.  *)
SaveRaises(p) ==
    /\ faults < MaxFaults
    /\ faults' = faults + 1
    /\ Ends(p, Saving, "no disk")
    /\ broken' = TRUE
    /\ UNCHANGED <<fileVars, cache, saves, saved, mixed>>

-------------------------------------------------------------------------------
(* The end of a process, with its memory.                                  *)

Crash(p) ==
    /\ faults < MaxFaults
    /\ faults' = faults + 1
    /\ Ends(p, Saving, "down")
    /\ broken' = TRUE
    /\ cache' = [cache EXCEPT ![p] = Absent]
    /\ UNCHANGED <<fileVars, saves, saved, mixed>>

(* Outside save() a crash does what the end of the program does.           *)
Exit(p) ==
    /\ pc[p] \notin Saving
    /\ Ends(p, {pc[p]}, "down")
    /\ cache' = [cache EXCEPT ![p] = Absent]
    /\ UNCHANGED <<fileVars, saves, faults, history>>

-------------------------------------------------------------------------------
(* audit_model: both files must be there; the metadata is read, then the   *)
(* model is loaded, and the two are not compared.                          *)

AuditReads(p) ==
    /\ file["model"] # Absent
    /\ Loads(file["meta"])
    /\ Goto(p, Rest, "audit")
    /\ call' = [call EXCEPT ![p].meta = file["meta"],
                            ![p].calm = Savers = {} /\ ~broken]
    /\ UNCHANGED <<fileVars, cache, saves, faults, history>>

AuditPasses(p) ==
    /\ Loads(file["model"])
    /\ Ends(p, {"audit"}, "audited")
    /\ UNCHANGED <<fileVars, cache, saves, faults, history>>

AuditRaises(p) ==
    /\ \/ pc[p] = "audit" /\ ~Loads(file["model"])
       \/ pc[p] \in Rest /\ (file["model"] = Absent \/ ~Loads(file["meta"]))
    /\ Ends(p, {pc[p]}, "no audit")
    /\ UNCHANGED <<fileVars, cache, saves, faults, history>>

-------------------------------------------------------------------------------
(* What a program does until its call is over.                             *)
Goes(p) ==
    \/ Load(p) \/ LoadRaises(p) \/ Train(p) \/ Evaluate(p) \/ NoData(p)
    \/ DumpOpens(p) \/ DumpCloses(p) \/ ExportOpens(p) \/ ExportCloses(p)
    \/ AuditPasses(p)

Next ==
    \E p \in Programs :
       \/ Goes(p) \/ Get(p) \/ SaveRaises(p) \/ Crash(p) \/ Exit(p)
       \/ AuditReads(p) \/ AuditRaises(p)
       \/ \E keep \in BOOLEAN : Retrain(p, keep)

Spec == Init /\ [][Next]_vars

(* A program that has been called goes on; nobody owes a call or an exit.  *)
FairSpec == Spec /\ \A p \in Programs : WF_vars(Goes(p))

-------------------------------------------------------------------------------
(* The numbers of the calls of save().                                     *)
Numbers == 1 .. MaxSaves

TypeOK ==
    /\ file \in [Files -> Numbers \cup {Absent, Torn}]
    /\ group \in [Files -> SUBSET Numbers]
    /\ finished \in [Files -> SUBSET Numbers]
    /\ cache \in [Programs -> Numbers \cup {Absent}]
    /\ pc \in [Programs -> {"load", "train", "evaluate", "dump", "audit"}
                           \cup Saving \cup Rest]
    /\ call \in [Programs -> [keeps : BOOLEAN, mine : 0 .. MaxSaves,
                              lone : BOOLEAN, meta : Numbers \cup {Absent},
                              calm : BOOLEAN]]
    /\ saves \in 0 .. MaxSaves
    /\ faults \in 0 .. MaxFaults
    /\ saved \in SUBSET Numbers
    /\ broken \in BOOLEAN
    /\ mixed \in BOOLEAN

(* A program only ever decides with a model that some save() has written   *)
(* to the end, although it trains in memory and reads a file that others   *)
(* truncate, cut short and overwrite (model_manager.py:48 and 60).         *)
ServedIsSaved ==
    \A p \in Programs : cache[p] # Absent => cache[p] \in saved

(* The threshold in the metadata is never that of a newer model than the   *)
(* one in the model file, whatever crashes or fails between the two        *)
(* (train_isolation_forest.py:147-161), as long as no two save() meet; two *)
(* that have met are forgotten once a third, alone, has written its model. *)
MetaNeverAhead ==
    ~mixed /\ Loads(file["model"]) /\ Loads(file["meta"]) =>
       file["meta"] <= file["model"]

(* An audit that begins after a save() was whole, and meets no other, has  *)
(* read the metadata and the model of the same save(): what it prints      *)
(* (n_estimators from one file, the threshold from the other) is one       *)
(* model's, although it never compares the two (model_manager.py:78-93).   *)
AuditedPair ==
    [][\A p \in Programs :
          AuditPasses(p) /\ call[p].calm => file["model"] = call[p].meta]_vars

(* get_or_train_model survives a model file in pieces: a call that finds   *)
(* one serves a model in the end, or fails for want of data or of a disk,  *)
(* or with its process.  (The bound on save() may keep it waiting.)        *)
AnswersDespiteTorn ==
    \A p \in Programs :
       pc[p] = "load" ~>
          \/ pc[p] \in {"served", "no data", "no disk", "down"}
          \/ saves = MaxSaves

===============================================================================

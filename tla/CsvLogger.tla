------------------------------ MODULE CsvLogger -------------------------------
(***************************************************************************)
(* CSVTelemetryLogger: threads append rows to a buffer under a lock; a     *)
(* full buffer goes through the stream's own buffer to the file, and so    *)
(* does the rest on close().  flush() is public and takes no lock.  Writes *)
(* fail, the process dies at any moment, and the next one appends to what  *)
(* it finds.                                                               *)
(*                                                                         *)
(* A row is its session (the life of one logger object) and its number in  *)
(* the order in which rows enter the buffer.  log_frame() of a frame that  *)
(* cannot be parsed raises before it comes here and is not modelled.  A    *)
(* row is in the file when its last byte is.                               *)
(***************************************************************************)
EXTENDS Integers, Sequences, SequencesExt

CONSTANTS
    Threads,     \* threads that log and close
    Direct,      \* those that call flush() themselves
    BufferSize,  \* buffer_size
    NoOne,       \* the lock is free
    MaxRows,     \* bound: session n logs MaxRows \div n rows
    MaxSessions, \* bound: sessions on one file
    MaxFailures  \* bound: writes that fail in a session

ASSUME LoggerAssumption ==
    /\ Direct \subseteq Threads
    /\ BufferSize \in Nat \ {0}
    /\ MaxRows \in Nat
    /\ MaxSessions \in Nat
    /\ MaxFailures \in Nat
    /\ NoOne \notin Threads

VARIABLES
    exists,   \* the file exists
    file,     \* what is in it
    life,     \* down, in the constructor, or up
    session,  \* which life it is
    isOpen,   \* _file_handle is not None
    pending,  \* what the stream has taken and the file has not
    buffer,   \* _buffer
    total,    \* total_logged
    holder,   \* who holds _lock
    op,       \* what each thread has called
    pc,       \* where it stands there
    next,     \* the next row its writerows() takes, 1 outside
    failures, \* history: how many writes of this session have failed
    raced,    \* history: a direct flush() has met another call
    closedAt  \* history: rows logged when close() closed the file

fileVars == <<exists, file>>
objectVars == <<life, session, isOpen, closedAt>>
callVars == <<holder, op, pc, next>>
historyVars == <<failures, raced>>
vars == <<fileVars, objectVars, pending, buffer, total, callVars, historyVars>>

Header == <<0, 0>>

Row == (1..MaxSessions) \X (Nat \ {0})

Init ==
    /\ exists \in BOOLEAN
    /\ file = <<>>
    /\ life = "down"
    /\ session = 0
    /\ isOpen = FALSE
    /\ pending = <<>>
    /\ buffer = <<>>
    /\ total = 0
    /\ holder = NoOne
    /\ op = [t \in Threads |-> "none"]
    /\ pc = [t \in Threads |-> "idle"]
    /\ next = [t \in Threads |-> 1]
    /\ failures = 0
    /\ raced = FALSE
    /\ closedAt = 0

Goto(t, place) ==
    /\ pc' = [pc EXCEPT ![t] = place]
    /\ op' = [op EXCEPT ![t] = IF place = "idle" THEN "none" ELSE op[t]]

(* Where flush() leads when it returns, and when it raises: close() then   *)
(* leaves its file open, and with releases the lock either way.            *)
AfterFlush(t) ==
    CASE op[t] = "log" -> "unlock" [] op[t] = "close" -> "close"
      [] OTHER -> "idle"

AfterRaise(t) == IF op[t] = "flush" THEN "idle" ELSE "unlock"

-------------------------------------------------------------------------------
(* Plausible bugs that the properties below tell from the code: README.md  *)
(* says which property refutes which.                                      *)

(* Mutant: a file that exists is taken to have its header.                 *)
ExistsSuffices == ~exists

(* Mutant: the test for a full buffer is off by one.                       *)
FullTooLate(b) == Len(b) > BufferSize

(* Mutant: flush() takes the lock itself, which its callers hold.          *)
FlushLocks(t) ==
    /\ pc[t] = "flush"
    /\ holder = NoOne
    /\ IF isOpen /\ buffer # <<>> THEN Goto(t, "rows") ELSE Goto(t, AfterFlush(t))
    /\ UNCHANGED <<fileVars, objectVars, pending, buffer, total, holder, next,
                   historyVars>>

(* Mutant: the buffer is cleared whether the write succeeds or not.        *)
FailureClears(t) ==
    /\ pc[t] \in {"rows", "disk"}
    /\ failures < MaxFailures
    /\ \E k \in 0..Len(pending), m \in 0..Len(pending) :
          /\ file' = file \o SubSeq(pending, 1, k)
          /\ pending' = SubSeq(pending, k + 1, m)
    /\ buffer' = <<>>
    /\ failures' = failures + 1
    /\ next' = [next EXCEPT ![t] = 1]
    /\ Goto(t, AfterRaise(t))
    /\ UNCHANGED <<exists, objectVars, total, holder, raced>>

(* Mutant: the buffer is not cleared after it has been written.            *)
NoClear(t) ==
    /\ pc[t] = "clear"
    /\ Goto(t, AfterFlush(t))
    /\ UNCHANGED <<fileVars, objectVars, pending, buffer, total, holder, next,
                   historyVars>>

(* Mutant: close() does not flush.                                         *)
CloseSkipsFlush(t) ==
    /\ pc[t] = "lock"
    /\ op[t] = "close"
    /\ holder = NoOne
    /\ holder' = t
    /\ Goto(t, "close")
    /\ UNCHANGED <<fileVars, objectVars, pending, buffer, total, next,
                   historyVars>>

-------------------------------------------------------------------------------
(* The constructor and the end of a session.                               *)

NeedsHeader == ~(exists /\ file # <<>>)

OpenFile ==
    /\ life = "down"
    /\ session < MaxSessions
    /\ life' = "boot"
    /\ session' = session + 1
    /\ isOpen' = TRUE
    /\ exists' = TRUE
    /\ pending' = IF NeedsHeader THEN <<Header>> ELSE <<>>
    /\ buffer' = <<>>
    /\ total' = 0
    /\ failures' = 0
    /\ raced' = FALSE
    /\ closedAt' = 0
    /\ UNCHANGED <<file, callVars>>

HeaderFlushed ==
    /\ life = "boot"
    /\ life' = "up"
    /\ file' = file \o pending
    /\ pending' = <<>>
    /\ UNCHANGED <<exists, session, isOpen, closedAt, buffer, total, callVars,
                   historyVars>>

(* The process dies or is done with the logger.  The stream may have       *)
(* passed on some of what it holds.                                        *)
Crash ==
    /\ life # "down"
    /\ life' = "down"
    /\ \E k \in 0..Len(pending) : file' = file \o SubSeq(pending, 1, k)
    /\ pending' = <<>>
    /\ buffer' = <<>>
    /\ isOpen' = FALSE
    /\ holder' = NoOne
    /\ op' = [t \in Threads |-> "none"]
    /\ pc' = [t \in Threads |-> "idle"]
    /\ next' = [t \in Threads |-> 1]
    /\ total' = 0
    /\ closedAt' = 0
    /\ UNCHANGED <<exists, session, historyVars>>

-------------------------------------------------------------------------------
(* Calls.                                                                  *)

Busy(t) == pc[t] # "idle"

Call(t, name, place) ==
    /\ life = "up"
    /\ ~Busy(t)
    /\ op' = [op EXCEPT ![t] = name]
    /\ pc' = [pc EXCEPT ![t] = place]
    /\ raced' = (raced \/ \E u \in Threads :
                     Busy(u) /\ (name = "flush" \/ op[u] = "flush"))
    /\ UNCHANGED <<fileVars, objectVars, pending, buffer, total, holder, next,
                   failures>>

CallLog(t) == Call(t, "log", "lock")
CallClose(t) == isOpen /\ Call(t, "close", "lock")
CallFlush(t) == t \in Direct /\ Call(t, "flush", "flush")

Full(b) == Len(b) >= BufferSize

LogEnters(t) ==
    /\ pc[t] = "lock"
    /\ op[t] = "log"
    /\ total < MaxRows \div session
    /\ holder = NoOne
    /\ holder' = t
    /\ total' = total + 1
    /\ buffer' = Append(buffer, <<session, total + 1>>)
    /\ Goto(t, IF Full(buffer') THEN "flush" ELSE "unlock")
    /\ UNCHANGED <<fileVars, objectVars, pending, next, historyVars>>

CloseEnters(t) ==
    /\ pc[t] = "lock"
    /\ op[t] = "close"
    /\ holder = NoOne
    /\ holder' = t
    /\ Goto(t, "flush")
    /\ UNCHANGED <<fileVars, objectVars, pending, buffer, total, next,
                   historyVars>>

(* flush() on a closed file does nothing, and the row stays in the buffer. *)
FlushBegins(t) ==
    /\ pc[t] = "flush"
    /\ IF isOpen /\ buffer # <<>> THEN Goto(t, "rows") ELSE Goto(t, AfterFlush(t))
    /\ UNCHANGED <<fileVars, objectVars, pending, buffer, total, holder, next,
                   historyVars>>

(* writerows() walks the list itself: it meets what others append.         *)
WriteRow(t) ==
    /\ pc[t] = "rows"
    /\ isOpen
    /\ next[t] <= Len(buffer)
    /\ pending' = Append(pending, buffer[next[t]])
    /\ next' = [next EXCEPT ![t] = next[t] + 1]
    /\ UNCHANGED <<fileVars, objectVars, buffer, total, holder, op, pc,
                   historyVars>>

RowsWritten(t) ==
    /\ pc[t] = "rows"
    /\ isOpen
    /\ next[t] > Len(buffer)
    /\ Goto(t, "disk")
    /\ next' = [next EXCEPT ![t] = 1]
    /\ UNCHANGED <<fileVars, objectVars, pending, buffer, total, holder,
                   historyVars>>

FlushDisk(t) ==
    /\ pc[t] = "disk"
    /\ isOpen
    /\ file' = file \o pending
    /\ pending' = <<>>
    /\ Goto(t, "clear")
    /\ UNCHANGED <<exists, objectVars, buffer, total, holder, next,
                   historyVars>>

Clear(t) ==
    /\ pc[t] = "clear"
    /\ buffer' = <<>>
    /\ Goto(t, AfterFlush(t))
    /\ UNCHANGED <<fileVars, objectVars, pending, total, holder, next,
                   historyVars>>

(* A write fails: some of the stream's rows have reached the file, it      *)
(* keeps some of the others and forgets the rest.                          *)
FlushFails(t) ==
    /\ pc[t] \in {"rows", "disk"}
    /\ isOpen
    /\ failures < MaxFailures
    /\ \E k \in 0..Len(pending), m \in 0..Len(pending) :
          /\ file' = file \o SubSeq(pending, 1, k)
          /\ pending' = SubSeq(pending, k + 1, m)
    /\ failures' = failures + 1
    /\ next' = [next EXCEPT ![t] = 1]
    /\ Goto(t, AfterRaise(t))
    /\ UNCHANGED <<exists, objectVars, buffer, total, holder, raced>>

(* The file has been closed under a direct flush().                        *)
FlushOnClosed(t) ==
    /\ pc[t] \in {"rows", "disk"}
    /\ ~isOpen
    /\ next' = [next EXCEPT ![t] = 1]
    /\ Goto(t, AfterRaise(t))
    /\ UNCHANGED <<fileVars, objectVars, pending, buffer, total, holder,
                   historyVars>>

CloseFile(t) ==
    /\ pc[t] = "close"
    /\ isOpen' = FALSE
    /\ file' = file \o pending
    /\ pending' = <<>>
    /\ closedAt' = IF isOpen THEN total ELSE closedAt
    /\ Goto(t, "unlock")
    /\ UNCHANGED <<exists, life, session, buffer, total, holder, next,
                   historyVars>>

Unlock(t) ==
    /\ pc[t] = "unlock"
    /\ holder' = NoOne
    /\ Goto(t, "idle")
    /\ UNCHANGED <<fileVars, objectVars, pending, buffer, total, next,
                   historyVars>>

-------------------------------------------------------------------------------
Inside(t) ==
    \/ FlushBegins(t) \/ WriteRow(t) \/ RowsWritten(t) \/ FlushDisk(t)
    \/ Clear(t) \/ FlushFails(t) \/ FlushOnClosed(t) \/ CloseFile(t) \/ Unlock(t)

Next ==
    \/ OpenFile \/ HeaderFlushed \/ Crash
    \/ \E t \in Threads :
          \/ CallLog(t) \/ CallClose(t) \/ CallFlush(t)
          \/ LogEnters(t) \/ CloseEnters(t) \/ Inside(t)

Spec == Init /\ [][Next]_vars

(* A thread that is past its lock goes on.                                 *)
FairSpec == Spec /\ \A t \in Threads : WF_vars(Inside(t))

-------------------------------------------------------------------------------
(* The type invariant.                                                     *)
TypeOK ==
    /\ exists \in BOOLEAN
    /\ file \in Seq(Row \cup {Header})
    /\ life \in {"down", "boot", "up"}
    /\ session \in 0..MaxSessions
    /\ isOpen \in BOOLEAN
    /\ pending \in Seq(Row \cup {Header})
    /\ buffer \in Seq(Row)
    /\ total \in Nat
    /\ holder \in Threads \cup {NoOne}
    /\ op \in [Threads -> {"none", "log", "close", "flush"}]
    /\ pc \in [Threads -> {"idle", "lock", "flush", "rows", "disk", "clear",
                           "close", "unlock"}]
    /\ next \in [Threads -> Nat \ {0}]
    /\ failures \in Nat
    /\ raced \in BOOLEAN
    /\ closedAt \in Nat

(* Rows 1..n of this session.                                              *)
Rows(n) == {<<session, i>> : i \in 1..n}

(* One header, in front of every row, after any number of crashes in and   *)
(* out of the constructor.                                                 *)
OneHeader ==
    \A i \in 1..Len(file) : file[i] = Header <=> i = 1

(* A row leaves the buffer only for the file, whatever fails on the way.   *)
NoRowForgotten ==
    life = "up" /\ ~raced => Rows(total) \subseteq ToSet(buffer) \cup ToSet(file)

(* Unless a write fails, the file has the rows of a session in the order   *)
(* in which they were logged, each once, and in front of a row all rows    *)
(* logged before it.                                                       *)
InOrderOnce ==
    failures = 0 /\ ~raced =>
        LET mine == {i \in DOMAIN file : file[i][1] = session}
        IN  /\ \A i, j \in mine : i < j => file[i][2] < file[j][2]
            /\ \A j \in mine : \A n \in 1..file[j][2] - 1 :
                  \E i \in 1..j - 1 : file[i] = <<session, n>>

(* What a crash can lose: fewer rows than the buffer holds, and the one    *)
(* being logged.                                                           *)
CrashLosesLess ==
    life = "up" /\ isOpen /\ failures = 0 /\ ~raced =>
        LET onFile == {i \in 1..total : <<session, i>> \in ToSet(file)}
        IN  /\ \A i \in 1..total : i + BufferSize <= total => i \in onFile
            /\ holder = NoOne /\ total >= BufferSize =>
                   total + 1 - BufferSize \in onFile

(* A file that close() has closed has every row logged until then, however *)
(* often writes failed before.                                             *)
ClosedIsComplete ==
    life = "up" /\ ~isOpen /\ ~raced => Rows(closedAt) \subseteq ToSet(file)

(* Whoever has the lock gives it back.                                     *)
LockReleased == \A t \in Threads : holder = t ~> holder # t

==============================================================================

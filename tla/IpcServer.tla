------------------------------ MODULE IpcServer -------------------------------
(***************************************************************************)
(* The life cycle of CANIPCServer on a Unix domain socket: start() and     *)
(* stop() in the control thread, the accept loop each start() spawns, the  *)
(* socket file, and the connections of the capture tools.                  *)
(*                                                                         *)
(* The g-th call of start() spawns thread g, which creates socket g; the   *)
(* attributes it shares with the control thread, _server_sock among them,  *)
(* are read afresh at each use and no lock protects them.  What flows over *)
(* a connection is module IpcLink's.                                       *)
(***************************************************************************)
EXTENDS Integers, FiniteSets

CONSTANTS
    Clients,    \* capture tools
    MaxStarts   \* bound: calls of start() that spawn a thread

ASSUME ServerAssumption == MaxStarts \in Nat \ {0}

Runs == 1..MaxStarts

Absent == 0               \* no file at unix_socket_path
Stale  == MaxStarts + 1   \* a file that an earlier process left there

VARIABLES
    mainPc,     \* where the control thread stands: "idle" outside stop()
    isRunning,  \* self.running
    starts,     \* threads spawned so far; self._thread is the last of them
    serverSock, \* self._server_sock: 0 is None
    sock,       \* the kernel's view of each server socket
    path,       \* what unix_socket_path names: Absent, Stale or a socket
    thread,     \* where each server thread stands
    on,         \* the socket each thread is accepting on
    conn,       \* each tool's connection
    queuedOn,   \* the socket whose backlog holds the connection
    orderly     \* history: the last stop() found its thread in the loop

mainVars == <<mainPc, starts, orderly>>
connVars == <<conn, queuedOn>>
lifeVars == <<mainPc, isRunning, starts, serverSock, sock, path, thread, on,
              conn, queuedOn, orderly>>

InLoop(g) == thread[g] \in {"check", "accept"}

Goto(g, from, to) ==
    /\ thread[g] = from
    /\ thread' = [thread EXCEPT ![g] = to]

Backlog(s) == {c \in Clients : conn[c] = "queued" /\ queuedOn[c] = s}

ServerInit ==
    /\ mainPc = "idle"
    /\ isRunning = FALSE
    /\ starts = 0
    /\ serverSock = 0
    /\ sock = [g \in Runs |-> "none"]
    /\ path \in {Absent, Stale}
    /\ thread = [g \in Runs |-> "none"]
    /\ on = [g \in Runs |-> 0]
    /\ conn = [c \in Clients |-> "off"]
    /\ queuedOn = [c \in Clients |-> 0]
    /\ orderly = TRUE

-------------------------------------------------------------------------------
(* Plausible bugs that the properties below tell from the code: README.md  *)
(* says which property refutes which.                                      *)

(* Mutant: stop() leaves the file to the accept loop.                      *)
StopKeepsFile ==
    /\ mainPc = "exists"
    /\ mainPc' = "join"
    /\ UNCHANGED <<isRunning, starts, serverSock, sock, path, thread, on,
                   connVars, orderly>>

(* Mutant: a file left by an earlier process is not removed.               *)
StaleKept(g) ==
    /\ Goto(g, "exists", "socket")
    /\ UNCHANGED <<mainVars, isRunning, serverSock, sock, path, on, connVars>>

(* Mutant: a timeout breaks the accept loop like any other exception.      *)
TimeoutBreaks(g) ==
    /\ Goto(g, "accept", "dead")
    /\ Backlog(on[g]) = {}
    /\ UNCHANGED <<mainVars, isRunning, serverSock, sock, path, on, connVars>>

(* Mutant: the accept loop removes the file on its way out.                *)
LoopRemovesFile(g) ==
    /\ Goto(g, "accept", "dead")
    /\ sock[on[g]] = "closed"
    /\ path' = Absent
    /\ UNCHANGED <<mainVars, isRunning, serverSock, sock, on, connVars>>

-------------------------------------------------------------------------------
(* The control thread.                                                     *)

Start ==
    /\ mainPc = "idle"
    /\ ~isRunning
    /\ starts < MaxStarts
    /\ isRunning' = TRUE
    /\ starts' = starts + 1
    /\ thread' = [thread EXCEPT ![starts + 1] = "exists"]
    /\ UNCHANGED <<mainPc, serverSock, sock, path, on, connVars, orderly>>

Stop ==
    /\ mainPc = "idle"
    /\ mainPc' = "close"
    /\ isRunning' = FALSE
    /\ orderly' = IF isRunning THEN InLoop(starts) ELSE orderly
    /\ UNCHANGED <<starts, serverSock, sock, path, thread, on, connVars>>

StopClose ==
    /\ mainPc = "close"
    /\ mainPc' = "exists"
    /\ sock' = [g \in Runs |-> IF g = serverSock THEN "closed" ELSE sock[g]]
    /\ UNCHANGED <<isRunning, starts, serverSock, path, thread, on, connVars,
                   orderly>>

StopExists ==
    /\ mainPc = "exists"
    /\ mainPc' = IF path # Absent THEN "remove" ELSE "join"
    /\ UNCHANGED <<isRunning, starts, serverSock, sock, path, thread, on,
                   connVars, orderly>>

(* Nothing to remove any more is not an error either.                      *)
StopRemove ==
    /\ mainPc = "remove"
    /\ mainPc' = "join"
    /\ path' = Absent
    /\ UNCHANGED <<isRunning, starts, serverSock, sock, thread, on, connVars,
                   orderly>>

(* join(timeout=1.0): the thread has ended, or it still waits in accept(), *)
(* whose own timeout is as long.  Nothing else it does takes a second.     *)
StopJoin ==
    /\ mainPc = "join"
    /\ starts > 0 => thread[starts] \in {"accept", "dead"}
    /\ mainPc' = "idle"
    /\ UNCHANGED <<isRunning, starts, serverSock, sock, path, thread, on,
                   connVars, orderly>>

-------------------------------------------------------------------------------
(* _server_loop.  An exception outside the accept loop's try kills the     *)
(* thread; running keeps its value.                                        *)

PathExists(g) ==
    /\ Goto(g, "exists", IF path # Absent THEN "remove" ELSE "socket")
    /\ UNCHANGED <<mainVars, isRunning, serverSock, sock, path, on, connVars>>

RemoveStale(g) ==
    /\ Goto(g, "remove", IF path # Absent THEN "socket" ELSE "dead")
    /\ path' = Absent
    /\ UNCHANGED <<mainVars, isRunning, serverSock, sock, on, connVars>>

(* The socket that _server_sock held before loses its last reference.      *)
MakeSocket(g) ==
    /\ Goto(g, "socket", "bind")
    /\ sock' = [h \in Runs |-> IF h = g THEN "made"
                               ELSE IF h = serverSock THEN "closed"
                               ELSE sock[h]]
    /\ serverSock' = g
    /\ UNCHANGED <<mainVars, isRunning, path, on, connVars>>

(* A closed socket, or a file that is in the way, raises.                  *)
Bind(g) ==
    /\ thread[g] = "bind"
    /\ \/ /\ sock[serverSock] = "made" /\ path = Absent
          /\ Goto(g, "bind", "listen")
          /\ sock' = [sock EXCEPT ![serverSock] = "bound"]
          /\ path' = serverSock
       \/ /\ sock[serverSock] # "made" \/ path # Absent
          /\ Goto(g, "bind", "dead")
          /\ UNCHANGED <<sock, path>>
    /\ UNCHANGED <<mainVars, isRunning, serverSock, on, connVars>>

Listen(g) ==
    /\ thread[g] = "listen"
    /\ \/ /\ sock[serverSock] = "bound"
          /\ Goto(g, "listen", "check")
          /\ sock' = [sock EXCEPT ![serverSock] = "listening"]
       \/ /\ sock[serverSock] # "bound"
          /\ Goto(g, "listen", "dead")
          /\ UNCHANGED sock
    /\ UNCHANGED <<mainVars, isRunning, serverSock, path, on, connVars>>

(* `while self.running`, then accept() on the current _server_sock; one    *)
(* that is closed, or not listening yet, raises and breaks the loop.       *)
Check(g) ==
    /\ Goto(g, "check", IF isRunning /\ sock[serverSock] = "listening"
                        THEN "accept" ELSE "dead")
    /\ on' = [on EXCEPT ![g] = serverSock]
    /\ UNCHANGED <<mainVars, isRunning, serverSock, sock, path, connVars>>

AcceptClient(g) ==
    /\ Goto(g, "accept", "check")
    /\ sock[on[g]] = "listening"
    /\ \E c \in Backlog(on[g]) : conn' = [conn EXCEPT ![c] = "check"]
    /\ UNCHANGED <<mainVars, isRunning, serverSock, sock, path, on, queuedOn>>

(* One second without a connection.  The wait outlives a close().          *)
AcceptTimeout(g) ==
    /\ Goto(g, "accept", "check")
    /\ Backlog(on[g]) = {}
    /\ UNCHANGED <<mainVars, isRunning, serverSock, sock, path, on, connVars>>

(* A connection ends the wait, but the socket has been closed: break.      *)
AcceptFails(g) ==
    /\ Goto(g, "accept", "dead")
    /\ sock[on[g]] = "closed"
    /\ UNCHANGED <<mainVars, isRunning, serverSock, sock, path, on, connVars>>

-------------------------------------------------------------------------------
(* A tool's connection and the handler thread that serves it.              *)

ToolConnects(c) ==
    /\ conn[c] = "off"
    /\ path \in Runs
    /\ sock[path] = "listening"
    /\ conn' = [conn EXCEPT ![c] = "queued"]
    /\ queuedOn' = [queuedOn EXCEPT ![c] = path]
    /\ UNCHANGED <<mainVars, isRunning, serverSock, sock, path, thread, on>>

QueuedReset(c) ==
    /\ conn[c] = "queued"
    /\ sock[queuedOn[c]] = "closed"
    /\ conn' = [conn EXCEPT ![c] = "closed"]
    /\ UNCHANGED <<mainVars, isRunning, serverSock, sock, path, thread, on,
                   queuedOn>>

HandlerTests(c) ==
    /\ conn[c] = "check"
    /\ conn' = [conn EXCEPT ![c] = IF isRunning THEN "recv" ELSE "closed"]
    /\ UNCHANGED <<mainVars, isRunning, serverSock, sock, path, thread, on,
                   queuedOn>>

(* Bytes arrive and their frames are dispatched, or the tool hangs up.     *)
HandlerRecv(c) ==
    /\ conn[c] = "recv"
    /\ \E next \in {"check", "closed"} : conn' = [conn EXCEPT ![c] = next]
    /\ UNCHANGED <<mainVars, isRunning, serverSock, sock, path, thread, on,
                   queuedOn>>

-------------------------------------------------------------------------------
StopStep == StopClose \/ StopExists \/ StopRemove \/ StopJoin

ServerStep(g) ==
    \/ PathExists(g) \/ RemoveStale(g) \/ MakeSocket(g) \/ Bind(g) \/ Listen(g)
    \/ Check(g) \/ AcceptClient(g) \/ AcceptTimeout(g) \/ AcceptFails(g)

ServerNext ==
    \/ Start \/ Stop \/ StopStep
    \/ \E g \in Runs : ServerStep(g)
    \/ \E c \in Clients :
          ToolConnects(c) \/ QueuedReset(c) \/ HandlerTests(c) \/ HandlerRecv(c)

ServerSpec == ServerInit /\ [][ServerNext]_lifeVars

(* Threads that can run do run; nobody has to call start() or stop(), and  *)
(* no tool has to connect or to send.                                      *)
ServerFairSpec ==
    /\ ServerSpec
    /\ WF_lifeVars(StopStep)
    /\ \A g \in Runs : WF_lifeVars(ServerStep(g))
    /\ \A c \in Clients : WF_lifeVars(QueuedReset(c) \/ HandlerTests(c))

-------------------------------------------------------------------------------
(* The type invariant.                                                     *)
ServerTypeOK ==
    /\ mainPc \in {"idle", "close", "exists", "remove", "join"}
    /\ isRunning \in BOOLEAN
    /\ starts \in 0..MaxStarts
    /\ serverSock \in 0..MaxStarts
    /\ sock \in [Runs -> {"none", "made", "bound", "listening", "closed"}]
    /\ path \in 0..MaxStarts + 1
    /\ thread \in [Runs -> {"none", "exists", "remove", "socket", "bind",
                            "listen", "check", "accept", "dead"}]
    /\ on \in [Runs -> 0..MaxStarts]
    /\ conn \in [Clients -> {"off", "queued", "check", "recv", "closed"}]
    /\ queuedOn \in [Clients -> 0..MaxStarts]
    /\ orderly \in BOOLEAN

(* While the server is in service its file names its listening socket: no  *)
(* thread left over from an earlier run removes it, closes the socket or   *)
(* replaces it.                                                            *)
ServiceReachable ==
    (isRunning /\ starts > 0 /\ InLoop(starts)) =>
        path = starts /\ serverSock = starts /\ sock[starts] = "listening"

(* stop() of a server that was up leaves neither the file nor a listening  *)
(* socket, whatever its accept loop does meanwhile.                        *)
OrderlyStopCleansUp ==
    (mainPc = "idle" /\ ~isRunning /\ starts > 0 /\ orderly) =>
        path = Absent /\ \A g \in Runs : sock[g] # "listening"

(* start() brings the server up, after any sequence of starts and stops    *)
(* and over a stale file, unless stop() is called first.                   *)
StartServes ==
    isRunning ~> (~isRunning \/ (sock[starts] = "listening" /\ path = starts))

(* A tool whose connect() succeeded while the server is up gets a handler, *)
(* unless stop() is called first.                                          *)
ConnectedIsAccepted ==
    \A c \in Clients :
        (isRunning /\ conn[c] = "queued") ~> (~isRunning \/ conn[c] # "queued")

(* "Stop the IPC server and clean up socket files.": once stop() has       *)
(* returned the file is gone and nothing listens.                          *)
StopCleansUp ==
    (mainPc = "idle" /\ ~isRunning /\ starts > 0) =>
        path = Absent /\ \A g \in Runs : sock[g] # "listening"

==============================================================================

# TLA+ models and proofs for CAN-Sentinel

CAN-Sentinel captures frames of an automotive CAN bus with small C programs,
streams them to a Python process, scores each with an Isolation Forest and
raises alerts.  This directory holds TLA+ models of its moving parts, the TLC
configurations that check them, and theorems that TLAPS proves about them.

    tlc -workers 2 -config IpcLink.cfg MCIpcLink        # a run
    tlapm IpcProofs.tla                             # the proofs of a module

Paths below are relative to the repository's root; `PROJECT.json` lists every
run, theorem, hazard and the source lines of every definition.

## 1. Inventory

| Part | State it keeps | Operations | What makes it correct |
|------|----------------|------------|-----------------------|
| Capture tools `src/c/sniffer.c`, `src/c/ipc_bridge.c` | running flag, counters, CAN socket, stream socket | connect, read a frame, write its struct, SIGINT, exit | every frame written whole; bus order; ends when told to; a full stream only costs frames, never their framing |
| IPC server `src/ipc/ipc_server.py` | `running`, `_server_sock`, `_thread`, socket file; per client a byte buffer | start, stop, accept loop, `_handle_client` | frames cut where they were written; start serves; stop cleans up; no leftover thread harms the next run |
| Telemetry parser `src/parser/telemetry_parser.py` | `last_seen_per_id`, global timestamp, statistics | `parse_frame`, `decode_signals` | true gaps per id; every frame of the layout decodes |
| Feature extractor `src/ml/features.py` | times and payloads per id, window of ids | `extract_features`, `extract_features_from_csv` | a vector says of the stream what its definition says; training and detection build the same ones |
| Detector `src/detection/stream_detector.py` | threat window, counters | `process_frame` | every frame scored and counted; density is a percentage |
| Alert engine `src/detection/alert_engine.py` | counter, bounded history, JSON log | `evaluate_detection`, `_record_alert` | no anomaly lost; unique increasing numbers; the named attack is the one that happened |
| Virtual bus `src/sim/bus_emulator.py` | subscriber queues, `_is_open` | send, create/remove subscriber, close | same order for all subscribers; drops only at a full queue |
| ECU simulators `src/sim/ecu_generator.py`, `src/c/ecu_sim.c` | vehicle state, threads, bus, statistics | start, stop, five periodic loops, `generate_batch` | consistent snapshots; stop ends every thread; each id at its period |
| CSV logger `src/logger/csv_logger.py` | row buffer, file | `log_frame`, `flush`, `close` | each row once in the file, one header |
| Model store `src/ml/model_manager.py`, `src/ml/train_isolation_forest.py` | cached model, model file, metadata file | load or train, save, audit | model and threshold belong together; a damaged file is survived |
| Training and evaluation `src/ml/train_isolation_forest.py`, `src/ml/evaluate.py` | scaler, forest, threshold | `fit`, `predict`, `evaluate_dataset` | the baseline yields few false alarms; the report's numbers agree with each other |
| Dataset generators `src/logger/csv_logger.py`, `src/attacks/attack_suite.py` | a list of frames, a logger | compose, sort, log, close | the CSV has the frames in the order and with the times they had |
| Stress test `tests/stress_test.py` | a queue, a consumer thread | flood, wait, join | it ends, with every frame processed |
| Frame crafting and attacks `src/c/can_broadcaster.c`, `src/c/attack_injector.c` | none that is shared | craft, parse, send loops | what is crafted is what is sent; loops end |

How they interact: the kernel carries frames from the bus to a capture tool's
raw socket; the tool writes 24-byte structs into a Unix or TCP stream; the
server's accept loop gives each connection a handler thread; the handler cuts
structs out of the stream and calls the subscribers in its own thread, which is
how `StreamAnomalyDetector.process_frame` and, behind it,
`AlertEngine.evaluate_detection` come to run in several threads at once.  Below
the server nothing is shared between clients; above it everything is, without
a lock.  Beside this path stands that of the model: a generator or a bus feeds
the logger, whose CSV `train_pipeline` turns into vectors and a model; the model
file is what every later process loads, and the detector asks the model about
vectors it builds itself.

What is hard to test here: chunk boundaries that drift against frame
boundaries; `stop()` against a thread that is just starting or that outlives the
one-second join; signals during blocking calls; a closed reader or bus; two
handlers in the unlocked detector; failing log writes; a logger that crashes
with rows in memory; two files that are written in place by several processes;
a frame that one of two readers refuses; features computed twice, live and from
a rounded CSV.  `PROJECT.json` lists these hazards
with their lines and the properties that cover them.

## 2. Modules

| Module | Models |
|--------|--------|
| `FrameChannel` | the abstract promise of the capture link: frames come out whole, in order, at most once |
| `IpcLink` | one capture tool and the handler that serves it, byte by byte |
| `IpcServer` | start, stop, accept loops and the socket file over several runs |
| `Detection` | handler threads in the parser, the detector and the alert engine |
| `BroadcastLog` | the abstract promise of the virtual bus: one log of frames, every listener is offered every frame of its time, in log order |
| `VirtualBus` | send, subscribe, unsubscribe, close and read, by several threads |
| `EcuSimC` | threads and mutexes of the C simulator, from the physics thread to the joins |
| `EcuSimPy` | the life of the threads of the Python simulator over several runs, and the schedule of `generate_batch` |
| `CsvLogger` | threads in the CSV logger, from the row buffer to the file, over crashes and restarts |
| `Features` | the parser and the feature extractor, as functions of their state and a frame |
| `Evaluation` | threshold, verdicts and report, as functions of the scores |
| `Dataset` | composes both: a stream of frames through the logger and its CSV to training, and through the detector |
| `ModelStore` | the model file, the metadata file and the cached models of several processes |
| `StressTest` | the producer and the consumer of the stress test over a queue of the bus |
| `MC...` | the same for TLC |
| `...Proofs` | theorems and their proofs |

### IpcLink

A frame is its number on the bus; byte `j` of the struct of frame `f` is
`<<f, j>>`.  That is all the properties need: which frame a byte is of, and
where it stands.  `program` is chosen initially: the sniffer, which only has the
Unix socket, or the bridge on either stream.  `toolPc` is the place in the tool's `main`, `handler` the place
in `_handle_client`; each action is the code from one blocking call, or one test
of a shared flag, to the next.

* `Connect`/`ConnectFails`: `open_ipc_socket`, or the bridge's section 2.  The
  sniffer continues without a link when it fails, the bridge exits.
* `LoopCheck`, `ReadFrame`, `ReadError`, `WriteBytes`, `WriteBlocks`,
  `WriteFails`: the main loop.  The bridge leaves it on a failed or short write,
  the sniffer closes its link and goes on.
* A Unix stream takes a struct whole or not at all (a buffer of the kernel holds
  it), TCP takes what fits.  When the handler has closed its end, a Unix write
  fails with SIGPIPE; a TCP write may still be taken into the void.  Neither tool
  ignores SIGPIPE, so `SigPipe` kills it; a write that was already blocked may
  instead return the error.  These rules are the kernel's, hence external.
* `SigInt`: `handle_sigint`, in any state.  `signal()` of glibc means SA_RESTART:
  blocking calls go on, except a TCP write that has already moved some bytes.
* `Recv` returns any prefix of what has arrived, up to `RecvMax`.  `Dispatch` is
  one turn of the inner loop, which does not look at `running`.
* `ServerStop`: `stop()` seen from the handler.  The rest of `stop()` is
  `IpcServer`'s.

Left out: option parsing, filters, printing, the mock branches for systems
without SocketCAN, short reads of the raw socket (SocketCAN delivers whole
frames), and the content of the struct.

### IpcServer

`mainPc` is the place of the control thread in `stop()`; `start()` is one action
(it makes no call another thread could see in between, and the thread it spawns
runs at its own pace).  `thread[g]` is the place of the g-th server thread in
`_server_loop`; every call on the shared attribute `_server_sock` reads it
afresh, so a thread may act on its successor's socket.  Details of the platform
that the model takes as given:

* assigning a new socket to `_server_sock` drops the last reference to the old
  one, which closes it;
* `close()` does not wake a thread that waits inside `accept()`; it wakes after
  its own second, or on a connection;
* `join(timeout=1.0)` can give up only while the thread waits in `accept()`, whose
  timeout is as long; anything else the thread does is far shorter;
* a second thread that waits on the successor's socket may take its connections,
  which is harmless and allowed.

The TCP listener is the same loop without the file and is not modelled here.
`start()` and `stop()` are called from one control thread, as all callers do.

### Detection

One action per stretch of code between two calls that another thread could
observe: CPython (3.10 and later) switches threads at calls and loop heads, so
`self.alert_counter += 1` is a single step, but `sum(w) / len(w)` is two, and
`last_seen_per_id` is read and stored in different steps because `max()` is
called in between.  `active` is chosen initially, so one run covers deployments
with one client and with two.

* `Take`: `_dispatch_frame` hands over the next frame of the thread's client.
  Time stamps come from CLOCK_REALTIME in the tool, in the order it reads; steps
  of that clock are not modelled.
* `ParseFirst`, `ReadDelta`, `StoreSeen`: `parse_frame`.
* `DecodeSignals`/`DecodeRaises`: `decode_signals`; the exception is caught in
  `_dispatch_frame`.
* `Score`, `SumWindow`, `Count`: the rest of `process_frame`.  Features and the
  forest are an oracle: either verdict for any frame.
* `AlertBegin`, `AlertIssue`, `RecordRecent`, `WriteLog`/`WriteLogFails`:
  `evaluate_detection` and `_record_alert`.  `Classify` has the code's rule
  order; severity, evidence and mitigation follow from its result.

Left out: `message_counts`, `total_messages` and the global gap of the parser,
which no later stage reads; further callbacks behind the alert engine.

### Features, Evaluation and Dataset

`Features` has no state of its own: `Parse` and `Extract` return what
`parse_frame` and `extract_features` leave behind, `Parsed` and `Vector` what they
return.  A vector holds the payload bytes instead of their entropy, mean and
variance, which are functions of them, and the ratio as `freq` out of `span`.
`Layout` says how many bytes each branch of `decode_signals` cuts off and how
many its struct format takes; `Decodes` compares the two.  `Matrix` reads the rows
of a CSV with the same functions, from a new extractor.

`Evaluation` computes with integers for scores and hundredths for thresholds:
`Threshold` is `np.percentile` with its linear interpolation, `Ranked` the order
statistic it interpolates between.

`Dataset` sends one stream through two readers.  `Compose` builds it: a generator
appends the simulator's frames, in order, then an attack's, and sorts
(`Chronological`, stable as `list.sort`); the bus (`~generated`) delivers in any
order, clocks of several tools included.  `Accept` is `log_frame` and
`process_frame` of the same frame; parser and detector each own a
`CANTelemetryParser`, and as both see the same frames one variable is both.
`Refuse` is `struct.error`: the parser has counted the frame, the extractor has
not; a subscriber goes on (its caller catches), a generator dies with
its buffer.  `Row` is what `to_flat_dict` writes and `extract_features_from_csv`
reads: id, dlc, the payload and the time to the microsecond.  Time is in thirds of
a microsecond, so that rounding goes both ways and no time is halfway.  A frame's
`dlc` is at most 8, which every maker of frames sees to (`min(dlc, 8)` in
`src/sim/bus_emulator.py:25`); its data may be shorter or longer.  `Train`
lets the forest answer anything, equal vectors alike.

Left out: which attacks the suite composes at which times, the columns that
nothing reads again, and the forest and its scaler.

### ModelStore

`file` holds the model file and the metadata file; a model is the number of the
`save()` that wrote it.  `open(path, "w")` truncates (`DumpOpens`, `ExportOpens`): the
file is `Torn` until it is closed, and for good when the process dies or the write
fails.  `group` and `finished` say which saves have had a file open together, since
of several writers one may overwrite the rest or their bytes may be mixed
(`Closes`); that is the platform's and external.  `cache` is `_cached_model` of each
process.

* `Get`, `Load`, `LoadRaises`, `Retrain`: `get_or_train_model` with and without
  `force_retrain`, and the two programs that call `train_pipeline` directly
  (nothing is cached there).  `load` ignores the metadata.
* `Train`, `Evaluate`, `NoData`: `train_pipeline` before the save.  A missing or
  empty baseline raises; so does an empty evaluation CSV, after the training and
  before the save, which loses the model.
* `DumpOpens` to `ExportCloses`, `SaveRaises`, `Crash`: `save`.  The model is cached
  when all of it is done.
* `AuditReads`, `AuditPasses`, `AuditRaises`: `audit_model`.

`broken` and `mixed` are histories: whether the last `save()` was whole and alone,
and whether two have met that no lone one has followed.  `saved` is the set of
models written to the end.  Calls within one process are sequential, as all
callers make them.  Left out: paths other than the default ones, the creation of
the directories, what the audit prints.

### StressTest

The test of the repository with the longest chain of threads: the main thread
sends on the bus (`Send`), waits until the queue is empty (`WaitOver`) and joins
the consumer with a timeout (`Join`); the consumer tests, takes and processes
(`Test`, `Get`, `Process`).  The queue is longer than the test, so no send drops.
`TestFrames` are the frames the test generates, by position.

### VirtualBus

`SendCheck` and `SendRaises` are the test of `_is_open`, which `send()` makes
before it has `_bus_lock`; `SendLock`, one `Deliver` per subscriber and
`SendUnlock` are the block under the lock, `holder` is its owner.
`create_subscriber`, `remove_subscriber` and `close` are one step each: they do
nothing another thread could see except under the lock.  A frame is its sender
and a number.  `_subscribers` is a set and not a list, because `send()` walks it
under the lock and the order of the walk shows in no queue.  `Get` is a
consumer's `get()`.  `log`, `got` and `early` are histories: the order in which
senders got the lock, what each queue was ever given, and which queues are older
than the close.

`BroadcastLog` says what a listener may rely on, without lock and loop: a frame
enters the log and is owed to each member; each member is offered what it is
owed, oldest first, and takes it unless its queue is full.  A frame counts as
owed from the moment its sender has the lock until the loop comes to the queue.

Left out: `create_can_bus`, and that all subscribers share one frame object
(nothing in the repository writes to a received frame).

### EcuSimC

`physics` and `pc[e]` are the places of the six threads' loops, `mainPc` that of
`main`.  The physics thread assigns the fields one by one (`PhysicsLock`,
`PhysicsWrite`, `PhysicsUnlock`), so it is the one that is seen inside
`state_mutex`; a reader's critical section only copies, so it is one step, enabled
when the mutex is free.  The counter is read and stored in two steps with
`g_stats_mutex` held in between (`CountRead`, `CountStore`).  `g_bus_mutex` is
held for one `write` and nothing else, so it needs no variable.

The vehicle has three fields, those of which one reader copies two whose
combination means something: the transmission frame carries the gear and a torque
computed from the throttle, the status line speed and gear.  Speeds are the
thresholds of the gear box; within a phase any configured speed may come at any
turn, which allows more than the code's ramps do.  `written` is a history.  A
write may always fail (`TransmitFails`), and its callers do not look.
`MaxFrames` bounds the writes that succeed.

Left out: options and their errors, the layout of the frames, temperature, rpm,
brake and steering, and `-v` output apart from its effect on the status line.
`src/c/ecu_sim.c:221` and the usage text call 0x120 a 50 ms message; it is sent
on every second turn of 20 ms, that is every 40 ms.  No run is about periods.

### EcuSimPy

`mainPc` is the place of the control thread in `start()` or `stop()`;
`<<r, n>>` is the thread of loop `n` that the r-th `start()` has started, and
`pc`, `tick` and `todo` say where it stands, how far its counter is and which
frames of this turn it has still to broadcast.  `Send` and `Callback` are the two
halves of `_broadcast`; a frame stays at the head of `todo` until its callbacks
are done.  A callback that raises is as good as one that returns.  `SendRaises`:
nothing catches what `send()` raises on a closed bus, so the thread dies and
`running` stays as it is.

`slow` is chosen initially: whether the callbacks of one turn, of all its frames and
taken together, may outlast the second that `join` waits.  If so, `JoinTimeout` may
give up on an ECU thread, which then outlives `stop()` and, when `start()` is called
in time, finds `running` true again and goes on next to its successor.  Only
callbacks can do that: everything else a loop does is far shorter than a second.

`generate_batch` runs in programs that never start the threads (`mainPc` is then
`"batch"`); each `BatchStep` is one turn of its loop.

The vehicle, `_state_lock` and the values of the signals are left out: the
physics is that of `EcuSimC`, and the lock is held in the same places.

### CsvLogger

`buffer` is `_buffer`, `pending` what the text stream has taken and not yet passed
on, `file` what is on disk.  A session is the life of one logger object.
`OpenFile` and `HeaderFlushed` are the constructor, with a crash possible in
between; `LogEnters` and `CloseEnters` take the lock; `FlushBegins`, one `WriteRow`
per row, `RowsWritten`, `FlushDisk` and `Clear` are `flush()`, whoever calls it.
`writerows()` walks the list itself and therefore meets what is appended or
cleared meanwhile, which matters only to a direct `flush()`.  `FlushFails` is an
`OSError` anywhere in there: part of the rows may be in the file, part still in
the stream, part forgotten by it; `with` releases the lock, and `close()` leaves
the file open.  `Crash` is also the normal end of a program that does not close.

`failures` and `raced` are histories: a direct `flush()` is unprotected in spite of
"Thread-safe" in the class's first line, and once it has met another call
(`raced`) rows can be lost or written twice.  What is said of rows is said of
sessions without that; the header and the lock are safe all the same.

Left out: columns and formatting, a row cut in two by a crash, and `log_frame` of
a frame that the parser refuses, which does not reach the buffer.

## 3. What is checked

| Run | Question | Result |
|-----|----------|--------|
| `link` | sniffer or bridge, Unix or TCP: framing, order, effect of stop, signals and SIGPIPE, completeness, end of the handler, refinement of `FrameChannel` | holds |
| `sniffer_ctrl_c` | "Press Ctrl+C to stop" | violated |
| `detection` | what survives unlocked handler threads, and what one client guarantees | holds |
| `stress_test` | the stress test waits for the consumer and ends | violated |
| `server` | the service is reachable, an orderly stop cleans up, start serves, connections are accepted | holds |
| `server_stop` | `stop()` cleans up the socket files | violated |
| `virtual_bus` | same order for all subscribers, silence after `close()`, refinement of `BroadcastLog` | holds |
| `ecu_sim_c` | readings are never torn, the total is exact, every thread ends after SIGINT or the duration | holds |
| `ecu_sim_py` | who runs when over restarts, what is sent after `stop()`, that it returns, what a closed bus does, the rates of the batch | holds |
| `csv_logger` | one header, no row forgotten, order, what a crash can lose, completeness after `close()`, the lock is released | holds |
| `model_store` | only saved models are served, the metadata is never ahead of the model, an audit reads one model, a torn file is survived | holds |
| `dataset` | training sees the vectors that detection scores, parser and extractor agree, a vector says what its definition says, the threshold flags few | holds |

**Bounds.**  `IpcLink`: structs of 3 bytes, chunks of up to 4, a stream of 7, so
that chunk and frame boundaries drift apart as 24 and 4096 do and a third frame
must wait; a receive queue of 2 against 4 frames on the bus, so that the kernel
drops; `-c 3`, so that the limit ends some behaviours.  `Detection`: window 2 and
history 1 against 3 frames, so that both overflow; gaps below and at the flood
threshold; three ids that take different branches (0x000, the undecodable 0x180,
and 0x0A0); two threads, exchanged by symmetry (the model treats them alike and
no liveness is checked there).  `IpcServer`: three runs, because a thread left
from the first can then meet the second stop and the third start.  With two
clients and three starts the same properties hold (375 000 states).
`VirtualBus`: two senders with two frames each and two queues of one place, so
that two senders compete, a queue is full while the other is not, and a close
falls between any two steps; its types are proved and not in the run.
`EcuSimC`: the transmission thread, whose frame can be torn, and the body thread,
which sends two or three frames a turn, so that both meet at the counter; the
profiles with and without the cycle; one speed of the last gear and one at which
braking leaves the gear alone; two successful writes, since two are enough to
lose an increment; one second of duration.  Other threads, speeds and the idle
profile differ in data only and are covered by the proofs.  `EcuSimPy`: the body
loop, whose turns have two frames or three, next to the physics; two runs, so
that a leftover of the first can meet the second; a batch of one second, in which
every id comes five times or more.  With the transmission loop as well the safety
properties hold on 5.8 million states.  `CsvLogger`: a buffer of two rows, three
rows in the first session so that one is left over, and one row in the second,
which shows what it finds; one failing write a session; two threads, one of which
also flushes directly.  `ModelStore`: two programs, so that two saves meet; three
saves, so that a lone one can follow two that met; one crash or error, anywhere
inside a save.  `Dataset`: three frames against a training window of two and
detectors with one, two and three, so that either window slides before the other;
a buffer of two rows, so that a generator that dies leaves some rows in the file
and loses others; of four frames one is refused, one has the refused id
and is too short to be decoded, one has a dlc that cuts its data;
three times, of which one rounds up and one down; three scores and a contamination
of 40 %, so that scores repeat at the threshold and the percentile falls on a
score as well as between two.  `StressTest`: four frames, a flood frame and three
others; a fifth of the real ones is 0x180, here any or none.

**Fairness.**  Weak fairness of the tool's step and of the handler's step in
`IpcLink`, and of each server thread, of `stop()` once called, and of the
handlers' loop test in `IpcServer`: these are threads the scheduler keeps
running.  `LoopCheck`, `Recv` and the rest are enabled until taken, so weak
fairness is enough.  In `VirtualBus` weak fairness of each sender's `Deliver`:
a thread in its loop goes on.  In `EcuSimC` weak fairness of each thread and
strong fairness of `main`, which may find `state_mutex` taken each time it looks:
whoever holds a mutex there sleeps 10 ms or more before it comes back for it, so
a waiter gets its turn.  In `EcuSimPy` weak fairness of each thread, callbacks
included, and of a `start()` or `stop()` that has begun: `join` gives up on what
does not come back.  In `CsvLogger` weak fairness of a thread past its lock, not of
getting it.  In `ModelStore` weak fairness of a call that has begun: it is one
thread that waits for nobody.  In `StressTest` weak fairness of both threads, which
sleep or wait 50 ms at most.  `Dataset` has no liveness.  The bus, the user, the interface, the callers of `start()`
and `stop()`, and the tools' wish to connect or send owe nothing.

**Deadlock** is not checked: the bus is bounded, tools end, and a stopped server
is a legitimate final state.

**What would break the properties.**  Each property is known to fail for a
plausible bug in the modelled code (operators marked "Mutant"):

| Property | Refuted by |
|----------|------------|
| `DeliveredIntact` | a resumed write starts over; the inner loop cuts one byte too few |
| `DeliveredInBusOrder` | a dispatched frame stays in the buffer |
| `ImplementsChannel` | the handler's loop does not look at `running` |
| `OnlyStopBreaksWriter` | a moment of silence is taken for the end of the stream |
| `WrittenIsDispatched` | `>` for `>=` in the inner loop |
| `HandlerEnds` | `b""` does not end the loop |
| `DensityIsPercentage` | a running sum that evicted verdicts never leave |
| `NothingLost` | alerts only while the density is high |
| `LogNumbersIncrease` | alerts numbered by the length of the bounded history |
| `FloodIffFastOrFirst` | only the first frame of an id is remembered |
| `ServiceReachable` | the accept loop removes the socket file on its way out |
| `OrderlyStopCleansUp` | `stop()` leaves the file to the accept loop |
| `StartServes` | a stale file is not removed |
| `ConnectedIsAccepted` | a timeout breaks the accept loop |
| `SameOrder` | `send()` walks the list without the lock |
| `QuietAfterClose` | `close()` keeps the subscribers |
| `ImplementsBroadcast` | one full queue ends the loop over the subscribers |
| `ReadingsPlausible` | an ECU reads the vehicle without the mutex |
| `FinalTotal` | the counter is incremented without the mutex |
| `AllThreadsEnd` | an ECU's loop does not reload the flag |
| `RunningIsServed` | nothing catches what a callback raises |
| `OneOfEach` | `stop()` does not wait for a thread |
| `EcuSimPy!LateIsBounded` | a loop broadcasts over and over before it looks at `running` |
| `StopEnds` | `stop()` waits for threads to report their end, which dead ones never do |
| `ClosedBusEndsSenders` | the handler around the callbacks also covers `send()`, which is retried |
| `BatchHasRates` | the speed is sent at the rate of the live loop |
| `OneHeader` | a file that exists is taken to have its header |
| `NoRowForgotten` | the buffer is cleared also when a write has failed |
| `InOrderOnce` | the buffer is not cleared after it has been written |
| `CrashLosesLess` | the test for a full buffer is off by one |
| `ClosedIsComplete` | `close()` does not flush |
| `LockReleased` | `flush()` takes the lock that its callers hold |
| `ServedIsSaved` | the model is cached as soon as it is fitted |
| `MetaNeverAhead` | the metadata is exported before the model is dumped |
| `AuditedPair` | metadata that is already there is kept |
| `AnswersDespiteTorn` | the exception of `load()` reaches the caller |
| `OfflineIsLive` | times are written with four decimals, as the entropy is |
| `ScoredAsParsed` | a refused frame leaves no trace in the parser |
| `VectorsMatchHistory` | the window is counted before the frame is in it |
| `TrainingFlagsFew` | `>` for `>=` at the threshold |

### Disagreements found while modelling

* **Ctrl+C on a quiet bus** (`src/c/sniffer.c:194`).  The signal handler only
  clears a flag and the interrupted `read()` is restarted; the `EINTR` branch is
  never taken.  The sniffer ends with the next frame on the bus, if any.
* **The stress test never ends** (`src/parser/telemetry_parser.py:146`).  `">BHBB"`
  needs five bytes and is given four, so every 0x180 frame of four bytes or more
  raises `struct.error`.  A fifth of the stress test's other frames have that id;
  the consumer dies of the first, and the main thread waits for a queue nobody
  empties (`tests/stress_test.py:97`).
* **`stop()` overtakes `start()`** (`src/ipc/ipc_server.py:162`).  The thread binds
  after `stop()` has looked for the file.

Noted without a run:

* for the same reason transmission frames are never scored on the live path, and
  `generate_baseline_dataset` and `generate_labeled_attack_dataset` die at their
  first one with fewer rows than a buffer holds: the CSV has its header only, where
  `tests/test_logger.py:50` expects more than 100 rows, and `fit()` then raises
  (`Refuse`, `FitRaises`);
* a single frame is a flood: the first frame of an id has gap 0, which is below
  0.8 ms (`src/detection/alert_engine.py:108`), and
  `UNAUTHORIZED_ARBITRATION_ID` cannot be reported for it; `FloodIffFastOrFirst`
  states what the code does;
* training counts over 50 frames whatever the detector's `sliding_window_size`;
  `OfflineIsLive` says where the two part;
* the audit reports `PASSED` for a model and metadata of different trainings, since
  it never compares them; `AuditedPair` says when it cannot happen;
* the attack suite's comments announce 2500, 200 and 800 frames a second and the
  code generates about 166, 50 and 77; its attacks keep their times whatever
  `total_duration_sec` is; a generator that is run again appends to its CSV;
* the stress test's verdict counts sends that raised, not frames processed;
* 0x120 is documented as a 50 ms message, which `generate_batch` follows and both
  live simulators do not (40 ms).

With two clients three things are not guaranteed and stated for one client only:
distinct alert numbers, the order of the log, and gaps that are those of one
sender.

## 4. What is proved

TLAPS checks the following for every value of the constants that satisfies
`LinkAssumption`, `DetectionAssumption`, `ServerAssumption`, `BusAssumption`,
`SimAssumption`, `SimulatorAssumption`, `LoggerAssumption`, `StoreAssumption`, or
`DatasetAssumption` and `EvaluationAssumption`:
sizes at least one, a stream that can hold one struct, a finite set of handler
threads, a flood threshold above zero (0.8 ms in the code: with zero the first frame
of an id would not be a flood); senders and queues of the bus, threads of the logger and programs of the model
store may be any sets; the
simulators may have any of their threads, profiles and speeds; the dataset may have
any frames of bytes with a dlc up to 8, any times, labels, scores and windows, and
any contamination from 0 to 100 %.

| Theorem | States |
|---------|--------|
| `IpcProofs!TypeCorrect` | types of `IpcLink` |
| `IpcProofs!WriterSafeInService` | `OnlyStopBreaksWriter` |
| `IpcProofs!LateDispatchBounded` | `LateIsBounded` |
| `IpcProofs!FramingCorrect` | `DeliveredIntact` |
| `IpcProofs!BusOrderCorrect` | `DeliveredInBusOrder` |
| `IpcProofs!LinkImplementsChannel` | the safety part of `ImplementsChannel` |
| `DetectionProofs!DetectionTypeCorrect` | types of `Detection` |
| `DetectionProofs!DensityCorrect` | `DensityIsPercentage` |
| `DetectionProofs!NothingLostCorrect` | `NothingLost` |
| `DetectionProofs!LogInOrder` | `LogNumbersIncrease` |
| `DetectionProofs!FloodsAreFastOrFirst` | `FloodIffFastOrFirst` |
| `IpcProofs!ServerTypeCorrect` | types of `IpcServer` |
| `IpcProofs!ServiceReachableCorrect` | `ServiceReachable` |
| `IpcProofs!OrderlyStopCorrect` | `OrderlyStopCleansUp` |
| `VirtualBusProofs!BusTypeCorrect` | types of `VirtualBus` |
| `VirtualBusProofs!SameOrderCorrect` | `SameOrder` |
| `VirtualBusProofs!QuietAfterCloseCorrect` | `QuietAfterClose` |
| `VirtualBusProofs!BusImplementsBroadcast` | the safety part of `ImplementsBroadcast` |
| `EcuSimCProofs!TypeCorrect` | types of `EcuSimC` |
| `EcuSimCProofs!NoTornReading` | `ReadingsPlausible` |
| `EcuSimCProofs!TotalIsExact` | `FinalTotal` |
| `EcuSimPyProofs!TypeCorrect` | types of `EcuSimPy` |
| `EcuSimPyProofs!AlwaysServed` | `RunningIsServed` |
| `EcuSimPyProofs!NeverTwice` | `OneOfEach` |
| `EcuSimPyProofs!LateNeverMoreThanATurn` | `LateIsBounded` |
| `EcuSimPyProofs!BatchRates` | `BatchHasRates` |
| `CsvLoggerProofs!TypeCorrect` | types of `CsvLogger` |
| `CsvLoggerProofs!HeaderCorrect` | `OneHeader` |
| `CsvLoggerProofs!NoRowForgottenCorrect` | `NoRowForgotten` |
| `CsvLoggerProofs!ClosedIsCompleteCorrect` | `ClosedIsComplete` |
| `CsvLoggerProofs!CrashLosesLessCorrect` | `CrashLosesLess` |
| `CsvLoggerProofs!InOrderOnceCorrect` | `InOrderOnce` |
| `ModelStoreProofs!TypeCorrect` | types of `ModelStore` |
| `ModelStoreProofs!OnlySavedModels` | `ServedIsSaved` |
| `ModelStoreProofs!MetadataBehind` | `MetaNeverAhead` |
| `ModelStoreProofs!AuditsOneModel` | `AuditedPair` |
| `DatasetProofs!DatasetHolds` | the inductive invariant of `Dataset` |
| `DatasetProofs!VectorsMatchHistoryHolds` | `VectorsMatchHistory` |
| `DatasetProofs!ScoredAsParsedHolds` | `ScoredAsParsed` |
| `DatasetProofs!OfflineIsLiveHolds` | `OfflineIsLive` |
| `DatasetProofs!TrainingFlagsFewHolds` | `TrainingFlagsFew` |

*Framing.*  `DeliveredIntact` says nothing about bytes still on their way, so it
is not inductive.  `StreamInv` looks at buffer and pipe as one sequence, `Stream`,
and says what each position holds: the structs of the frames written and not yet
dispatched, one after the other, then the first `woff` bytes of the frame being
written.  `recv` moves a prefix from one part to the other and leaves `Stream` as
it was (`ConcatCut`); a write extends it at the end; a dispatch cuts one struct
off its front, which shifts every index by `FrameSize`.  Positions are written
`q * FrameSize + r`, and `Multiples` gives the arithmetic without division.
`WriterInv` ties the offset of the write to the histories.

*Bus order.*  `OrderInv` orders the whole path: sent frames below the frame in
hand, that below the receive queue, that below the bus counter.

*After stop.*  `LateInv` bounds what the handler has in hand when the flag is
cleared: at most `FrameSize - 1` bytes kept and one chunk.

*Density.*  The sum and the length are read at different times.  `DensityInv`
records that the window never shrinks and that a thread that has scored a frame
finds at least one verdict in it, so the later length is at least the sum.

*Nothing lost.*  Each conjunct of `NothingLost` balances a counter against the
number of threads at certain places; `CountAt` and `Moves` say how a step of one
thread changes such a number, `Balance` closes the books.

*One client.*  `AloneInv`: only its thread leaves the idle place, so the layers run
one after the other.  `NumbersInv` then keeps every logged number below the counter
while an alert is on its way.  `NamesInv` compares the parser's `last_seen_per_id`
with the true arrivals: they differ for the frame in the parser only, times never go
back, and so the gap the classifier reads is the true one.

*Server.*  `ServerInv`: a thread of an earlier run is never left outside its
accept loop (`RunsInv`, because join gives up only there), so that only the
newest thread creates sockets or touches the file (`ServingInv`), and an orderly
stop keeps what it has cleaned (`OrderlyInv`).

*Frame channel.*  Input is `sent` up to `bridged`, output the frame numbers of
what was dispatched.  `OutputIsInput` turns `StreamInv` into a statement about
these two sequences; then the write that completes a struct is a `Put`
(`HandInv` names its frame), a dispatch takes the oldest frame out, `LateInv`
bounds the late ones, and every other step stutters.

*Virtual bus.*  `LockInv`: at most one sender is in its loop, and only it has
subscribers left to serve.  `LogInv`: while it delivers, its frame is the last of
the log.  `OrderInv`: what each queue was given stands in log order, frame
numbers of one sender never repeat.  From these, one lock holder owes each of
its subscribers exactly the last frame of the log, which is what the refinement
of `BroadcastLog` needs.

*C simulator.*  `ReadingsPlausible` is about copies, so `VehicleInv` says of the
vehicle what the copies inherit: it is sound (moving or pulling implies a gear)
whenever the mutex is free, and agrees with its target in the fields already
assigned while it is not.  Because braking may assign no gear, the invariant also
carries that cruising and braking start in gear.  `BooksInv`: counter plus the
threads still at it is the number of frames written, and what the holder of
`g_stats_mutex` has read is what the counter still is.

*Python simulator.*  `Served` extends `RunningIsServed` into `start()`: of this run's
threads those already started are alive.  `OneInv` follows a join: while `stop()`
waits, only threads it has still to join are alive, so none is when it returns.
`LateInv` is the account of one turn: frames sent late plus frames still in `todo`
are at most those of a full turn, the one in the callbacks counted once.
`BatchInv`: the batch lists the frames due in the steps made so far; each id adds its
own to the list in turn (`ListingGrows`), and its modulus, times 5 ms, is its period
(`EveryIsPeriod`).

*Logger.*  `HeaderInv`: the header is first in the file or alone on its way to an
empty one, and whatever else is on its way is a row.  `LockInv` says who may be
where, so that a thread in `flush()` that has met nobody is alone with the buffer
(`Alone`); `BooksInv` follows its rows: those taken by `writerows()` are in the
stream or the file, after the stream's flush in the file, and only then is the
buffer cleared.  `BufferInv`: while no write has failed, the buffer holds the latest
rows, in order, and it is full only while the lock's holder is emptying it.  Any
other row has left it and, by `BooksInv`, is in the file.  `OrderInv` looks at file and
stream as one sequence: of the session it has the rows 1 to some n in order, each
once, where n is the last row before those of the buffer, or, while the lock's holder
is in `writerows()`, before those it has still to take.  A crash keeps a beginning of
this sequence, and a beginning of such a sequence is one too (`BeginningInOrder`).

*Model store.*  `NumberInv` bounds every number in use by the saves begun, so that a
new save has the highest.  `SavedInv` says that what loads, what is finished and
what is cached has been written to the end.  `LoneInv` follows a save that has met
no other: it is the latest, the only one, and what it has written of the model
stays while it writes the metadata.  `AuditInv` says that between whole saves the
two files agree, and that an audit which began then and is still calm finds the
model of the metadata it has read, because any save that opens ends its calm.

*Dataset.*  Both readers are incremental, the properties speak of the whole stream.
`Keeps` links the two for a dictionary: after n elements it has exactly the ids seen,
each with the value of its last element; `Knows` adds the window, which is the last
`Span` elements, and the time of the last frame.  `ParserInv` says this of the parser
and all frames (`Heard`), `VectorInv` of the extractor and those that can be decoded
(`Accepted`); `LiveInv` says that these are the frames that were taken, in order.
From there `ScoredAsParsed` is a comparison of two last elements, and
`VectorsMatchHistory` counts two sets: the window's (`WindowCounts`) and the changed
bytes (`ChangedPlaces`).  `CsvInv`: file and buffer hold the rows of the frames taken,
in order.  `Matrix` makes of them what `IsVector` says of a list of rows
(`MatrixVectors`), so that `OfflineIsLive` compares one definition on two lists whose
times differ by the rounding: a gap between two rounded times is off by less than a
microsecond, and so is one that was clamped to 0 (`GapsRound`).  `Wider` compares
windows.  The attempt to prove an earlier form of the property failed for a good
reason: it took a detector with a window larger than training's to agree with training
as long as its own window had not slid, and to count no more than training did.
Neither is true; the property now asks that neither window has slid and says which way
they differ.

*Threshold.*  `RankedScore`: the order statistic exists, by the least score that
enough others do not exceed.  Fewer scores than the upper rank lie below it, and the
interpolated threshold is no higher (`Between`).  So the position of the percentile,
contamination times `n - 1`, rounded up, bounds the rows that are flagged.  The classes of the report add up because the pairs of a class and a number
are as many as the rows they number (`ClassesAddUp`, by a bijection of each class).

Induction over data, which the library states with an operator as a parameter, is done
here over sets: `LeastElement` follows from the well-foundedness of strict subset, and
`Induction` from it.

Only model-checked: all liveness, also that of the two abstract specifications, which
is outside what TLAPS can show under fairness.

## 5. Not modelled

* `src/c/can_broadcaster.c` and `src/c/attack_injector.c`, and the `inject_*` loops
  of the attack suite: sequential loops that craft a frame, send it and sleep.  No
  state outlives a turn and nothing is shared; as senders they are in `VirtualBus`
  and `IpcLink`.
* The TCP listener of the server's life cycle: the accept loop of `IpcServer` without
  the file, hence without the steps that can go wrong there.  TCP streams are in
  `IpcLink`.
* The Isolation Forest and the scaler: floating-point numerics of scikit-learn.  In
  `Detection` and `Dataset` they may answer anything.
* Wording, layout and console output of all programs; shell scripts; the `defense`
  and `ui` packages, which contain no code.

------------------------------- MODULE Server -------------------------------
(***************************************************************************)
(* One call of Server.serve (src/server.zig) and the worker threads it     *)
(* runs (workerMain in src/server/worker.zig): starting and finishing the  *)
(* senders and the executor, spawning and joining threads, the ready       *)
(* barrier, the shared abort flag, the descriptor all workers log to with  *)
(* its atomic owner, the VictoriaLogs sender behind it                     *)
(* (src/Logger/VictoriaLogs.zig), and the page worker zero asks of         *)
(* another worker for the admin route /debug/connections.                  *)
(*                                                                         *)
(* What a connection does inside the loop is in Connections, Slots and     *)
(* Pipeline; here a completion is one of the loop's own: the tick, the log *)
(* write, or some connection's, which may emit a record.  A log record is  *)
(* Unit units long, so that a write may stop inside one; a record is named *)
(* by its worker and its number.                                           *)
(***************************************************************************)
EXTENDS Integers, Sequences, FiniteSets

CONSTANTS Configurations, \* what Init chooses the server from
          Records,        \* bound: Records[w], the records worker w emits
          LogSlots,       \* config.log_slots
          FileBatch,      \* log_iovecs.len
          PipeBatch,      \* the records that fit PIPE_BUF
          PipeRoom,       \* records the pipe holds
          Slots,          \* worker zero's admin connections
          MaxGeneration   \* bound: accepts of one slot

Unit == 2
NoOwner == -1
Fault == {"start", "spawn", "pin", "loop", "restore", "write", "sender"}

ConfigurationSet ==
    [workers : Nat \ {0}, log : {"none", "file", "pipe"}, inspect : BOOLEAN,
     run : BOOLEAN, faults : SUBSET Fault]

ASSUME ServerAssumption ==
    /\ Configurations \subseteq ConfigurationSet
    /\ {LogSlots, FileBatch, PipeBatch, PipeRoom, MaxGeneration} \subseteq Nat \ {0}
    /\ \A w \in DOMAIN Records : Records[w] \in Nat
    /\ \A c \in Configurations : 0 .. c.workers - 1 \subseteq DOMAIN Records
    /\ PipeBatch <= PipeRoom

VARIABLES config,      \* the resolved configuration, never changed
          serve,       \* serve's own control: [step, started, result]
          running,     \* the senders and executors serve has started
          thread,      \* thread[w]: where workerMain of w is
          failure,     \* failure[w]
          flags,       \* [abort, stop]: shared.abort and the caller's flag
          ready,       \* shared.ready
          mask,        \* the calling thread's affinity
          ending,      \* ending[w]: how far w's shutdown is
          logOwner,    \* shared.log_owner
          logger,      \* logger[w]: queue, selected batch and write in flight
          sink,        \* the units written to the descriptor and not yet read
          sender,      \* the VictoriaLogs sender
          posted,      \* posted[r]: times r was acknowledged by VictoriaLogs
          lost,        \* lost[r]: times r was counted in log_dropped_total
          slot,        \* slot[s]: worker zero's admin connections
          inspection   \* inspection[w]: the page shared with worker zero

lifecycle == <<serve, running, thread, failure, flags, ready, mask>>
delivery == <<sink, sender, posted, lost>>
logging == <<logOwner, logger, delivery>>
admin == <<slot, inspection>>
vars == <<config, lifecycle, ending, logging, admin>>

Workers == 0 .. config.workers - 1
Inspected == 1 .. config.workers - 1
RecordIds == UNION {{w} \X (0 .. Records[w] - 1) : w \in Workers}

\* No write is in flight, one is, or it completed with this result: the units
\* written, 0 for an error, -1 for ECANCELED.
Idle == -3
Pending == -2
Canceled == -1

NewLogger == [at |-> 0, tail |-> 0, batch |-> 0, op |-> Idle, cancel |-> FALSE,
              disabled |-> FALSE]
Free == [open |-> FALSE, generation |-> 0, inspecting |-> FALSE, want |-> 0, answer |-> 0]
NoInspection == [phase |-> "idle", requester |-> <<>>, page |-> 0]

Init ==
    /\ config \in Configurations
    /\ serve = [step |-> "metrics", started |-> 0, result |-> "none"]
    /\ running = {}
    /\ thread = [w \in Workers |-> "none"]
    /\ failure = [w \in Workers |-> FALSE]
    /\ flags = [abort |-> FALSE, stop |-> FALSE]
    /\ ready = 0
    /\ mask = "original"
    /\ ending = [w \in Workers |-> "none"]
    /\ logOwner = NoOwner
    /\ logger = [w \in Workers |-> NewLogger]
    /\ sink = <<>>
    /\ sender = [step |-> "off", batch |-> <<>>, finishing |-> FALSE]
    /\ posted = [r \in RecordIds |-> 0]
    /\ lost = [r \in RecordIds |-> 0]
    /\ slot = [s \in Slots |-> Free]
    /\ inspection = [w \in Inspected |-> NoInspection]

Fails(f) == f \in config.faults
Aborted == [flags EXCEPT !.abort = TRUE]
shouldStop == flags.stop \/ flags.abort

(***************************************************************************)
(* serve.  Its defers run in reverse order of what was started, so an      *)
(* error returns through the same steps as success.                        *)
(***************************************************************************)
\* The defers below the step that failed.
Unwind(step, result) == serve' = [serve EXCEPT !.step = step, !.result = result]

Start(part, next, undo) ==
    \/ /\ running' = running \cup {part}
       /\ serve' = [serve EXCEPT !.step = next]
    \/ /\ Fails("start")
       /\ Unwind(undo, "error")
       /\ UNCHANGED running

StartMetrics ==
    /\ serve.step = "metrics"
    /\ Start("metrics", "logs", "finished")
    /\ UNCHANGED <<config, thread, failure, flags, ready, mask, ending, logging, admin>>

\* VictoriaLogs.start, where it is configured.
StartLogs ==
    /\ serve.step = "logs"
    /\ IF config.log = "pipe"
       THEN /\ Start("logs", "applications", "finishMetrics")
            /\ sender' = IF "logs" \in running' THEN [sender EXCEPT !.step = "read"] ELSE sender
       ELSE /\ serve' = [serve EXCEPT !.step = "applications"]
            /\ UNCHANGED <<running, sender>>
    /\ UNCHANGED <<config, thread, failure, flags, ready, mask, ending, logOwner, logger,
                   sink, posted, lost, admin>>

\* What follows the executor among the defers.
AfterExecutor == IF "logs" \in running THEN "finishLogs" ELSE "finishMetrics"

StartApplications ==
    /\ serve.step = "applications"
    /\ Start("executor", "spawn", AfterExecutor)
    /\ UNCHANGED <<config, thread, failure, flags, ready, mask, ending, logging, admin>>

\* One std.Thread.spawn, or the call of workers[0].workerMain after the last.
SpawnOrRun ==
    /\ serve.step = "spawn"
    /\ IF serve.started = config.workers - 1
       THEN /\ thread' = [thread EXCEPT ![0] = "pin"]
            /\ serve' = [serve EXCEPT !.step = "main"]
       ELSE \/ /\ thread' = [thread EXCEPT ![serve.started + 1] = "pin"]
               /\ serve' = [serve EXCEPT !.started = @ + 1]
            \/ /\ Fails("spawn")
               /\ Unwind("abort", "error")
               /\ UNCHANGED thread
    /\ UNCHANGED <<config, running, failure, flags, ready, mask, ending, logging, admin>>

Joinable(started) == \A w \in 1 .. started : thread[w] = "returned"

\* workerMain returned on the calling thread; join the others, then look for a
\* worker's failure.
Join ==
    /\ serve.step = "main"
    /\ thread[0] = "returned"
    /\ Joinable(serve.started)
    /\ serve' = [step |-> "abort", started |-> 0,
                 result |-> IF \E w \in Workers : failure[w] THEN "error" ELSE "ok"]
    /\ UNCHANGED <<config, running, thread, failure, flags, ready, mask, ending, logging, admin>>

\* The defer around the threads: abort, then join those still counted in
\* started (none after Join).
AbortAndJoinForgets ==
    /\ serve.step \in {"abort", "joinStarted"}
    /\ flags' = Aborted
    /\ serve' = [serve EXCEPT !.step = "stopApplications"]
    /\ UNCHANGED <<config, running, thread, failure, ready, mask, ending, logging, admin>>

AbortAndJoin ==
    /\ \/ /\ serve.step = "abort"
          /\ flags' = Aborted
          /\ serve' = [serve EXCEPT !.step = "joinStarted"]
       \/ /\ serve.step = "joinStarted"
          /\ Joinable(serve.started)
          /\ serve' = [serve EXCEPT !.step = "stopApplications"]
          /\ UNCHANGED flags
    /\ UNCHANGED <<config, running, thread, failure, ready, mask, ending, logging, admin>>

\* executor.stop, which joins its threads (see Executor).
StopApplications ==
    /\ serve.step = "stopApplications"
    /\ running' = running \ {"executor"}
    /\ serve' = [serve EXCEPT !.step = AfterExecutor]
    /\ UNCHANGED <<config, thread, failure, flags, ready, mask, ending, logging, admin>>

FinishMetrics ==
    /\ serve.step = "finishMetrics"
    /\ running' = running \ {"metrics"}
    /\ serve' = [serve EXCEPT !.step = "finished"]
    /\ UNCHANGED <<config, thread, failure, flags, ready, mask, ending, logging, admin>>

\* requestStop from another thread, or run's caller setting its stop flag.
RequestStop ==
    /\ ~shouldStop
    /\ serve.step # "finished"
    /\ flags' = IF config.run THEN [flags EXCEPT !.stop = TRUE] ELSE Aborted
    /\ UNCHANGED <<config, serve, running, thread, failure, ready, mask, ending, logging, admin>>

(***************************************************************************)
(* The logger's queue (src/Logger.zig) and the write of its prefix.        *)
(***************************************************************************)
Count(l) == l.tail - l.at \div Unit

\* Logger.emit: a full queue drops the event.  The bound on records is the
\* model's.
emit(w, l) ==
    IF config.log = "none" \/ Count(l) = LogSlots \/ l.tail = Records[w]
    THEN l
    ELSE [l EXCEPT !.tail = @ + 1]

\* queueLog's conditions: the load of log_owner and the exchange that follows
\* it can only find the worker itself, nobody, or another worker.
QueuesLog(w, l) ==
    /\ config.log # "none"
    /\ l.op = Idle
    /\ ~l.disabled
    /\ Count(l) > 0
    /\ logOwner \in {NoOwner, w}

BatchLimit == IF config.log = "pipe" THEN PipeBatch ELSE FileBatch
Least(a, b) == IF a < b THEN a ELSE b

\* The write is prepared; a batch selected earlier and partly written is kept.
queueLog(l) ==
    [l EXCEPT !.op = Pending,
              !.batch = IF @ = 0 THEN Least(Count(l), BatchLimit) ELSE @]

\* Logger.consumeBytes and what remains of the batch.
consumeBytes(l, units) ==
    LET at == l.at + units
    IN  [l EXCEPT !.at = at, !.batch = @ - (at \div Unit - l.at \div Unit)]

consume(l) == [l EXCEPT !.at = (@ \div Unit + 1) * Unit]
consumeAll(l) == [l EXCEPT !.at = l.tail * Unit]

releaseLog(w) == logOwner' = IF logOwner = w THEN NoOwner ELSE logOwner

\* The log_write completion.
LogWrittenReleases(w) ==
    LET done == [logger[w] EXCEPT !.op = Idle, !.cancel = FALSE]
        res == logger[w].op
    IN  /\ releaseLog(w)
        /\ logger' = [logger EXCEPT ![w] = IF res > 0 THEN consumeBytes(done, res) ELSE done]

LogWrittenConsumes(w) ==
    LET done == [logger[w] EXCEPT !.op = Idle, !.cancel = FALSE]
        res == logger[w].op
        next == IF res > 0 THEN consumeBytes(done, res) ELSE consumeAll([done EXCEPT !.disabled = TRUE])
    IN  /\ logger' = [logger EXCEPT ![w] = next]
        /\ IF res <= 0 \/ next.batch = 0 THEN releaseLog(w) ELSE UNCHANGED logOwner

LogWritten(w) ==
    LET done == [logger[w] EXCEPT !.op = Idle, !.cancel = FALSE]
        res == logger[w].op
    IN  \/ /\ config.log = "pipe" /\ res = Canceled
           /\ logger' = [logger EXCEPT ![w] = done]
           /\ releaseLog(w)
        \/ /\ res <= 0 /\ ~(config.log = "pipe" /\ res = Canceled)
           /\ logger' = [logger EXCEPT ![w] = consumeAll([done EXCEPT !.disabled = TRUE])]
           /\ releaseLog(w)
        \/ /\ res > 0
           /\ logger' = [logger EXCEPT ![w] = consumeBytes(done, res)]
           /\ IF logger'[w].batch = 0 THEN releaseLog(w) ELSE UNCHANGED logOwner

\* The kernel carries out the write in flight.  A pipe takes the whole batch,
\* which fits PIPE_BUF, once it has room; another descriptor may take less or
\* fail.  A cancellation finds the write done or undone.
Units(w, n) == [k \in 1 .. n |-> <<w, logger[w].at + k - 1>>]
BatchUnits(l) == l.batch * Unit - (l.at % Unit)

KernelWrite(w) ==
    /\ logger[w].op = Pending
    /\ \E n \in Canceled .. BatchUnits(logger[w]) :
          /\ n = Canceled => logger[w].cancel
          /\ n = 0 => Fails("write") /\ config.log = "file"
          /\ n > 0 /\ config.log = "pipe" =>
                /\ n = BatchUnits(logger[w])
                /\ Len(sink) + n <= PipeRoom * Unit
          /\ sink' = IF n > 0 THEN sink \o Units(w, n) ELSE sink
          /\ logger' = [logger EXCEPT ![w].op = n]
    /\ UNCHANGED <<config, lifecycle, ending, logOwner, sender, posted, lost, admin>>

(***************************************************************************)
(* workerMain, up to its loop.                                             *)
(***************************************************************************)
Fail(w) == failure' = [failure EXCEPT ![w] = TRUE] /\ flags' = Aborted
Go(w, where) == thread' = [thread EXCEPT ![w] = where]

Pin(w) ==
    /\ thread[w] = "pin"
    /\ \/ /\ Go(w, "ready")
          /\ mask' = IF w = 0 THEN "pinned" ELSE mask
          /\ UNCHANGED <<failure, flags>>
       \/ /\ Fails("pin")
          /\ Fail(w)
          /\ Go(w, "returned")
          /\ UNCHANGED mask
    /\ UNCHANGED <<config, serve, running, ready, ending, logging, admin>>

Ready(w) ==
    /\ thread[w] = "ready"
    /\ ready' = ready + 1
    /\ Go(w, "barrier")
    /\ UNCHANGED <<config, serve, running, failure, flags, mask, ending, logging, admin>>

\* One turn of the spin that decides: everyone is ready, or somebody aborted.
Barrier(w) ==
    /\ thread[w] = "barrier"
    /\ \/ ready = config.workers /\ Go(w, "check")
       \/ ready # config.workers /\ flags.abort /\ Go(w, "restore")
    /\ UNCHANGED <<config, serve, running, failure, flags, ready, mask, ending, logging, admin>>

\* The abort flag once more, then the startup records.
Check(w) ==
    /\ thread[w] = "check"
    /\ IF flags.abort
       THEN Go(w, "restore") /\ UNCHANGED logger
       ELSE Go(w, "loop") /\ logger' = [logger EXCEPT ![w] = emit(w, @)]
    /\ UNCHANGED <<config, serve, running, failure, flags, ready, mask, ending, logOwner,
                   delivery, admin>>

(***************************************************************************)
(* The loop.  The top of an iteration looks at the stop flags and queues   *)
(* the log write; then a batch of completions is dispatched, and its end   *)
(* may stop operations.  The tick keeps completing, so an iteration may    *)
(* begin or end between any two other completions.                         *)
(***************************************************************************)
LoopTop(w) ==
    LET begins == shouldStop /\ ending[w] = "none"
        l == IF begins THEN emit(w, logger[w]) ELSE logger[w]
        queues == ending[w] # "stopping" /\ QueuesLog(w, l)
    IN  /\ thread[w] = "loop"
        /\ ending' = IF begins THEN [ending EXCEPT ![w] = "draining"] ELSE ending
        /\ logger' = [logger EXCEPT ![w] = IF queues THEN queueLog(l) ELSE l]
        /\ logOwner' = IF queues THEN w ELSE logOwner
        \* The tick is pending until operations are stopped.
        /\ Go(w, IF ending[w] = "stopping" /\ l.op = Idle THEN "release" ELSE "loop")
        /\ UNCHANGED <<config, serve, running, failure, flags, ready, mask, delivery, admin>>

Closed(s) == [Free EXCEPT !.generation = slot[s].generation]

\* stopOperations, at the end of a batch, with no connection left or the
\* shutdown deadline past: connections are closed, the log write canceled.
StopOperationsSpares(w) ==
    /\ thread[w] = "loop"
    /\ ending[w] = "draining"
    /\ ending' = [ending EXCEPT ![w] = "stopping"]
    /\ slot' = IF w = 0 THEN [s \in Slots |-> Closed(s)] ELSE slot
    /\ UNCHANGED <<config, lifecycle, logging, inspection>>

StopOperations(w) ==
    /\ thread[w] = "loop"
    /\ ending[w] = "draining"
    /\ ending' = [ending EXCEPT ![w] = "stopping"]
    /\ logger' = [logger EXCEPT ![w].cancel = logger[w].op # Idle]
    /\ slot' = IF w = 0 THEN [s \in Slots |-> Closed(s)] ELSE slot
    /\ UNCHANGED <<config, lifecycle, logOwner, delivery, inspection>>

CompleteLog(w) ==
    /\ thread[w] = "loop"
    /\ logger[w].op >= Canceled
    /\ LogWritten(w)
    /\ UNCHANGED <<config, lifecycle, ending, delivery, admin>>

\* A connection's completion that logs something.
CompleteWork(w) ==
    /\ thread[w] = "loop"
    /\ ending[w] # "stopping"
    /\ emit(w, logger[w]) # logger[w]
    /\ logger' = [logger EXCEPT ![w] = emit(w, @)]
    /\ UNCHANGED <<config, lifecycle, ending, logOwner, delivery, admin>>

(***************************************************************************)
(* Inspection.  A request for connections of worker t is left in t's       *)
(* mailbox, answered by t's tick and delivered by worker zero's.  The page *)
(* is named by the worker it describes.                                    *)
(***************************************************************************)
captureInspection(w) ==
    IF w # 0 /\ inspection[w].phase = "requested"
    THEN [inspection EXCEPT ![w].phase = "ready", ![w].page = w]
    ELSE inspection

\* The check on the connection a page is meant for.
StillWaitsReused(s, requester) ==
    slot[s].open /\ requester[1] = s /\ slot[s].inspecting

StillWaits(s, requester) ==
    slot[s].open /\ requester = <<s, slot[s].generation>> /\ slot[s].inspecting

Pages(s) == {t \in Inspected : inspection[t].phase = "ready" /\ StillWaits(s, inspection[t].requester)}

\* finishInspections: the first page for a connection is its response.
Answered ==
    [s \in Slots |->
        IF Pages(s) = {} THEN slot[s]
        ELSE LET first == CHOOSE t \in Pages(s) : \A u \in Pages(s) : t <= u
             IN  [slot[s] EXCEPT !.inspecting = FALSE, !.answer = inspection[first].page]]

finishInspections ==
    [t \in Inspected |-> IF inspection[t].phase = "ready" THEN NoInspection ELSE inspection[t]]

\* The tick: pages are captured and, by worker zero, delivered; then the
\* inspecting connections whose deadline has passed are closed.
CompleteTick(w) ==
    /\ thread[w] = "loop"
    /\ ending[w] # "stopping"
    /\ IF w = 0
       THEN \E expired \in SUBSET Slots :
               /\ slot' = [s \in Slots |->
                             IF s \in expired /\ Answered[s].inspecting
                             THEN Closed(s)
                             ELSE Answered[s]]
               /\ inspection' = finishInspections
       ELSE inspection' = captureInspection(w) /\ UNCHANGED slot
    /\ UNCHANGED <<config, lifecycle, ending, logging>>

\* inspectConnections on connection s; the worker asked for may be busy with
\* another page, which answers 503 and closes.
inspectConnections(s, t) ==
    /\ slot[s].open /\ ~slot[s].inspecting
    /\ IF inspection[t].phase # "idle"
       THEN /\ slot' = [slot EXCEPT ![s] = Closed(s)]
            /\ UNCHANGED inspection
       ELSE /\ slot' = [slot EXCEPT ![s].want = t, ![s].answer = 0, ![s].inspecting = TRUE]
            /\ inspection' = [inspection EXCEPT ![t].phase = "requested",
                                                ![t].requester = <<s, slot[s].generation>>]

\* An admin connection is accepted, asks for a page, or closes between requests.
CompleteAdmin ==
    /\ config.inspect
    /\ thread[0] = "loop"
    /\ ending[0] # "stopping"
    /\ \E s \in Slots :
          \/ /\ ~slot[s].open /\ ending[0] = "none" /\ slot[s].generation < MaxGeneration
             /\ slot' = [slot EXCEPT ![s] = [Free EXCEPT !.open = TRUE,
                                                         !.generation = slot[s].generation + 1]]
             /\ UNCHANGED inspection
          \/ \E t \in Inspected : inspectConnections(s, t)
          \/ /\ slot[s].open /\ ~slot[s].inspecting
             /\ slot' = [slot EXCEPT ![s] = Closed(s)]
             /\ UNCHANGED inspection
    /\ UNCHANGED <<config, lifecycle, ending, logging>>

(***************************************************************************)
(* The loop's errors, and the rest of workerMain.                          *)
(***************************************************************************)
\* loop's errdefer: abort, and quiesce cancels what is in flight.
LoopFails(w) ==
    /\ Fails("loop")
    /\ thread[w] = "loop"
    /\ flags' = Aborted
    /\ logger' = [logger EXCEPT ![w].cancel = logger[w].op # Idle]
    /\ Go(w, "quiesce")
    /\ UNCHANGED <<config, serve, running, failure, ready, mask, ending, logOwner, delivery, admin>>

\* quiesce waits for the canceled write and discards its completion: what it
\* wrote stays queued.
Quiesce(w) ==
    /\ thread[w] = "quiesce"
    /\ logger[w].op # Pending
    /\ logger' = [logger EXCEPT ![w].op = Idle, ![w].cancel = FALSE]
    /\ Fail(w)
    /\ Go(w, "release")
    /\ UNCHANGED <<config, serve, running, ready, mask, ending, logOwner, delivery, admin>>

Release(w) ==
    /\ thread[w] = "release"
    /\ releaseLog(w)
    /\ Go(w, "restore")
    /\ UNCHANGED <<config, serve, running, failure, flags, ready, mask, ending, logger, delivery, admin>>

\* The deferred setAffinity.
Restore(w) ==
    /\ thread[w] = "restore"
    /\ Go(w, "returned")
    /\ \/ /\ mask' = IF w = 0 THEN "original" ELSE mask
          /\ UNCHANGED <<failure, flags>>
       \/ Fails("restore") /\ Fail(w) /\ UNCHANGED mask
    /\ UNCHANGED <<config, serve, running, ready, ending, logging, admin>>

(***************************************************************************)
(* The VictoriaLogs sender.  A batch is a sequence of records.             *)
(***************************************************************************)
\* The records that end in these units: the newlines in the bytes read.
RecordsIn(units) ==
    LET last == SelectSeq(units, LAMBDA u : u[2] % Unit = Unit - 1)
    IN  [k \in DOMAIN last |-> <<last[k][1], last[k][2] \div Unit>>]

\* The records still queued in w's logger, sent again from their first byte.
Queued(w) == [k \in 1 .. Count(logger[w]) |-> <<w, logger[w].at \div Unit + k - 1>>]

Add(counts, records) ==
    [r \in RecordIds |-> counts[r] + Cardinality({k \in DOMAIN records : records[k] = r})]

\* flush: a failed post drops the batch, without a retry.
Flush(ok) ==
    /\ posted' = IF ok THEN Add(posted, sender.batch) ELSE posted
    /\ lost' = IF ok THEN lost ELSE Add(lost, sender.batch)

\* run returns: the batch in hand is dropped.
SenderReturns ==
    /\ sender' = [sender EXCEPT !.step = "stopped", !.batch = <<>>]
    /\ lost' = Add(lost, sender.batch)
    /\ UNCHANGED posted

\* A read takes what the pipe holds; end of file leads to the queues.
SenderReads ==
    /\ sender.step = "read"
    /\ \/ /\ sink # <<>>
          /\ sender' = [sender EXCEPT !.batch = @ \o RecordsIn(sink)]
          /\ sink' = <<>>
       \/ /\ sink = <<>> /\ sender.finishing
          /\ sender' = [sender EXCEPT !.step = "final"]
          /\ UNCHANGED sink
    /\ UNCHANGED <<config, lifecycle, ending, logOwner, logger, posted, lost, admin>>

\* The batch is posted when nothing is left to read, or it is full.
SenderFlushes ==
    /\ sender.step \in {"read", "final"}
    /\ sender.batch # <<>>
    /\ \E ok \in BOOLEAN : Flush(ok)
    /\ sender' = [sender EXCEPT !.batch = <<>>]
    /\ UNCHANGED <<config, lifecycle, ending, logOwner, logger, sink, admin>>

\* The final drain takes the queues record by record, worker by worker.
SenderDrains ==
    /\ sender.step = "final"
    /\ \/ \E w \in Workers :
             /\ Count(logger[w]) > 0
             /\ \A v \in Workers : v < w => Count(logger[v]) = 0
             /\ sender' = [sender EXCEPT !.batch = Append(@, Queued(w)[1])]
             /\ logger' = [logger EXCEPT ![w] = consume(@)]
       \/ /\ \A w \in Workers : Count(logger[w]) = 0
          /\ sender.batch = <<>>
          /\ sender' = [sender EXCEPT !.step = "stopped"]
          /\ UNCHANGED logger
    /\ UNCHANGED <<config, lifecycle, ending, logOwner, sink, posted, lost, admin>>

\* The sender gives up on an error, or at finish's deadline.
SenderStops ==
    /\ sender.step \in {"read", "final"}
    /\ sender.finishing \/ Fails("sender")
    /\ SenderReturns
    /\ UNCHANGED <<config, lifecycle, ending, logOwner, logger, sink, admin>>

\* finish closes the write end and waits for the sender or the deadline.
FinishLogs ==
    /\ serve.step = "finishLogs"
    /\ sender' = [sender EXCEPT !.finishing = TRUE]
    /\ serve' = [serve EXCEPT !.step = "awaitLogs"]
    /\ UNCHANGED <<config, running, thread, failure, flags, ready, mask, ending, logOwner,
                   logger, sink, posted, lost, admin>>

\* What the sender left in the pipe and in the queues is dropped and counted.
AwaitLogs ==
    /\ serve.step = "awaitLogs"
    /\ sender.step = "stopped"
    /\ sink' = <<>>
    /\ lost' = [r \in RecordIds |-> Add(Add(lost, RecordsIn(sink)), Queued(r[1]))[r]]
    /\ logger' = [w \in Workers |-> consumeAll(logger[w])]
    /\ running' = running \ {"logs"}
    /\ serve' = [serve EXCEPT !.step = "finishMetrics"]
    /\ UNCHANGED <<config, thread, failure, flags, ready, mask, ending, logOwner, sender, posted, admin>>

\* The caller has its result; deinit may follow.
Returned ==
    /\ serve.step = "finished"
    /\ UNCHANGED vars

Serve ==
    StartMetrics \/ StartLogs \/ StartApplications \/ SpawnOrRun \/ Join \/ AbortAndJoin
    \/ StopApplications \/ FinishLogs \/ AwaitLogs \/ FinishMetrics

Startup(w) == Pin(w) \/ Ready(w) \/ Barrier(w) \/ Check(w)
Exit(w) == Quiesce(w) \/ Release(w) \/ Restore(w)
Sender == SenderReads \/ SenderFlushes \/ SenderDrains \/ SenderStops

Next ==
    \/ Serve
    \/ \E w \in Workers :
          \/ Startup(w) \/ LoopTop(w) \/ StopOperations(w) \/ CompleteLog(w)
          \/ CompleteWork(w) \/ CompleteTick(w) \/ LoopFails(w) \/ Exit(w) \/ KernelWrite(w)
    \/ CompleteAdmin
    \/ Sender
    \/ RequestStop
    \/ Returned

(***************************************************************************)
(* Every thread is scheduled, the kernel completes a canceled write, and   *)
(* the tick after the shutdown deadline ends a batch.  Nobody has to stop  *)
(* the server, fail, log or connect, and a write that was not canceled may *)
(* never end.                                                              *)
(***************************************************************************)
Fairness ==
    /\ WF_vars(Serve)
    /\ \A w \in DOMAIN Records :
          /\ WF_vars(w \in Workers /\ (Startup(w) \/ Exit(w)))
          /\ WF_vars(w \in Workers /\ LoopTop(w))
          /\ WF_vars(w \in Workers /\ StopOperations(w))
          /\ WF_vars(w \in Workers /\ CompleteLog(w))
          /\ WF_vars(w \in Workers /\ logger[w].cancel /\ KernelWrite(w))
    /\ WF_vars(Sender)

Spec == Init /\ [][Next]_vars /\ Fairness

Active == {"pin", "ready", "barrier", "check", "loop", "quiesce", "release", "restore"}

TypeOK ==
    /\ config \in Configurations
    /\ serve.step \in {"metrics", "logs", "applications", "spawn", "main", "abort",
                       "joinStarted", "stopApplications", "finishLogs", "awaitLogs",
                       "finishMetrics", "finished"}
    /\ thread \in [Workers -> Active \cup {"none", "returned"}]
    /\ ready \in 0 .. config.workers
    /\ ending \in [Workers -> {"none", "draining", "stopping"}]
    /\ logOwner \in Workers \cup {NoOwner}

(***************************************************************************)
(* What a running worker borrows outlives it, whichever step of serve      *)
(* failed: while a workerMain runs, serve has not gone past its joins, the *)
(* executors still run and the log sender has not been told to finish; a   *)
(* write is in flight only while its worker is there to collect it.  When  *)
(* serve returns, everything it started has stopped, the calling thread    *)
(* has its affinity back unless restoring it failed, and a worker's        *)
(* failure is its result.                                                  *)
(***************************************************************************)
BorrowedOutlives ==
    /\ \A w \in Workers :
          /\ thread[w] \in Active =>
                /\ serve.step \in {"spawn", "main", "abort", "joinStarted"}
                /\ "executor" \in running
                /\ ~sender.finishing
          /\ logger[w].op # Idle => thread[w] \in {"loop", "quiesce"}
    /\ serve.step = "finished" =>
          /\ running = {}
          /\ sender.step \in {"off", "stopped"}
          /\ mask = "original" \/ failure[0]
          /\ (\E w \in Workers : failure[w]) => serve.result = "error"

(***************************************************************************)
(* Records of different workers are never mixed on the shared descriptor:  *)
(* one write is in flight at a time, and the rest of a record follows its  *)
(* beginning immediately unless its worker lost the descriptor to an error *)
(* or has left its loop.  Through the sender's pipe a record is never cut. *)
(***************************************************************************)
WholeRecords ==
    /\ \A v, w \in Workers : logger[v].op # Idle /\ logger[w].op # Idle => v = w
    /\ \A k \in 1 .. Len(sink) - 1 :
          LET w == sink[k][1]
              cut == sink[k][2] % Unit # Unit - 1 /\ sink[k + 1] # <<w, sink[k][2] + 1>>
          IN  cut => config.log = "file" /\ (logger[w].disabled \/ thread[w] # "loop")

(***************************************************************************)
(* Through the sender a record is accounted for exactly once, posted or    *)
(* counted as dropped, across write cancellation, the final drain of the   *)
(* queues and the sender's deadline; only a worker whose loop failed may   *)
(* have records sent twice, because quiesce discards its completion.       *)
(***************************************************************************)
RecordsOnce ==
    config.log = "pipe" =>
        \A w \in Workers : \A n \in 0 .. logger[w].tail - 1 :
            LET times == posted[<<w, n>>] + lost[<<w, n>>]
            IN  /\ times <= 1 \/ failure[w]
                /\ serve.step = "finished" => times >= 1

(***************************************************************************)
(* A page of connections reaches only the connection that asked for it: a  *)
(* slot closed and reused while the other worker still held the request    *)
(* never gets the page of its predecessor.                                 *)
(***************************************************************************)
InspectionReply ==
    \A s \in Slots : slot[s].answer # 0 => slot[s].answer = slot[s].want

(***************************************************************************)
(* Startup and shutdown always complete: whatever fails, serve gets all    *)
(* its workers through the barrier into their loops or returns, and once a *)
(* stop is requested it returns, even if nobody reads the log.             *)
(***************************************************************************)
Settled ==
    \/ serve.step = "finished"
    \/ ~shouldStop /\ \A w \in Workers : thread[w] = "loop"

ServeReturns == []<>Settled

=============================================================================

---------------------------- MODULE Connections ----------------------------
(***************************************************************************)
(* One event loop and its plaintext HTTP/1 connections, serving an         *)
(* application whose hooks run on the executor (server/worker.zig): ring   *)
(* operations and their cancellation, the request and response cycle,      *)
(* deadlines, streamed responses, graceful shutdown and ring failure.      *)
(*                                                                         *)
(* A connection is a record; the functions of worker.zig that change one   *)
(* are operators from records to records, or to the set of records they    *)
(* may leave when the outcome depends on input, budgets or the application.*)
(* Request bytes are abstracted to the parser's phase and to whether input *)
(* is left over; clock readings to whether a deadline has passed.          *)
(* The event loop runs one handler at a time: `mode` and `at` say which    *)
(* one it is in the middle of, so that only application threads, the       *)
(* kernel, the clock and the peer act between two of its steps.            *)
(***************************************************************************)
EXTENDS Integers, FiniteSets

CONSTANTS
  Slot,         \* indices of the connection table
  None,         \* no slot
  Generations,  \* generations wrap modulo this number (2^32 in the code)
  Servers,      \* the servers checked: the sets of features Init chooses from
  RingFails     \* the ring may report a fatal error

ASSUME ConnectionsAssumption ==
  /\ None \notin Slot /\ IsFiniteSet(Slot)
  /\ Generations \in Nat \ {0}
  /\ Servers \subseteq SUBSET {"streams", "keepalive", "bodies"}
  /\ RingFails \in BOOLEAN

VARIABLES
  conn,                   \* the connection table
  queued, running, done,  \* the executor's tasks, see TaskPool
  job,                    \* what a thread has done with each task
  mode,                   \* the handler the event loop is in
  at,                     \* the connection whose processInput loop it is in
  todo,                   \* connections the handler's loop has yet to visit
  ticking,                \* finishApplications was called by tick
  stop, draining, stopping,
  overdue,                \* shutdown_deadline has passed
  control,                \* control operations in the ring
  features                \* of the server, never changed

pool == <<queued, running, done>>
loop == <<mode, at, todo, ticking>>
shutdown == <<stop, draining, stopping, overdue, control, features>>
vars == <<conn, pool, job, loop, shutdown>>

Streams == "streams" \in features      \* has_response_streams
Keepalive == "keepalive" \in features  \* shutdown_keepalive_ms # 0
Bodies == "bodies" \in features        \* peers send requests with a body

Stage == {"head", "body", "body_response", "response", "produce"}
Task == [slot: Slot, generation: 0 .. Generations - 1, stage: Stage]
Pool == INSTANCE TaskPool

Response == {"null", "bytes", "stream"}
NoJob == [hook |-> "idle", response |-> "null", expired |-> FALSE]

Phase == {"reading", "application", "writing", "drain", "canceling"}
Connection ==
  [open: BOOLEAN,            \* fd >= 0
   free: Nat,                \* times the slot is on the free list
   generation: 0 .. Generations - 1,
   phase: Phase,
   parser: {"head", "body", "ending", "complete", "invalid"},
   lease: BOOLEAN,           \* request_lease # null
   input: BOOLEAN,           \* receive_start < receive_end
   receive: BOOLEAN, send: BOOLEAN,                 \* operations in the ring
   cancel_receive: BOOLEAN, cancel_send: BOOLEAN,
   pending: Int,
   started: BOOLEAN,         \* request_started
   served: BOOLEAN,          \* requests > 0
   closing: BOOLEAN,         \* close_after_response
   interim: BOOLEAN,
   permit: {"none", "admit", "reject", "close"},
   held: Int,                \* admission permits charged to this connection
   initialized: BOOLEAN,     \* application_initialized
   canceled: BOOLEAN, timed_out: BOOLEAN,
   due: BOOLEAN,             \* deadline has passed
   budget: BOOLEAN,          \* application_deadline_ns # 0
   late: BOOLEAN,            \* application_deadline_ns has passed
   streaming: BOOLEAN, stream_started: BOOLEAN, stream_busy: BOOLEAN,
   chunk: BOOLEAN,           \* response_stream_chunk
   publication: {"writing", "ready", "finished", "failed"}]

Vacant ==
  [open |-> FALSE, free |-> 1, generation |-> 0, phase |-> "canceling",
   parser |-> "head", lease |-> FALSE, input |-> FALSE,
   receive |-> FALSE, send |-> FALSE, cancel_receive |-> FALSE,
   cancel_send |-> FALSE, pending |-> 0, started |-> FALSE, served |-> FALSE,
   closing |-> FALSE, interim |-> FALSE, permit |-> "none", held |-> 0,
   initialized |-> FALSE, canceled |-> FALSE, timed_out |-> FALSE,
   due |-> FALSE, budget |-> FALSE, late |-> FALSE, streaming |-> FALSE,
   stream_started |-> FALSE, stream_busy |-> FALSE, chunk |-> FALSE,
   publication |-> "writing"]

One(b) == IF b THEN 1 ELSE 0
RingOperations(c) == One(c.receive) + One(c.send) + One(c.cancel_receive) + One(c.cancel_send)

(***************************************************************************)
(* Ring operations and closing                                             *)
(***************************************************************************)
queueReceive(c) ==
  IF c.receive THEN c
  ELSE [c EXCEPT !.receive = TRUE, !.pending = @ + 1, !.input = FALSE]

queueSend(c) == [c EXCEPT !.send = TRUE, !.pending = @ + 1]

\* Mutant: a second cancellation is queued while one is pending.
cancelReceiveAgain(c) ==
  IF c.receive THEN [c EXCEPT !.cancel_receive = TRUE, !.pending = @ + 1] ELSE c

cancelReceive(c) ==
  IF c.receive /\ ~c.cancel_receive
  THEN [c EXCEPT !.cancel_receive = TRUE, !.pending = @ + 1] ELSE c

cancelSend(c) ==
  IF c.send /\ ~c.cancel_send
  THEN [c EXCEPT !.cancel_send = TRUE, !.pending = @ + 1] ELSE c

releasePermit(c) ==
  [c EXCEPT !.permit = "none", !.held = @ - One(c.permit \in {"admit", "reject"})]

releaseApplication(c) == [c EXCEPT !.initialized = FALSE]

finishClose(c) ==
  IF c.pending # 0 \/ ~c.open THEN c
  ELSE [releasePermit(releaseApplication(c)) EXCEPT
          !.lease = FALSE, !.open = FALSE, !.free = @ + 1]

forceClose(c) ==
  finishClose(cancelSend(cancelReceive([c EXCEPT !.canceled = TRUE, !.phase = "canceling"])))

drainConnection(c) ==
  queueReceive([c EXCEPT !.phase = "drain", !.input = FALSE, !.due = FALSE])

prepareRequest(c) ==
  [c EXCEPT !.initialized = FALSE, !.lease = @ /\ c.input, !.parser = "head",
            !.started = FALSE, !.streaming = FALSE, !.closing = FALSE,
            !.interim = FALSE, !.timed_out = FALSE, !.budget = FALSE,
            !.late = FALSE, !.canceled = FALSE, !.stream_started = FALSE,
            !.stream_busy = FALSE, !.chunk = FALSE, !.due = FALSE]

acceptConnection(c) ==
  queueReceive(prepareRequest(
    [c EXCEPT !.free = @ - 1, !.open = TRUE, !.phase = "reading",
              !.generation = (@ + 1) % Generations, !.served = FALSE,
              !.input = FALSE, !.pending = 0, !.receive = FALSE, !.send = FALSE,
              !.cancel_receive = FALSE, !.cancel_send = FALSE, !.permit = "none"]))

timeoutApplication(c) ==
  IF c.timed_out THEN c
  ELSE [c EXCEPT !.canceled = TRUE, !.timed_out = TRUE, !.due = FALSE]

(***************************************************************************)
(* Responses                                                               *)
(***************************************************************************)
\* Mutant: an incomplete request does not close the connection.
MustCloseDraining(c) == draining \/ stop

MustClose(c) == c.parser \notin {"ending", "complete"} \/ draining \/ stop

\* A response starts, or cannot be encoded and the connection is closed. A
\* stream without buffer budget is replaced by a 503 that closes.
startResponse(c, close, stream) ==
  LET Encoded(k, b) ==
        queueSend([c EXCEPT !.phase = "writing", !.closing = k, !.interim = FALSE,
                            !.due = b /\ c.late, !.streaming = b, !.budget = b,
                            !.late = b /\ @,
                            !.publication = IF b THEN "writing" ELSE @])
      Forced == close \/ MustClose(c)
  IN  {forceClose(c)} \cup
      {Encoded(k, b) : k \in IF Forced THEN {TRUE} ELSE BOOLEAN,
                       b \in IF stream /\ Streams THEN BOOLEAN ELSE {FALSE}}

reject(c) ==
  IF c.permit # "none" THEN startResponse(c, TRUE, FALSE)
  ELSE {forceClose([c EXCEPT !.permit = "close"])} \cup
       startResponse([c EXCEPT !.permit = "reject", !.held = @ + 1], TRUE, FALSE)

continueAfterHead(c) ==
  {c} \cup (IF c.parser # "body" THEN {}
            ELSE {queueSend([c EXCEPT !.interim = TRUE, !.phase = "writing"])})

finishResponse(c) ==
  LET d == [releaseApplication(c) EXCEPT !.served = TRUE]
  IN  IF c.closing THEN drainConnection(d)
      ELSE [prepareRequest(releasePermit(d)) EXCEPT !.phase = "reading"]

\* Ending a fixed-length stream adds no bytes; ending a chunked one does.
pumpResponseStream(c) ==
  LET ended == [c EXCEPT !.streaming = FALSE, !.stream_started = FALSE]
      Send(d) == queueSend([d EXCEPT !.due = d.late])
  IN  CASE c.send \/ c.chunk \/ c.publication = "writing" -> {c}
        [] c.publication = "ready" -> {Send([c EXCEPT !.chunk = TRUE]), forceClose(c)}
        [] c.publication = "finished" ->
             IF c.stream_busy THEN {c}
             ELSE {Send(ended), finishResponse(ended), forceClose(c)}
        [] c.publication = "failed" -> {forceClose(c)}

(***************************************************************************)
(* Completions of receives and sends: the records each may leave.          *)
(***************************************************************************)
received(c, result) ==
  CASE result # "data" /\ result # "eof" /\ c.phase = "writing" -> {c}
    [] result = "interrupted" /\ c.phase = "drain" -> {queueReceive(c)}
    [] result = "eof" /\ c.phase = "reading" /\ c.started ->
         reject(c) \cup (IF c.parser = "head" THEN {forceClose(c)} ELSE {})
    [] result = "data" /\ c.phase = "drain" -> {queueReceive(c), forceClose(c)}
    [] result = "data" /\ c.phase = "reading" -> {[c EXCEPT !.input = TRUE]}
    [] result = "data" /\ c.phase \notin {"drain", "reading"} -> {c}
    [] OTHER -> {forceClose(c)}

\* Everything but the submission of a producer, which is Produce below.
sent(c, result) ==
  LET consumed == [c EXCEPT !.chunk = FALSE, !.due = c.late,
                            !.publication = IF c.chunk THEN "writing" ELSE @]
  IN  CASE result = "error" -> {forceClose(c)}
        [] result = "partial" -> {queueSend(c)}
        [] result = "all" /\ c.interim ->
             {[c EXCEPT !.interim = FALSE, !.phase = "reading", !.due = c.late]}
        [] result = "all" /\ ~c.interim /\ ~c.streaming -> {finishResponse(c)}
        [] result = "all" /\ ~c.interim /\ c.streaming ->
             IF c.canceled \/ ~c.stream_started THEN {forceClose(c)}
             ELSE pumpResponseStream(consumed)

(***************************************************************************)
(* The parts of processInput.  A rejected head was refused by the parser or *)
(* for want of storage; which of the two does not matter later.             *)
(***************************************************************************)
Rejected(c) == reject([c EXCEPT !.parser = "invalid"])

\* After admission a head is answered without running the application (no
\* buffers, the redirect listener, an error found by prepareHead), answered by
\* an inline hook, passed on by it, or submitted (see Feed).
Admitted(c) == [c EXCEPT !.permit = "admit", !.held = @ + 1, !.initialized = TRUE]
Inline(c) == [Admitted(c) EXCEPT !.budget = TRUE]

Parsed(c) ==
  {[c EXCEPT !.parser = p, !.input = i] :
     p \in IF Bodies THEN {"body", "ending"} ELSE {"ending"}, i \in BOOLEAN}

AnswerHead(c) ==
  reject(c)
    \cup startResponse([c EXCEPT !.permit = "reject", !.held = @ + 1], FALSE, FALSE)
    \cup {forceClose([c EXCEPT !.permit = "close"])}
    \cup startResponse([c EXCEPT !.permit = "admit", !.held = @ + 1], FALSE, FALSE)
    \cup startResponse(Admitted(c), FALSE, FALSE)
    \cup startResponse(Inline(c), FALSE, TRUE)

submitApplication(c) ==
  [c EXCEPT !.phase = "application", !.timed_out = FALSE, !.budget = TRUE, !.due = c.late]

(***************************************************************************)
(* The event loop.  Leave(s, r): a handler leaves connection s as r and    *)
(* goes on to processInput exactly when it returned it to reading.         *)
(***************************************************************************)
Put(s, r) == conn' = [conn EXCEPT ![s] = r]
Leave(s, r) == Put(s, r) /\ at' = IF r.phase = "reading" THEN s ELSE None

TaskOf(s, stage) == [slot |-> s, generation |-> conn[s].generation, stage |-> stage]

\* Mutant: the shutdown deadline does not wait for application work.
StopDueAtOnce ==
  draining /\ ~stopping /\ (overdue \/ \A s \in Slot : ~conn[s].open)

StopDue ==
  /\ draining /\ ~stopping
  /\ \/ \A s \in Slot : ~conn[s].open
     \/ overdue /\ \A s \in Slot : conn[s].open =>
                     conn[s].phase # "application" /\ ~conn[s].stream_busy

\* The loop is about to handle the next completion.
Ready == mode = "loop" /\ at = None /\ ~StopDue

Accept(s) ==
  /\ Ready /\ ~draining /\ ~stop /\ ~conn[s].open
  /\ Put(s, acceptConnection(conn[s]))
  /\ UNCHANGED <<pool, job, loop, shutdown>>

ReceiveDone(s) ==
  LET c == [conn[s] EXCEPT !.receive = FALSE, !.pending = @ - 1]
  IN  /\ Ready /\ conn[s].receive
      /\ IF c.phase = "canceling" THEN Leave(s, finishClose(c))
         ELSE \E result \in {"data", "eof", "error", "interrupted"} :
                \E r \in received(c, result) : Leave(s, r)
      /\ UNCHANGED <<pool, job, mode, todo, ticking, shutdown>>

SendDone(s) ==
  LET c == [conn[s] EXCEPT !.send = FALSE, !.pending = @ - 1]
  IN  /\ Ready /\ conn[s].send
      /\ IF c.phase = "canceling" THEN Leave(s, finishClose(c))
         ELSE \E result \in {"all", "partial", "error"} :
                \E r \in sent(c, result) : Leave(s, r)
      /\ UNCHANGED <<pool, job, mode, todo, ticking, shutdown>>

\* The head of a streamed response is out: its producer is submitted.
startResponseStream(s) ==
  LET c == [conn[s] EXCEPT !.send = FALSE, !.pending = @ - 1]
  IN  /\ Ready /\ conn[s].send /\ c.phase = "writing"
      /\ c.streaming /\ ~c.interim /\ ~c.canceled /\ ~c.stream_started
      /\ Pool!Submit(TaskOf(s, "produce"))
      /\ Put(s, [c EXCEPT !.stream_started = TRUE, !.stream_busy = TRUE,
                          !.pending = @ + 1, !.due = c.late])
      /\ UNCHANGED <<job, loop, shutdown>>

CancelDone(s) ==
  /\ Ready
  /\ \E r \in {[conn[s] EXCEPT !.cancel_receive = FALSE, !.pending = @ - One(conn[s].cancel_receive)],
               [conn[s] EXCEPT !.cancel_send = FALSE, !.pending = @ - One(conn[s].cancel_send)]} :
       /\ r # conn[s]
       /\ Put(s, IF r.phase = "canceling" THEN finishClose(r) ELSE r)
  /\ UNCHANGED <<pool, job, loop, shutdown>>

(***************************************************************************)
(* processInput: one round of its loop on connection `at`.                 *)
(***************************************************************************)
Input(s) == at = s /\ UNCHANGED <<mode, todo, ticking, shutdown>>

Settle(s, r) == Leave(s, r) /\ UNCHANGED <<pool, job>>
Return(s, r) == Put(s, r) /\ at' = None /\ UNCHANGED <<pool, job>>

\* The task is queued, or refused and answered with 503.
Submit(s, c, stage, close) ==
  \/ /\ Pool!Submit(TaskOf(s, stage))
     /\ Put(s, submitApplication(c)) /\ at' = None
     /\ UNCHANGED job
  \/ \E r \in startResponse([submitApplication(c) EXCEPT !.phase = "reading"], close, FALSE) :
       Settle(s, r)

\* Mutant: the loop goes on after it has queued a receive.
BeginRequestGoesOn(s) ==
  LET c == conn[s]
  IN  /\ Input(s) /\ ~c.started
      /\ \/ ~c.input /\ Settle(s, queueReceive(c))
         \/ c.input /\ Settle(s, [c EXCEPT !.lease = TRUE, !.started = TRUE, !.due = FALSE])

BeginRequest(s) ==
  LET c == conn[s]
  IN  /\ Input(s) /\ ~c.started
      /\ \/ ~c.input /\ Return(s, queueReceive(c))
         \/ c.input /\ ~c.lease /\ Settle(s, forceClose(c))
         \/ /\ c.input /\ draining
            /\ Settle(s, drainConnection([c EXCEPT !.lease = TRUE]))
         \/ /\ c.input /\ (draining => Keepalive)
            /\ Settle(s, [c EXCEPT !.lease = TRUE, !.started = TRUE, !.due = FALSE])

FeedHead(s) ==
  LET c == conn[s]
  IN  /\ Input(s) /\ c.started /\ c.parser = "head" /\ c.input
      /\ \/ Settle(s, forceClose([c EXCEPT !.permit = "close"]))
         \/ Return(s, queueReceive(c))
         \/ \E r \in Rejected(c) : Settle(s, r)
         \/ \E d \in Parsed([c EXCEPT !.due = FALSE]) :
              \/ \E r \in AnswerHead(d) \cup continueAfterHead(Inline(d)) : Settle(s, r)
              \/ Submit(s, Admitted(d), "head", FALSE)

FeedBody(s) ==
  LET c == conn[s]
  IN  /\ Input(s) /\ c.started /\ c.parser = "body"
      /\ \/ Return(s, queueReceive(c))
         \/ /\ c.input
            /\ \/ \E r \in Rejected(c) : Settle(s, r)
               \/ \E d \in Parsed(c) :
                    \/ Settle(s, d)
                    \/ \E r \in reject(d) : Settle(s, r)
                    \/ d.parser = "body" /\ Submit(s, d, "body", TRUE)
                    \/ /\ d.parser = "ending"
                       /\ Submit(s, [d EXCEPT !.parser = "complete"], "body_response", TRUE)

FeedEnd(s) ==
  /\ Input(s) /\ conn[s].started /\ conn[s].parser \notin {"head", "body"}
  /\ Submit(s, [conn[s] EXCEPT !.parser = "complete"], "response", FALSE)

processInput(s) == BeginRequest(s) \/ FeedHead(s) \/ FeedBody(s) \/ FeedEnd(s)

(***************************************************************************)
(* finishApplications, called for the eventfd and by tick, and tick.       *)
(***************************************************************************)
Visit(m, slots) == mode' = m /\ todo' = slots

Event ==
  /\ Ready /\ ~stopping
  /\ done # {} \/ \E s \in Slot : conn[s].stream_started /\ conn[s].publication # "writing"
  /\ Visit("apply", {}) /\ ticking' = FALSE
  /\ UNCHANGED <<conn, pool, job, at, shutdown>>

Tick ==
  /\ Ready /\ ~stopping
  /\ Visit("apply", {}) /\ ticking' = TRUE
  /\ UNCHANGED <<conn, pool, job, at, shutdown>>

\* Mutant: the completion of a producer does not look at its deadline.
CompletedProducerLate(c, j) ==
  LET d == [c EXCEPT !.stream_busy = FALSE, !.pending = @ - 1]
  IN  IF d.phase = "canceling" THEN {forceClose(d)} ELSE pumpResponseStream(d)

\* The records a connection may be left in by the completion j of its
\* producer, or of the hook of another stage.
CompletedProducer(c, j) ==
  LET d == [c EXCEPT !.stream_busy = FALSE, !.pending = @ - 1]
      e == IF j.expired THEN timeoutApplication(d) ELSE d
  IN  IF e.phase = "canceling" \/ e.timed_out THEN {forceClose(e)} ELSE pumpResponseStream(e)

CompletedHook(c, stage, j) ==
  LET d == IF j.expired THEN timeoutApplication(c) ELSE c
      resumed == [c EXCEPT !.phase = "reading", !.due = c.late]
  IN  CASE d.timed_out -> {forceClose(d)}
        [] ~d.timed_out /\ j.response # "null" -> startResponse(c, FALSE, j.response = "stream")
        [] ~d.timed_out /\ j.response = "null" /\ stage = "head" -> continueAfterHead(resumed)
        [] ~d.timed_out /\ j.response = "null" /\ stage = "body" -> {resumed}

Ignored(t) ==
  t.stage # "produce" /\ (conn[t.slot].generation # t.generation \/ conn[t.slot].phase # "application")

takeCompletion(t) ==
  /\ mode = "apply" /\ at = None
  /\ Pool!Take(t)
  /\ job' = [job EXCEPT ![t] = NoJob]
  /\ IF Ignored(t) THEN UNCHANGED <<conn, at>>
     ELSE \E r \in IF t.stage = "produce" THEN CompletedProducer(conn[t.slot], job[t])
                   ELSE CompletedHook(conn[t.slot], t.stage, job[t]) : Leave(t.slot, r)
  /\ UNCHANGED <<mode, todo, ticking, shutdown>>

\* A loop over no connections is passed over.
BeginSweep ==
  LET active == {s \in Slot : conn[s].open}
  IN  IF ticking /\ active # {} THEN Visit("sweep", active) /\ UNCHANGED ticking
      ELSE Visit("loop", {}) /\ ticking' = FALSE

EndCompletions ==
  LET streams == {s \in Slot : conn[s].open /\ conn[s].phase = "writing" /\ conn[s].stream_started}
  IN  /\ mode = "apply" /\ at = None /\ done = {}
      /\ IF streams # {} THEN Visit("pump", streams) /\ UNCHANGED ticking ELSE BeginSweep
      /\ UNCHANGED <<conn, pool, job, at, shutdown>>

Pump(s) ==
  /\ mode = "pump" /\ at = None /\ s \in todo
  /\ Visit("pump", todo \ {s})
  /\ \E r \in pumpResponseStream(conn[s]) : Leave(s, r)
  /\ UNCHANGED <<pool, job, ticking, shutdown>>

EndPump ==
  /\ mode = "pump" /\ at = None /\ todo = {}
  /\ BeginSweep
  /\ UNCHANGED <<conn, pool, job, at, shutdown>>

\* Mutant: a response the peer does not read never expires.
ExpiredUnlessWriting(c) ==
  IF c.phase = "drain" THEN {forceClose(c)}
  ELSE IF ~c.started THEN {IF draining /\ c.served THEN drainConnection(c) ELSE forceClose(c)}
  ELSE IF c.phase = "application" THEN {timeoutApplication(c)}
  ELSE IF c.phase = "reading" THEN reject(cancelReceive(c))
  ELSE {c}

Expired(c) ==
  IF c.phase = "drain" THEN {forceClose(c)}
  ELSE IF ~c.started THEN {IF draining /\ c.served THEN drainConnection(c) ELSE forceClose(c)}
  ELSE IF c.phase = "application" THEN {timeoutApplication(c)}
  ELSE IF c.late /\ (c.streaming \/ (c.phase = "reading" /\ c.budget))
       THEN {forceClose(timeoutApplication(c))}
  ELSE IF c.phase = "reading" THEN reject(cancelReceive(c))
  ELSE {forceClose(c)}

\* A peer found to have reset a streamed response ends it, whatever the time.
Swept(c) ==
  IF c.stream_started /\ draining /\ overdue THEN {forceClose(c)}
  ELSE (IF c.phase # "canceling" /\ c.due THEN Expired(c) ELSE {c})
         \cup (IF c.stream_started /\ c.phase # "canceling" THEN {forceClose(c)} ELSE {})

Sweep(s) ==
  /\ mode = "sweep" /\ s \in todo
  /\ \E r \in Swept(conn[s]) : Put(s, r)
  /\ IF todo = {s} THEN Visit("loop", {}) /\ ticking' = FALSE
     ELSE Visit("sweep", todo \ {s}) /\ UNCHANGED ticking
  /\ UNCHANGED <<pool, job, at, shutdown>>

(***************************************************************************)
(* Application threads.  A hook is skipped when its deadline has passed or *)
(* its connection is canceled by the time a thread takes the task.         *)
(***************************************************************************)
StartTask(t) ==
  LET c == conn[t.slot]
  IN  /\ Pool!Start(t)
      /\ job' = [job EXCEPT ![t] = [hook |-> IF c.late \/ c.canceled THEN "skip" ELSE "run",
                                    response |-> "null", expired |-> c.late]]
      /\ UNCHANGED <<conn, loop, shutdown>>

\* A producer publishes a chunk and blocks until it is consumed or canceled.
Producing(t) == t \in running /\ t.stage = "produce" /\ job[t].hook = "run"

flush(t) ==
  LET c == conn[t.slot]
  IN  /\ Producing(t) /\ c.publication = "writing" /\ ~c.canceled
      /\ Put(t.slot, [c EXCEPT !.publication = "ready"])
      /\ UNCHANGED <<pool, job, loop, shutdown>>

\* A producer returns: its last bytes are out and it finished, or it failed.
runStream(t) ==
  LET c == conn[t.slot]
  IN  /\ Producing(t)
      /\ \/ c.publication = "writing" /\ ~c.canceled /\ Put(t.slot, [c EXCEPT !.publication = "finished"])
         \/ (c.publication = "writing" \/ c.canceled) /\ Put(t.slot, [c EXCEPT !.publication = "failed"])
      /\ job' = [job EXCEPT ![t].hook = "skip"]
      /\ UNCHANGED <<pool, loop, shutdown>>

\* What the hooks of a stage may answer. body_response runs two hooks, and
\* leaves the second one out when the first used up the deadline.
Answers(t) ==
  IF job[t].hook = "skip" THEN {"null"}
  ELSE CASE t.stage \in {"head", "body"} -> Response
         [] t.stage = "response" -> Response \ {"null"}
         [] t.stage = "body_response" ->
              IF conn[t.slot].late THEN Response ELSE Response \ {"null"}
         [] t.stage = "produce" -> {}

\* Mutant: the deadline is only looked at before the hook runs.
FinishTaskOnTime(t) ==
  /\ Pool!Finish(t)
  /\ \E answer \in Answers(t) :
       job' = [job EXCEPT ![t].hook = "idle", ![t].response = answer]
  /\ UNCHANGED <<conn, loop, shutdown>>

FinishTask(t) ==
  /\ Pool!Finish(t)
  /\ \E answer \in Answers(t) :
       job' = [job EXCEPT ![t] = [hook |-> "idle", response |-> answer,
                                  expired |-> @.expired \/ conn[t.slot].late]]
  /\ UNCHANGED <<conn, loop, shutdown>>

(***************************************************************************)
(* The clock.  Waiting for a thread, only the application's budget counts. *)
(***************************************************************************)
BudgetPasses(s) ==
  /\ conn[s].open /\ conn[s].budget /\ ~conn[s].late
  /\ Put(s, [conn[s] EXCEPT !.late = TRUE])
  /\ UNCHANGED <<pool, job, loop, shutdown>>

DeadlinePasses(s) ==
  LET c == conn[s]
  IN  /\ c.open /\ ~c.due /\ ~c.timed_out /\ c.phase # "canceling"
      /\ c.phase = "application" \/ (c.stream_started /\ ~c.send) => c.late
      /\ Put(s, [c EXCEPT !.due = TRUE])
      /\ UNCHANGED <<pool, job, loop, shutdown>>

ShutdownDeadlinePasses ==
  /\ draining /\ ~overdue
  /\ overdue' = TRUE
  /\ UNCHANGED <<conn, pool, job, loop, stop, draining, stopping, control, features>>

(***************************************************************************)
(* Shutdown, ring failure and release of the worker's memory.              *)
(***************************************************************************)
RequestStop ==
  /\ ~stop
  /\ stop' = TRUE
  /\ UNCHANGED <<conn, pool, job, loop, draining, stopping, overdue, control, features>>

Drained(c) ==
  LET d == [c EXCEPT !.closing = TRUE]
  IN  IF ~c.open THEN c
      ELSE IF c.phase # "reading" \/ c.started \/ (c.served /\ Keepalive) THEN d
      ELSE forceClose(d)

beginShutdown ==
  /\ mode = "loop" /\ at = None /\ stop /\ ~draining
  /\ draining' = TRUE
  /\ conn' = [s \in Slot |-> Drained(conn[s])]
  /\ UNCHANGED <<pool, job, loop, stop, stopping, overdue, control, features>>

stopOperations ==
  /\ mode = "loop" /\ at = None /\ StopDue
  /\ stopping' = TRUE
  /\ conn' = [s \in Slot |-> IF conn[s].open THEN forceClose(conn[s]) ELSE conn[s]]
  /\ UNCHANGED <<pool, job, loop, stop, draining, overdue, control, features>>

\* Accepts are not armed again while draining, the tick and the eventfd read
\* not once the loop is stopping.
ControlDone(k) ==
  /\ Ready /\ k \in control
  /\ stopping \/ (draining /\ k = "accept")
  /\ control' = control \ {k}
  /\ UNCHANGED <<conn, pool, job, loop, stop, draining, stopping, overdue, features>>

Exit ==
  /\ Ready /\ stopping /\ control = {}
  /\ \A s \in Slot : conn[s].open => RingOperations(conn[s]) = 0
  /\ mode' = "exited"
  /\ UNCHANGED <<conn, pool, job, at, todo, ticking, shutdown>>

\* A ring error ends the loop in the middle of any handler.
Fail ==
  /\ RingFails /\ mode \in {"loop", "apply", "pump", "sweep"}
  /\ conn' = [s \in Slot |-> [conn[s] EXCEPT !.canceled = TRUE]]
  /\ mode' = "failed" /\ at' = None /\ todo' = {} /\ ticking' = FALSE
  /\ UNCHANGED <<pool, job, shutdown>>

\* After the threads are joined; see Executor.
deinit ==
  /\ mode \in {"exited", "failed"} /\ queued = {} /\ running = {}
  /\ conn' = [s \in Slot |-> [conn[s] EXCEPT !.open = FALSE, !.lease = FALSE,
                                !.initialized = FALSE, !.stream_busy = FALSE]]
  /\ mode' = "freed"
  /\ UNCHANGED <<pool, job, at, todo, ticking, shutdown>>

Finished == mode = "freed" /\ UNCHANGED vars

Init ==
  /\ conn = [s \in Slot |-> Vacant]
  /\ Pool!Init
  /\ job = [t \in Task |-> NoJob]
  /\ mode = "loop" /\ at = None /\ todo = {} /\ ticking = FALSE
  /\ stop = FALSE /\ draining = FALSE /\ stopping = FALSE /\ overdue = FALSE
  /\ control = {"accept", "tick", "application"}
  /\ features \in Servers

Handler ==
  \/ \E s \in Slot : processInput(s) \/ Pump(s) \/ Sweep(s)
  \/ \E t \in Task : takeCompletion(t)
  \/ EndCompletions \/ EndPump

Next ==
  \/ Handler \/ Event \/ Tick
  \/ \E s \in Slot :
       Accept(s) \/ ReceiveDone(s) \/ SendDone(s) \/ startResponseStream(s) \/ CancelDone(s)
         \/ BudgetPasses(s) \/ DeadlinePasses(s)
  \/ \E t \in Task : StartTask(t) \/ flush(t) \/ runStream(t) \/ FinishTask(t)
  \/ RequestStop \/ beginShutdown \/ ShutdownDeadlinePasses \/ stopOperations
  \/ \E k \in control : ControlDone(k)
  \/ Exit \/ Fail \/ deinit \/ Finished

Safe == Init /\ [][Next]_vars

\* A canceled operation and its cancellation complete.
Reap(s) ==
  \/ conn[s].phase = "canceling" /\ (ReceiveDone(s) \/ SendDone(s))
  \/ CancelDone(s)

\* Hooks return, and a producer at least once it is canceled.
Thread(s) ==
  \E t \in Task :
    /\ t.slot = s
    /\ StartTask(t) \/ FinishTask(t) \/ (conn[s].canceled /\ runStream(t))

\* A handler that has begun goes on, and the bytes of one receive run out.
\* Completions are reaped in order, so that one that is there is not passed
\* over for ever while the loop handles others, and the loop looks at the
\* conditions of beginShutdown and of Exit in every round: strong fairness.
\* The peer need not do anything.
Fairness ==
  /\ WF_vars(Handler)
  /\ SF_vars(\E s \in Slot : processInput(s) /\ ~conn'[s].input)
  /\ SF_vars(Tick)
  /\ \A s \in Slot : /\ SF_vars(Reap(s)) /\ WF_vars(Thread(s))
                     /\ WF_vars(BudgetPasses(s)) /\ WF_vars(DeadlinePasses(s))
  /\ SF_vars(beginShutdown) /\ WF_vars(ShutdownDeadlinePasses) /\ WF_vars(stopOperations)
  /\ SF_vars(Exit \/ \E k \in control : ControlDone(k))

Spec == Safe /\ Fairness

(***************************************************************************)
(* Properties                                                              *)
(***************************************************************************)
\* The fields keep their types; acceptConnection wraps the generation
\* (worker.zig 1910, `+%=`) instead of overflowing it.
TypeOK ==
  /\ conn \in [Slot -> Connection]
  /\ queued \subseteq Task /\ running \subseteq Task /\ done \subseteq Task
  /\ job \in [Task -> [hook: {"idle", "run", "skip"}, response: Response, expired: BOOLEAN]]
  /\ mode \in {"loop", "apply", "pump", "sweep", "exited", "failed", "freed"}
  /\ at \in Slot \cup {None} /\ todo \subseteq Slot
  /\ {ticking, stop, draining, stopping, overdue} \subseteq BOOLEAN
  /\ control \subseteq {"accept", "tick", "application"}
  /\ features \in Servers

Working == mode \notin {"failed", "freed"}

\* A task borrows its connection's request storage and exchange until its
\* completion is taken: the connection is neither released nor reused for
\* another request meanwhile (the threads read it without a lock), so that no
\* completion of an older generation ever arrives. A thread may still run
\* when the loop has failed, but not once deinit freed the table. When the
\* loop returns after a graceful shutdown no task is left that would use a
\* connection, and every connection is closed.
Borrow ==
  /\ \A t \in queued \cup running \cup (IF Working THEN done ELSE {}) :
       LET c == conn[t.slot]
       IN  /\ c.open /\ c.lease /\ c.initialized /\ c.generation = t.generation
           /\ IF t.stage = "produce" THEN c.stream_busy /\ c.streaming ELSE c.phase = "application"
  /\ \A t, u \in Pool!Outstanding : Working /\ t.slot = u.slot => t = u
  /\ mode = "exited" => Pool!Outstanding = {} /\ \A s \in Slot : ~conn[s].open

\* `pending` counts exactly the ring operations and the producer that still
\* refer to the connection, and none refers to a closed slot: the completion
\* of every operation finds the generation it was queued for.
PendingExact ==
  \A s \in Slot : LET c == conn[s] IN
    /\ Working /\ c.open => c.pending = RingOperations(c) + One(c.stream_busy)
    /\ Working /\ ~c.open => RingOperations(c) = 0 /\ ~c.stream_busy

\* Whichever way a request ends, its admission permit is given back exactly
\* once, and a slot is on the free list exactly while it is closed.
PermitExact ==
  Working => \A s \in Slot : LET c == conn[s] IN
    /\ c.held = One(c.permit \in {"admit", "reject"})
    /\ ~c.open => c.permit = "none"
    /\ c.free = One(~c.open)

\* The fields keep their types and every counter its meaning: operations in
\* flight, permits and free slots are each counted once (worker.zig 1910,
\* 3808, 3900).
AccountsExact == TypeOK /\ PendingExact /\ PermitExact

\* The response of a final stage is unwrapped without a check, so a hook that
\* was skipped has always led to a timeout or to a closed connection.
UnwrapDefined ==
  Working => \A t \in done :
    t.stage \in {"response", "body_response"} /\ job[t].response = "null"
      => job[t].expired \/ conn[t.slot].timed_out \/ Ignored(t)

\* While input is parsed the kernel neither writes the receive buffer nor
\* reads the output buffer, and the parser is not fed past an error or the
\* end of a request.
ParserOwnsInput ==
  at # None => LET c == conn[at] IN
    /\ c.open /\ ~c.receive /\ ~c.send
    /\ c.parser \in IF c.started THEN {"head", "body", "ending"} ELSE {"head"}
    /\ c.started => c.lease

\* A chunk handed to the kernel stays published until it is consumed, and a
\* producer that has returned has always said how its stream ended: nothing
\* else would complete the response.
StreamSettled ==
  Working => \A s \in Slot : LET c == conn[s] IN
    c.open /\ c.phase = "writing" =>
      /\ c.chunk => c.publication = "ready"
      /\ c.stream_started /\ ~c.stream_busy => c.publication \in {"finished", "failed"}

\* A further request is read only after a response that left the connection
\* open and whose own request was complete: no body is taken for a head.
NextRequest ==
  [][\A s \in Slot :
       LET c == conn[s]
           d == conn'[s]
       IN  c.open /\ c.phase = "writing" /\ d.phase = "reading" /\ d.generation = c.generation
             => c.interim \/ (~c.closing /\ c.parser \in {"ending", "complete"})]_vars

\* A request that has begun is answered or its connection closed, whatever
\* the peer does: some deadline covers every state a request can wait in. A
\* connection that is being closed is closed, however its operations, their
\* cancellations and its producer end. And a requested shutdown comes to an
\* end: `stop` is never taken back.
Settled(s) ==
  \/ ~conn[s].open
  \/ ~conn[s].started /\ conn[s].phase # "canceling"
  \/ ~Working

EverythingEnds ==
  \A s \in Slot : []<>(Settled(s) /\ (stop => mode \in {"exited", "failed", "freed"}))
=============================================================================

------------------------------- MODULE Http2 -------------------------------
(***************************************************************************)
(* One HTTP/2 connection: a session (server/http2.zig) between nghttp2 and *)
(* the executor, and the part of the event loop that drives it             *)
(* (pumpHttp2, completedHttp2, submitHttp2 in server/worker.zig).          *)
(*                                                                         *)
(* A stream is a record; the functions of http2.zig that change one are    *)
(* operators to the set of records they may leave.  The last four fields   *)
(* are nghttp2's own view of the stream, which is external: it calls back  *)
(* with the frames it receives and asks for the frames it sends.  Request  *)
(* bytes are flow-control units; a deadline is the fact that it has passed.*)
(* One round of pumpHttp2 is the sequence of steps `at` goes through; its  *)
(* other rounds are further pumps.  TLS records and the copies between     *)
(* buffers are left out.                                                   *)
(***************************************************************************)
EXTENDS Integers, FiniteSets

CONSTANTS
  Last,       \* highest stream the peer opens
  MaxStreams, \* http2.max_streams
  MaxRequests, \* max_requests_per_connection
  Window,     \* units of a stream's flow-control window
  Servers     \* the servers checked: the sets of features Init chooses from

ASSUME Http2Assumption ==
  /\ {Last, MaxStreams, MaxRequests} \subseteq Nat \ {0} /\ Window \in Nat
  /\ Servers \subseteq SUBSET {"producers", "stops"}

VARIABLES
  stream,                 \* the streams, by number
  count,                  \* session.count
  session,                \* the session's flags
  conn,                   \* the connection's phase and operations
  queued, running, done,  \* the executor's tasks, see TaskPool
  job,                    \* what a thread has done with each task
  at, todo,               \* where pumpHttp2 is, and the streams drive has yet to visit
  stop, overdue, stopping, \* the worker drains; shutdown_deadline has passed; stopOperations ran
  features                \* of the server, never changed

Id == 1 .. Last
Stage == {"head", "body", "response", "produce"}
Task == [id: Id, stage: Stage]
Pool == INSTANCE TaskPool
pool == <<queued, running, done>>
shutdown == <<stop, overdue, stopping, features>>
vars == <<stream, count, session, conn, pool, job, at, todo, shutdown>>

Producers == "producers" \in features  \* has_response_streams
Stops == "stops" \in features          \* the server is told to stop

Response == {"null", "bytes", "stream"}
NoJob == [hook |-> "idle", response |-> "null", expired |-> FALSE]

Stream ==
  [state: {"new", "live", "gone"},
   head_ready: BOOLEAN, initialized: BOOLEAN, head_done: BOOLEAN, ended: BOOLEAN,
   closed: BOOLEAN,          \* and canceled: the two are set together
   busy: Stage \cup {"none"},
   body_len: Int, task_body_len: Int,
   response: Response,
   started: BOOLEAN,         \* response_stream_started
   deferred: BOOLEAN,        \* response_deferred
   publication: {"writing", "ready", "finished", "failed"},
   permit: {"none", "admit", "reject", "close"},
   held: Int,                \* admission permits charged to this stream
   due: BOOLEAN,             \* deadline has passed
   late: BOOLEAN,            \* application_deadline has passed
   open: BOOLEAN,            \* nghttp2 knows the stream
   out: {"none", "headers", "body", "deferred", "ended"},
   rst: {"none", "cancel", "protocol", "no_error"},   \* queued RST_STREAM
   uncredited: Int]          \* received units the peer has no credit for yet

New ==
  [state |-> "new", head_ready |-> FALSE, initialized |-> FALSE, head_done |-> FALSE,
   ended |-> FALSE, closed |-> FALSE, busy |-> "none", body_len |-> 0, task_body_len |-> 0,
   response |-> "null", started |-> FALSE, deferred |-> FALSE, publication |-> "writing",
   permit |-> "none", held |-> 0, due |-> FALSE, late |-> FALSE, open |-> FALSE,
   out |-> "none", rst |-> "none", uncredited |-> 0]

NoSession ==
  [draining |-> FALSE, closing |-> "no", terminal |-> FALSE, unsent |-> FALSE,
   input |-> FALSE, accepted |-> 0]

Live == {i \in Id : stream[i].state = "live"}
One(b) == IF b THEN 1 ELSE 0

(***************************************************************************)
(* A stream                                                                *)
(***************************************************************************)
Rst(s, code) == [s EXCEPT !.rst = IF @ = "none" THEN code ELSE @]

\* Nobody looks at the deadlines of a closed stream again.
Cancel(s) == [s EXCEPT !.closed = TRUE, !.due = FALSE, !.late = FALSE]

reset(s) == Rst(Cancel(s), "cancel")

\* nghttp2 closes the stream.
closed(s) == [Cancel(s) EXCEPT !.open = FALSE, !.out = "none", !.rst = "none"]

consumeStream(s, n) == [s EXCEPT !.uncredited = @ - n]

respond(s, response) ==
  LET r == [consumeStream(s, s.body_len) EXCEPT
              !.response = response, !.due = FALSE, !.out = "headers", !.body_len = 0]
  IN  {reset(s)} \cup
      IF response = "bytes" THEN {[r EXCEPT !.late = FALSE]}
      ELSE {reset(r), [r EXCEPT !.busy = "produce", !.started = TRUE, !.due = s.late]}

status(s) ==
  IF s.permit # "none" THEN respond(s, "bytes")
  ELSE respond([s EXCEPT !.permit = "reject", !.held = @ + 1], "bytes")
         \cup {reset([s EXCEPT !.permit = "close"])}

Answer(s) == UNION {respond(s, r) : r \in {"bytes"} \cup IF Producers THEN {"stream"} ELSE {}}

submit(s, stage) == {[s EXCEPT !.busy = stage]} \cup status(s)

\* The end of advance, once the hook for the head is done.
advanceEnd(s) == IF s.ended THEN submit(s, "response") ELSE {s}

\* Mutant: no credit for a body that was received on the event loop.
advanceBodyUncredited(s) ==
  IF s.body_len = 0 THEN advanceEnd(s)
  ELSE submit([s EXCEPT !.task_body_len = s.body_len], "body")
         \cup status(s) \cup advanceEnd([s EXCEPT !.body_len = 0])

advanceBody(s) ==
  IF s.body_len = 0 THEN advanceEnd(s)
  ELSE submit([s EXCEPT !.task_body_len = s.body_len], "body")
         \cup status(s)
         \cup advanceEnd([consumeStream(s, s.body_len) EXCEPT !.body_len = 0])

\* A malformed request, the three decisions of admission, and then an early
\* answer, a hook on a thread or one on the event loop.
advanceHead(s) ==
  LET a == [s EXCEPT !.permit = "admit", !.held = @ + 1, !.initialized = TRUE, !.due = FALSE]
  IN  status(s)
        \cup status([s EXCEPT !.permit = "reject", !.held = @ + 1])
        \cup {reset([s EXCEPT !.permit = "close"])}
        \cup submit(a, "head") \cup Answer(a)
        \cup advanceBody([a EXCEPT !.head_done = TRUE])

advance(s) ==
  IF ~s.initialized THEN advanceHead(s)
  ELSE IF s.head_done THEN advanceBody(s) ELSE {s}

\* The stream's storage goes back to the cache; nghttp2 may keep its number.
destroy(s) ==
  [New EXCEPT !.state = "gone", !.held = s.held - One(s.permit \in {"admit", "reject"})]

\* Mutants: a closed stream is destroyed under its task; response_deferred is
\* not cleared when the body is resumed; deadlines are not looked at.
driveStreamEager(s) ==
  IF s.closed \/ s.due THEN {destroy(s)}
  ELSE IF s.busy = "none" /\ s.response = "null" /\ s.head_ready THEN advance(s) ELSE {s}

driveStreamDeferred(s) ==
  IF s.closed /\ s.busy = "none" THEN {destroy(s)}
  ELSE IF ~s.closed /\ s.busy = "none" /\ s.response = "null" /\ s.head_ready THEN advance(s)
  ELSE IF s.deferred /\ s.publication = "ready" THEN {[s EXCEPT !.out = "body"]} ELSE {s}

driveStreamPatient(s) ==
  IF s.closed THEN {IF s.busy = "none" THEN destroy(s) ELSE s}
  ELSE IF s.busy = "none" /\ s.response = "null" /\ s.head_ready THEN advance(s)
  ELSE IF s.deferred /\ s.publication # "writing" /\ s.busy = "none"
       THEN {[s EXCEPT !.deferred = FALSE, !.out = "body"]} ELSE {s}

\* What drive does with one stream.
driveStream(s) ==
  LET t == IF ~s.closed /\ s.due THEN reset(s) ELSE s
  IN  IF t.closed THEN {IF t.busy = "none" THEN destroy(t) ELSE t}
      ELSE IF t.busy = "none" /\ t.response = "null" /\ t.head_ready THEN advance(t)
      ELSE IF ~t.started THEN {t}
      ELSE IF t.publication = "failed" THEN {reset(t)}
      ELSE IF t.deferred /\ (t.publication = "ready" \/ (t.publication = "finished" /\ t.busy = "none"))
           THEN {[t EXCEPT !.deferred = FALSE, !.out = "body"]}
      ELSE {t}

\* Mutant: a producer that was skipped because its deadline passed counts as
\* one that returned.
completeSkipped(s, stage, result) ==
  LET t == [s EXCEPT !.busy = "none"]
  IN  IF t.closed \/ stage = "produce" THEN {t}
      ELSE IF result.expired THEN {reset(t)}
      ELSE IF result.response # "null" THEN respond(t, result.response)
      ELSE {[t EXCEPT !.head_done = TRUE]}

\* The completion of the stream's only task.
complete(s, stage, result) ==
  LET t == [s EXCEPT !.busy = "none"]
  IN  IF t.closed THEN {t}
      ELSE IF result.expired THEN {reset(t)}
      ELSE IF result.response # "null" THEN respond(t, result.response)
      ELSE CASE stage = "head" -> {[t EXCEPT !.head_done = TRUE]}
             [] stage = "body" ->
                  {[consumeStream(t, t.task_body_len) EXCEPT
                      !.body_len = @ - t.task_body_len, !.task_body_len = 0]}
             [] OTHER -> {t}

(***************************************************************************)
(* The connection                                                          *)
(***************************************************************************)
abort(streams) ==
  [i \in Id |-> IF streams[i].state = "live" THEN Cancel(streams[i]) ELSE streams[i]]

\* With the last completion, the session and the slot are released.
finishClose(streams, c) ==
  IF c.pending # 0
  THEN stream' = streams /\ conn' = c /\ UNCHANGED <<count, session>>
  ELSE /\ stream' = [i \in Id |-> IF streams[i].state = "live" THEN destroy(streams[i]) ELSE streams[i]]
       /\ count' = count - Cardinality({i \in Id : streams[i].state = "live"})
       /\ conn' = [c EXCEPT !.phase = "closed", !.stalled = FALSE]
       /\ session' = NoSession

\* Mutant: an operation that is being canceled is canceled again.
forceCloseAgain(streams, c) ==
  finishClose(abort(streams),
    [c EXCEPT !.phase = "canceling", !.doomed = {op \in {"receive", "send"} : c[op]},
              !.cancel_receive = c.receive \/ @, !.cancel_send = c.send \/ @,
              !.pending = @ + One(c.receive) + One(c.send)])

forceClose(streams, c) ==
  finishClose(abort(streams),
    [c EXCEPT !.phase = "canceling",
              !.doomed = {op \in {"receive", "send"} : c[op]},
              !.cancel_receive = c.receive \/ @, !.cancel_send = c.send \/ @,
              !.pending = @ + One(c.receive /\ ~c.cancel_receive) + One(c.send /\ ~c.cancel_send)])

\* pumpHttp2 gives up, at whatever step it is.
Abandon == forceClose(stream, conn) /\ at' = "idle" /\ todo' = {} /\ UNCHANGED <<pool, job, shutdown>>

\* submitHttp2, if the step left the stream with a new task; a destroyed
\* stream leaves the list, and nghttp2 with the frames it has queued for it.
Leave(i, s, c, taken) ==
  LET gone == s.state = "gone" /\ stream[i].open
      task == s.busy # "none" /\ (stream[i].busy = "none" \/ taken # {})
  IN  /\ stream' = [stream EXCEPT ![i] = s]
      /\ count' = count - One(s.state = "gone")
      /\ session' = [session EXCEPT !.unsent = @ \/ gone]
      /\ conn' = [c EXCEPT !.pending = @ + One(task)]
      /\ queued' = IF task THEN queued \cup {[id |-> i, stage |-> s.busy]} ELSE queued
      /\ done' = done \ taken
      /\ job' = [t \in Task |-> IF t \in taken THEN NoJob ELSE job[t]]
      /\ UNCHANGED running

(***************************************************************************)
(* pumpHttp2                                                               *)
(***************************************************************************)
pumpHttp2 ==
  /\ at = "pump"
  /\ IF (stop /\ overdue) \/ (conn.send /\ conn.stalled) THEN Abandon
     ELSE /\ \/ UNCHANGED session
             \/ count = 0 /\ ~session.draining        \* idle_deadline has passed
                /\ session' = [session EXCEPT !.draining = TRUE, !.unsent = TRUE]
          /\ IF session.closing = "no" THEN at' = "drive" /\ todo' = Live
             ELSE at' = "shutdown" /\ UNCHANGED todo
          /\ UNCHANGED <<stream, count, conn, pool, job, shutdown>>

\* tls.advance while the session is closing: first close_notify, then done
\* (SSL_shutdown waits for nothing from the peer); pumpFails if it fails.
shutdownTls ==
  /\ at = "shutdown"
  /\ \/ conn.send /\ at' = "rest" /\ UNCHANGED <<stream, count, session, conn, pool, job, todo, shutdown>>
     \/ /\ ~conn.send /\ session.closing = "start"
        /\ session' = [session EXCEPT !.closing = "sent", !.unsent = TRUE]
        /\ at' = "rest"
        /\ UNCHANGED <<stream, count, conn, pool, job, todo, shutdown>>
     \/ ~conn.send /\ session.closing = "sent" /\ ~session.unsent /\ Abandon
     \/ ~conn.send /\ session.closing = "sent" /\ session.unsent
        /\ at' = "rest" /\ UNCHANGED <<stream, count, session, conn, pool, job, todo, shutdown>>

\* The newest stream is at the head of the list.
drive ==
  \E i \in todo :
    /\ at \in {"drive", "redrive"} /\ \A k \in todo : k <= i
    /\ \E s \in driveStream(stream[i]) : Leave(i, s, conn, {})
    /\ todo' = todo \ {i}
    /\ UNCHANGED <<at, shutdown>>

driveEnd ==
  /\ at \in {"drive", "redrive"} /\ todo = {}
  /\ session' = IF session.accepted >= MaxRequests /\ ~session.draining
                THEN [session EXCEPT !.draining = TRUE, !.unsent = TRUE] ELSE session
  /\ IF at = "drive" /\ session.input THEN at' = "receive" /\ UNCHANGED todo
     ELSE at' = "output" /\ todo' = Live
  /\ UNCHANGED <<stream, count, conn, pool, job, shutdown>>

\* The engine, TLS or an allocation fails, or the peer ended TLS.
pumpFails ==
  /\ at \in {"drive", "receive", "redrive", "output"} \/ (at = "shutdown" /\ ~conn.send)
  /\ Abandon

(***************************************************************************)
(* Frames nghttp2 receives                                                 *)
(***************************************************************************)
Receiving == at = "receive" /\ ~session.terminal

Put(i, s) ==
  /\ stream' = [stream EXCEPT ![i] = s]
  /\ UNCHANGED <<count, session, conn, pool, job, at, todo, shutdown>>

\* nghttp2 ignores what arrives for a stream that it is about to reset.
Hears(i) == Receiving /\ i \in Live /\ stream[i].open /\ stream[i].rst = "none"

\* The worker's other connections may have used up max_streams_per_worker.
begin(i) ==
  /\ Receiving /\ stream[i].state = "new" /\ \A k \in 1 .. i - 1 : stream[k].state # "new"
  /\ \/ /\ stream' = [stream EXCEPT ![i].state = "gone"]
        /\ session' = [session EXCEPT !.unsent = TRUE]
        /\ UNCHANGED count
     \/ /\ ~session.draining /\ session.accepted < MaxRequests /\ count < MaxStreams
        /\ stream' = [stream EXCEPT ![i].state = "live", ![i].open = TRUE]
        /\ session' = [session EXCEPT !.accepted = @ + 1]
        /\ count' = count + 1
  /\ UNCHANGED <<conn, pool, job, at, todo, shutdown>>

headComplete(i, ended) ==
  /\ Hears(i) /\ ~stream[i].head_ready
  /\ Put(i, [stream[i] EXCEPT !.head_ready = TRUE, !.ended = ended])

\* A field or a trailer is refused.
badHeader(i) == Hears(i) /\ ~stream[i].ended /\ Put(i, Rst(stream[i], "protocol"))

body(i) ==
  LET s == [stream[i] EXCEPT !.uncredited = @ + 1]
  IN  /\ Hears(i) /\ s.head_ready /\ ~s.ended /\ stream[i].uncredited < Window
      /\ ~s.closed /\ s.response = "null"
      /\ \/ Put(i, [s EXCEPT !.body_len = @ + 1])
         \/ s.busy # "none" /\ Put(i, reset(s))
         \/ s.busy = "none" /\ \E t \in status(s) : Put(i, t)

end(i) ==
  /\ Hears(i) /\ stream[i].head_ready /\ ~stream[i].ended
  /\ Put(i, IF stream[i].out = "ended" THEN closed([stream[i] EXCEPT !.ended = TRUE])
            ELSE [stream[i] EXCEPT !.ended = TRUE])

peerReset(i) == Receiving /\ i \in Live /\ stream[i].open /\ Put(i, closed(stream[i]))

\* nghttp2 answers a connection error with GOAWAY and stops reading.
terminate ==
  /\ Receiving
  /\ session' = [session EXCEPT !.terminal = TRUE, !.unsent = TRUE]
  /\ UNCHANGED <<stream, count, conn, pool, job, at, todo, shutdown>>

receiveEnd ==
  /\ at = "receive"
  /\ session' = [session EXCEPT !.input = FALSE]
  /\ at' = "redrive" /\ todo' = Live
  /\ UNCHANGED <<stream, count, conn, pool, job, shutdown>>

(***************************************************************************)
(* Frames nghttp2 sends                                                    *)
(***************************************************************************)
\* END_STREAM is out: responseEnd stops a request that is still being sent.
responseEnd(s) == IF s.ended THEN closed(s) ELSE Rst([s EXCEPT !.out = "ended"], "no_error")

produce(s) ==
  LET defer == [s EXCEPT !.deferred = TRUE, !.out = "deferred"]
      refuse == Rst(s, "protocol")
  IN  IF s.closed THEN {refuse}
      ELSE IF s.response = "bytes" THEN {responseEnd(s)}
      ELSE CASE s.publication = "writing" -> {defer}
             [] s.publication = "ready" -> {refuse, [s EXCEPT !.publication = "writing", !.due = s.late]}
             [] s.publication = "finished" /\ s.busy # "none" -> {defer}
             [] s.publication = "finished" /\ s.busy = "none" -> {refuse, responseEnd(s)}
             [] s.publication = "failed" -> {refuse}

frames(s) ==
  IF s.rst # "none" THEN {closed(s)}
  ELSE IF s.out = "headers" THEN {[s EXCEPT !.out = "body"]} \cup
                                   IF s.response = "bytes" THEN {responseEnd(s)} ELSE {}
  ELSE IF s.out = "body" THEN produce(s) ELSE {}

Queued(s) == s.state = "live" /\ s.open /\ (s.rst # "none" \/ s.out = "headers")

\* mem_send: frames that are queued, and a chunk of each body.
output ==
  \E i \in Live :
    /\ at = "output" /\ ~session.terminal /\ stream[i].open
    /\ Queued(stream[i]) \/ i \in todo
    /\ \E s \in frames(stream[i]) : stream' = [stream EXCEPT ![i] = s]
    /\ todo' = IF Queued(stream[i]) THEN todo ELSE todo \ {i}
    /\ session' = [session EXCEPT !.unsent = TRUE]
    /\ UNCHANGED <<count, conn, pool, job, at, shutdown>>

\* The peer's flow control may hold back bodies, a send in flight everything.
outputEnd ==
  /\ at = "output" /\ (conn.send \/ session.terminal \/ \A i \in Id : ~Queued(stream[i]))
  /\ at' = "rest" /\ todo' = {}
  /\ UNCHANGED <<stream, count, session, conn, pool, job, shutdown>>

\* Queue a send, begin to close a session that is drained or broken, or
\* queue a receive.
rest ==
  LET send == ~conn.send /\ session.unsent
      c == [conn EXCEPT !.send = @ \/ send, !.stalled = @ /\ ~send, !.pending = @ + One(send)]
      receive == ~c.receive /\ ~session.input
      drained == session.terminal \/ (count = 0 /\ session.draining)
  IN  /\ at = "rest"
      /\ IF session.closing = "no" /\ ~c.send /\ drained
         THEN /\ stream' = abort(stream)
              /\ session' = [session EXCEPT !.closing = "start"]
              /\ conn' = c
              /\ at' = "pump"
         ELSE /\ session' = [session EXCEPT !.unsent = @ /\ ~send]
              /\ conn' = [c EXCEPT !.receive = @ \/ receive, !.pending = @ + One(receive)]
              /\ at' = "idle"
              /\ UNCHANGED stream
      /\ UNCHANGED <<count, pool, job, todo, shutdown>>

(***************************************************************************)
(* What makes the event loop pump                                          *)
(***************************************************************************)
Idle == at = "idle" /\ conn.phase # "closed"

\* A receive or a send completes, with an error or with bytes. A send that
\* takes part of them is queued again by its pump: the model has one send.
SocketDone(op) ==
  LET c == [conn EXCEPT ![op] = FALSE, !.pending = @ - 1, !.doomed = @ \ {op}]
  IN  /\ Idle /\ conn[op]
      /\ \/ /\ conn.phase = "canceling" /\ finishClose(stream, c) /\ UNCHANGED at
         \/ /\ conn.phase = "http2"
            /\ \/ forceClose(stream, c) /\ UNCHANGED at
               \/ /\ conn' = c /\ at' = "pump"
                  /\ session' = [session EXCEPT !.input = @ \/ op = "receive"]
                  /\ UNCHANGED <<stream, count>>
      /\ UNCHANGED <<pool, job, todo, shutdown>>

CancelDone(op) ==
  /\ Idle /\ conn[op]
  /\ LET c == [conn EXCEPT ![op] = FALSE, !.pending = @ - 1]
     IN  IF conn.phase = "canceling" THEN finishClose(stream, c)
         ELSE conn' = c /\ UNCHANGED <<stream, count, session>>
  /\ UNCHANGED <<pool, job, at, todo, shutdown>>

\* The tick, or the eventfd after a publication.
Wake ==
  /\ Idle /\ conn.phase = "http2" /\ at' = "pump"
  /\ UNCHANGED <<stream, count, session, conn, pool, job, todo, shutdown>>

takeCompletion(t) ==
  /\ Idle /\ t \in done
  /\ \E s \in complete(stream[t.id], t.stage, job[t]) :
       IF conn.phase = "http2"
       THEN Leave(t.id, s, [conn EXCEPT !.pending = @ - 1], {t}) /\ at' = "pump"
       ELSE /\ finishClose([stream EXCEPT ![t.id] = s], [conn EXCEPT !.pending = @ - 1])
            /\ Pool!Take(t) /\ job' = [job EXCEPT ![t] = NoJob] /\ UNCHANGED at
  /\ UNCHANGED <<todo, shutdown>>

\* complete() fails in the engine, after it cleared busy.
completeFails(t) ==
  /\ Idle /\ Pool!Take(t)
  /\ forceClose([stream EXCEPT ![t.id].busy = "none"], [conn EXCEPT !.pending = @ - 1])
  /\ job' = [job EXCEPT ![t] = NoJob]
  /\ UNCHANGED <<at, todo, shutdown>>

\* The session drains and is pumped, whatever the connection's phase.
beginShutdown ==
  /\ Stops /\ Idle /\ ~stop
  /\ stop' = TRUE
  /\ session' = [session EXCEPT !.draining = TRUE, !.unsent = @ \/ ~session.draining]
  /\ at' = "pump"
  /\ UNCHANGED <<stream, count, conn, pool, job, todo, overdue, stopping, features>>

hasApplicationWork == \E i \in Live : stream[i].busy # "none"

stopOperations ==
  /\ Idle /\ stop /\ overdue /\ ~stopping /\ ~hasApplicationWork
  /\ forceClose(stream, conn) /\ stopping' = TRUE
  /\ UNCHANGED <<pool, job, at, todo, stop, overdue, features>>

(***************************************************************************)
(* Application threads                                                     *)
(***************************************************************************)
StartTask(t) ==
  LET s == stream[t.id]
  IN  /\ Pool!Start(t)
      /\ job' = [job EXCEPT ![t] = [hook |-> IF s.late \/ s.closed THEN "skip" ELSE "run",
                                    response |-> "null", expired |-> s.late]]
      /\ UNCHANGED <<stream, count, session, conn, at, todo, shutdown>>

Producing(t) == t \in running /\ t.stage = "produce" /\ job[t].hook = "run"

\* The producer publishes, and waits until nghttp2 has taken all of it.
flush(t) ==
  /\ Producing(t) /\ stream[t.id].publication = "writing" /\ ~stream[t.id].closed
  /\ stream' = [stream EXCEPT ![t.id].publication = "ready"]
  /\ UNCHANGED <<count, session, conn, pool, job, at, todo, shutdown>>

runStream(t) ==
  LET s == stream[t.id]
  IN  /\ Producing(t)
      /\ \E p \in {"finished", "failed"} :
           /\ s.publication = "writing" \/ s.closed
           /\ p = "failed" \/ ~s.closed
           /\ stream' = [stream EXCEPT ![t.id].publication = p]
      /\ job' = [job EXCEPT ![t].hook = "skip"]
      /\ UNCHANGED <<count, session, conn, pool, at, todo, shutdown>>

Answers(t) ==
  IF job[t].hook = "skip" THEN {"null"}
  ELSE LET some == {"bytes"} \cup IF Producers THEN {"stream"} ELSE {}
       IN  CASE t.stage = "head" -> some \cup {"null"}
             [] t.stage = "body" -> some \cup {"null"}
             [] t.stage = "response" -> some
             [] t.stage = "produce" -> {}

FinishTask(t) ==
  /\ Pool!Finish(t)
  /\ \E answer \in Answers(t) :
       job' = [job EXCEPT ![t] = [hook |-> "idle", response |-> answer,
                                  expired |-> @.expired \/ stream[t.id].late]]
  /\ UNCHANGED <<stream, count, session, conn, at, todo, shutdown>>

(***************************************************************************)
(* The clock.  A producer's stream is due with the application's deadline, *)
(* or when a chunk waits too long for the peer.                            *)
(***************************************************************************)
DuePasses(i) ==
  /\ i \in Live /\ ~stream[i].closed /\ ~stream[i].due
  /\ stream[i].started => stream[i].publication = "ready"
  /\ stream' = [stream EXCEPT ![i].due = TRUE]
  /\ UNCHANGED <<count, session, conn, pool, job, at, todo, shutdown>>

LatePasses(i) ==
  /\ i \in Live /\ ~stream[i].closed /\ stream[i].initialized /\ ~stream[i].late
  /\ stream[i].response # "bytes"
  /\ stream' = [stream EXCEPT ![i].late = TRUE, ![i].due = TRUE]
  /\ UNCHANGED <<count, session, conn, pool, job, at, todo, shutdown>>

SendStalls ==
  /\ conn.phase = "http2" /\ conn.send /\ ~conn.stalled
  /\ conn' = [conn EXCEPT !.stalled = TRUE]
  /\ UNCHANGED <<stream, count, session, pool, job, at, todo, shutdown>>

ShutdownDeadlinePasses ==
  /\ stop /\ ~overdue /\ overdue' = TRUE
  /\ UNCHANGED <<stream, count, session, conn, pool, job, at, todo, stop, stopping, features>>

Released == at = "idle" /\ conn.phase = "closed" /\ UNCHANGED vars

Init ==
  /\ stream = [i \in Id |-> New] /\ count = 0
  /\ session = [NoSession EXCEPT !.unsent = TRUE]      \* SETTINGS
  /\ conn = [phase |-> "http2", pending |-> 0, receive |-> FALSE, send |-> FALSE,
             cancel_receive |-> FALSE, cancel_send |-> FALSE, doomed |-> {}, stalled |-> FALSE]
  /\ Pool!Init /\ job = [t \in Task |-> NoJob]
  /\ at = "pump" /\ todo = {} /\ stop = FALSE /\ overdue = FALSE /\ stopping = FALSE
  /\ features \in Servers

Pump == pumpHttp2 \/ shutdownTls \/ drive \/ driveEnd \/ receiveEnd \/ output \/ outputEnd \/ rest

Next ==
  \/ Pump \/ pumpFails \/ terminate
  \/ \E i \in Id : \/ begin(i) \/ badHeader(i) \/ body(i) \/ end(i) \/ peerReset(i)
                   \/ \E ended \in BOOLEAN : headComplete(i, ended)
                   \/ DuePasses(i) \/ LatePasses(i)
  \/ \E op \in {"receive", "send"} : SocketDone(op)
  \/ \E op \in {"cancel_receive", "cancel_send"} : CancelDone(op)
  \/ Wake \/ \E t \in Task : takeCompletion(t) \/ completeFails(t)
  \/ \E t \in Task : StartTask(t) \/ flush(t) \/ runStream(t) \/ FinishTask(t)
  \/ SendStalls \/ beginShutdown \/ ShutdownDeadlinePasses \/ stopOperations
  \/ Released

Safe == Init /\ [][Next]_vars

\* Once it is canceled a producer returns; other hooks return anyway.
Thread(i) ==
  \E t \in Task : /\ t.id = i
                  /\ StartTask(t) \/ FinishTask(t) \/ (stream[i].closed /\ runStream(t))

\* Completions of tasks, of cancels and of canceled operations.
Reap ==
  \/ \E op \in conn.doomed : SocketDone(op)
  \/ \E op \in {"cancel_receive", "cancel_send"} : CancelDone(op)
  \/ \E t \in Task : takeCompletion(t)

\* A round of the loop goes on, the tick pumps a session nothing else pumps,
\* and completions that are there are reaped, whatever else the loop does.
\* Hooks return and time passes. The peer need not do anything.
Fairness ==
  /\ WF_vars(Pump) /\ WF_vars(Wake) /\ SF_vars(Reap)
  /\ \A i \in Id : WF_vars(Thread(i)) /\ WF_vars(DuePasses(i)) /\ WF_vars(LatePasses(i))
  /\ WF_vars(SendStalls) /\ WF_vars(ShutdownDeadlinePasses) /\ WF_vars(stopOperations)

Spec == Safe /\ Fairness

(***************************************************************************)
(* Properties                                                              *)
(***************************************************************************)
Operation == {"receive", "send", "cancel_receive", "cancel_send"}

\* The fields keep their types; what has been received and not credited fits
\* in the window, which is also the size of storage.body.
TypeOK ==
  /\ stream \in [Id -> Stream] /\ count \in 0 .. MaxStreams
  /\ \A i \in Id : /\ stream[i].body_len \in 0 .. Window /\ stream[i].task_body_len \in 0 .. Window
                   /\ stream[i].uncredited \in 0 .. Window /\ stream[i].held \in 0 .. 1
  /\ session \in [draining: BOOLEAN, closing: {"no", "start", "sent"}, terminal: BOOLEAN,
                  unsent: BOOLEAN, input: BOOLEAN, accepted: 0 .. MaxRequests]
  /\ conn.phase \in {"http2", "canceling", "closed"} /\ conn.pending \in Nat
  /\ conn.doomed \subseteq {"receive", "send"} /\ \A op \in Operation : conn[op] \in BOOLEAN
  /\ queued \subseteq Task /\ running \subseteq Task /\ done \subseteq Task
  /\ job \in [Task -> [hook: {"idle", "run", "skip"}, response: Response, expired: BOOLEAN]]
  /\ at \in {"idle", "pump", "drive", "receive", "redrive", "output", "shutdown", "rest"}
  /\ todo \subseteq Id /\ {stop, overdue, stopping} \subseteq BOOLEAN
  /\ features \in Servers

\* A task borrows its stream's request, body prefix and exchange until its
\* completion is taken: reset, abort, a deadline or a lost connection may
\* close the stream, but neither destroy it nor give it a second task.
Borrow ==
  /\ \A t \in Pool!Outstanding : t.id \in Live /\ stream[t.id].busy = t.stage
  /\ \A i \in Live : stream[i].busy # "none" => [id |-> i, stage |-> stream[i].busy] \in Pool!Outstanding

\* connection.pending counts each operation, each cancel and each task once,
\* so that finishClose releases the session after the last of them.
PendingExact ==
  conn.phase # "closed" =>
    conn.pending = Cardinality({op \in Operation : conn[op]}) + Cardinality(Pool!Outstanding)

\* A stream holds one permit from its decision until destroy, whichever way it ends.
PermitExact ==
  \A i \in Id : stream[i].held = One(i \in Live /\ stream[i].permit \in {"admit", "reject"})

\* Streams are counted until they are destroyed, and a released session has none.
CountExact == count = Cardinality(Live) /\ (conn.phase = "closed" => count = 0)

\* The fields keep their types and every count its meaning: operations and
\* tasks in flight, permits and live streams are each counted once, from the
\* first moment to the last (http2.zig 618, worker.zig 3900).
AccountsExact == TypeOK /\ PendingExact /\ PermitExact /\ CountExact

\* The peer gets back the credit of what the application consumed, no more
\* and no less: a stream that is still being read has a window smaller by
\* what is buffered. The prefix a running hook reads is never given back.
WindowExact ==
  \A i \in Live :
    ~stream[i].closed /\ stream[i].response = "null" =>
      /\ stream[i].uncredited = stream[i].body_len
      /\ stream[i].busy = "body" => stream[i].task_body_len \in 1 .. stream[i].body_len

\* complete() meets the `unreachable` of a response task only if the task
\* returned nothing although it neither expired nor was canceled.
CompleteDefined ==
  \A t \in done : t.stage = "response" /\ ~stream[t.id].closed => job[t].expired \/ job[t].response # "null"

\* engine.resumeBody fails, and takes the whole connection down, if nghttp2
\* does not hold a deferred body of the stream: response_deferred says it does.
ResumeDefined ==
  \A i \in Live : stream[i].deferred /\ ~stream[i].closed => stream[i].open /\ stream[i].out = "deferred"

\* No `unreachable` of complete() is met, and no call of the engine fails
\* that the session cannot survive.
CallsDefined == CompleteDefined /\ ResumeDefined

\* A producer's stream that has no task any more and is not reset has a settled
\* publication: nghttp2 does not wait for a chunk that nobody writes.
StreamSettled ==
  \A i \in Live : stream[i].started /\ stream[i].busy = "none" /\ ~stream[i].closed
                    => stream[i].publication \in {"finished", "failed"}

\* Whatever the peer does, a stream that was begun is destroyed: a deadline
\* covers each of its phases. And a session told to drain is released: after
\* its last stream, or by the deadline of a send or of the shutdown.
SessionSettles ==
  \A i \in Id : []<>(i \notin Live /\ (stop => conn.phase = "closed"))
=============================================================================

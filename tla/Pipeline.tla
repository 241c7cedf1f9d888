----------------------------- MODULE Pipeline ------------------------------
(***************************************************************************)
(* Pipelined HTTP/1 requests on plaintext connections of one event loop    *)
(* that runs the built-in application itself (server/worker.zig with       *)
(* can_batch, server/ResponseBatch.zig, server/BufferPool.zig): several    *)
(* requests per receive, small responses aggregated into batches, and what *)
(* requests lease from the worker: admission permits, request storage,     *)
(* batches, and large buffers charged to one byte budget.                  *)
(*                                                                         *)
(* The received bytes are a sequence of tokens: complete requests by what  *)
(* they need of the worker, the rest of a body, and the fragment of a head *)
(* that ends a receive. A response is ResponseSize bytes long. Buffers are *)
(* blocks of one size. Clock and token buckets are nondeterministic.       *)
(***************************************************************************)
EXTENDS Integers, Sequences, FiniteSets, TLC

CONSTANTS
  Conn,          \* connections
  None,
  MaxActive, MaxRejecting,  \* Admission.Options
  Share,         \* permits per connection below which nothing is aggregated (4)
  BatchLimit,    \* responses per batch, and coalesced by MSG_MORE (16)
  Batches,       \* batches.len
  LargeBuffers,  \* large_buffer_bytes, in blocks
  MaxRequests,   \* bound: requests a peer sends on one connection
  MaxTokens      \* bound: tokens in one receive

ASSUME PipelineAssumption ==
  /\ None \notin Conn /\ IsFiniteSet(Conn)
  /\ {MaxActive, MaxRejecting, Share, BatchLimit, MaxRequests, MaxTokens} \subseteq Nat \ {0}
  /\ {Batches, LargeBuffers} \subseteq Nat

ResponseSize == 2
Buffer == {"head", "receive", "application", "output"}
\* plain: a small request and response. wide: its head and its response need
\* large buffers. body: its body needs large buffers and more receives.
\* close: asks to close. bad: the parser refuses it. part: the fragment of a
\* head. rest: the rest of a body.
Request == {"plain", "wide", "body", "close", "bad"}
Token == Request \cup {"part", "rest"}

VARIABLES
  conn,
  active, rejecting,   \* Admission
  batches,             \* batches on free_batch
  bytes,               \* buffer_bytes_active
  at,                  \* the connection whose processInput loop runs
  draining

vars == <<conn, active, rejecting, batches, bytes, at, draining>>

NoBatch == [ids |-> <<>>, sent |-> 0, completed |-> 0, sending |-> FALSE,
            resume |-> FALSE, more |-> FALSE]
NoResponse == [id |-> 0, wide |-> FALSE, left |-> 0]

Closed ==
  [open |-> FALSE, phase |-> "canceling", receive |-> FALSE, send |-> FALSE,
   input |-> <<>>,          \* receive_buffer[receive_start..receive_end]
   started |-> FALSE, parser |-> "head", asked |-> 0, served |-> FALSE,
   permit |-> "none", lease |-> FALSE, large |-> {},
   closing |-> FALSE, interim |-> FALSE, response |-> NoResponse, batch |-> NoBatch,
   more |-> FALSE, more_count |-> 0,
   held |-> FALSE,          \* external: TCP holds bytes sent with MSG_MORE
   wire |-> <<>>]           \* the responses sent, in order

\* The functions of worker.zig are operators on this record.
Worker == [conn |-> conn, active |-> active, rejecting |-> rejecting,
           batches |-> batches, bytes |-> bytes, at |-> at]
Becomes(w) ==
  /\ conn' = w.conn /\ active' = w.active /\ rejecting' = w.rejecting
  /\ batches' = w.batches /\ bytes' = w.bytes /\ at' = w.at

hasBatch(w, c) == w.conn[c].batch # NoBatch
Leaves(w) == [w EXCEPT !.at = None]
processInput(w, c) == [w EXCEPT !.at = c]
ActiveConnections == Cardinality({c \in Conn : conn[c].open})
\* A complete head is among the bytes not yet parsed.
MoreInput(k) == k.input # <<>> /\ k.input[1] \notin {"part", "rest"}

(***************************************************************************)
(* Leases                                                                  *)
(***************************************************************************)
release(w, permit) ==
  [w EXCEPT !.active = IF permit = "admit" THEN @ - 1 ELSE @,
            !.rejecting = IF permit = "reject" THEN @ - 1 ELSE @]
releasePermit(w, c) == [release(w, w.conn[c].permit) EXCEPT !.conn[c].permit = "none"]

CanAdmit(w, tokens) == w.active < MaxActive /\ tokens
CanReject(w, rejections) == w.rejecting < MaxRejecting /\ rejections

acquireRejection(w, c, rejections) ==
  IF CanReject(w, rejections)
  THEN [w EXCEPT !.rejecting = @ + 1, !.conn[c].permit = "reject"]
  ELSE [w EXCEPT !.conn[c].permit = "close"]

acquire(w, c, tokens, rejections) ==
  IF CanAdmit(w, tokens) THEN [w EXCEPT !.active = @ + 1, !.conn[c].permit = "admit"]
  ELSE acquireRejection(w, c, rejections)

HasRoom(w, c, kind) == kind \in w.conn[c].large \/ w.bytes < LargeBuffers
ensureBuffer(w, c, kind) ==
  IF kind \in w.conn[c].large THEN w
  ELSE [w EXCEPT !.bytes = @ + 1, !.conn[c].large = @ \cup {kind}]

\* Input that is left, or a receive in the ring, keeps the receive buffer.
releaseBuffers(w, c, closing) ==
  LET k == w.conn[c]
      kept == IF ~closing /\ (k.receive \/ k.input # <<>>) THEN k.large \cap {"receive"} ELSE {}
  IN  [w EXCEPT !.bytes = @ - Cardinality(k.large \ kept), !.conn[c].large = kept]

\* Mutant: the permits of responses that were not sent are not returned.
abortBatchKeeps(w, c) ==
  IF ~hasBatch(w, c) THEN w
  ELSE [w EXCEPT !.batches = @ + 1, !.conn[c].batch = NoBatch]

abortBatch(w, c) ==
  LET b == w.conn[c].batch
  IN  IF ~hasBatch(w, c) THEN w
      ELSE [w EXCEPT !.active = @ - (Len(b.ids) - b.completed),
                     !.batches = @ + 1, !.conn[c].batch = NoBatch]

(***************************************************************************)
(* Closing                                                                 *)
(***************************************************************************)
finishClose(w, c) ==
  IF w.conn[c].receive \/ w.conn[c].send \/ ~w.conn[c].open THEN w
  ELSE [releasePermit(releaseBuffers(abortBatch(w, c), c, TRUE), c) EXCEPT !.conn[c] = Closed]

\* A connection that drains or is canceled keeps its leases and operations;
\* the rest of it, but for what was sent, is not looked at again.
Ends(w, c, phase) ==
  LET k == w.conn[c]
  IN  [w EXCEPT !.conn[c] =
        [Closed EXCEPT !.open = k.open, !.phase = phase, !.receive = k.receive, !.send = k.send,
                       !.permit = k.permit, !.lease = k.lease, !.large = k.large, !.batch = k.batch,
                       !.wire = k.wire]]

forceClose(w, c) == finishClose(Leaves(Ends(w, c, "canceling")), c)

prepareRequest(w, c) ==
  LET u == releaseBuffers(w, c, FALSE)
  IN  [u EXCEPT !.conn[c].lease = @ /\ u.conn[c].input # <<>>, !.conn[c].started = FALSE,
                !.conn[c].parser = "head", !.conn[c].closing = FALSE,
                !.conn[c].response = NoResponse]

(***************************************************************************)
(* Sending and receiving                                                   *)
(***************************************************************************)
queueBatch(w, c) ==
  LET k == w.conn[c]
      resume == k.phase = "writing"
      more == /\ ~resume /\ ~draining /\ k.permit # "close" /\ MoreInput(k)
              /\ Len(k.batch.ids) + k.more_count < BatchLimit
      first == [w EXCEPT !.conn[c].batch.sending = TRUE, !.conn[c].batch.resume = resume,
                         !.conn[c].batch.more = more, !.conn[c].more = more,
                         !.conn[c].more_count = IF more THEN @ + Len(k.batch.ids) ELSE 0,
                         !.conn[c].phase = "writing"]
  IN  Leaves([(IF k.batch.sending THEN w ELSE first) EXCEPT !.conn[c].send = TRUE])

\* Mutant: a receive does not push what MSG_MORE holds.
PushNothing(w, c) == w

\* TCP_NODELAY, set again, sends what MSG_MORE holds.
Push(w, c) ==
  IF ~w.conn[c].more THEN w
  ELSE [w EXCEPT !.conn[c].held = FALSE, !.conn[c].more = FALSE, !.conn[c].more_count = 0]

queueReceive(w, c) ==
  IF hasBatch(w, c) THEN queueBatch(w, c)
  ELSE Leaves([Push(w, c) EXCEPT !.conn[c].input = IF w.conn[c].receive THEN @ ELSE <<>>,
                                 !.conn[c].receive = TRUE])

\* The FIN also pushes.
drainConnection(w, c) ==
  queueReceive(Ends(w, c, "drain"), c)

Send(w, c) ==
  LET k == w.conn[c]
      more == /\ ~k.interim /\ ~k.closing /\ ~k.response.wide /\ MoreInput(k)
              /\ k.more_count < BatchLimit - 1
  IN  Leaves([w EXCEPT !.conn[c].send = TRUE, !.conn[c].more = more,
                       !.conn[c].more_count = IF more THEN @ + 1 ELSE 0])

\* The batch takes over the response's bytes and its permit.
Aggregate(w, c) ==
  LET k == w.conn[c]
      u == prepareRequest(
             [w EXCEPT !.batches = IF hasBatch(w, c) THEN @ ELSE @ - 1,
                       !.conn[c].batch.ids = @ \o <<k.response.id>>,
                       !.conn[c].permit = "none", !.conn[c].served = TRUE], c)
      v == [u EXCEPT !.conn[c].phase = "reading"]
  IN  IF MoreInput(k) /\ Len(v.conn[c].batch.ids) < BatchLimit
         /\ w.active + ActiveConnections < MaxActive
      THEN processInput(v, c) ELSE queueBatch(v, c)

\* Mutant: a response that cannot join the batch is sent at once.
queueSendOvertakes(w, c) ==
  LET k == w.conn[c]
  IN  IF k.interim \/ k.closing \/ k.permit # "admit" \/ k.response.wide \/ ~MoreInput(k)
         \/ k.response.left < ResponseSize \/ (~hasBatch(w, c) /\ w.batches = 0)
      THEN Send(w, c) ELSE Aggregate(w, c)

\* queueSend, with aggregate: a response that cannot join the batch waits for
\* the batch to be sent.
queueSend(w, c) ==
  LET k == w.conn[c]
      count == Len(k.batch.ids)
      unfit == \/ k.interim \/ k.closing \/ k.permit # "admit" \/ k.response.wide
               \/ k.response.left < ResponseSize \/ count = BatchLimit
               \/ count = 0 /\ ~MoreInput(k)
      alone == count = 0 /\ (unfit \/ w.batches = 0 \/ MaxActive < Share * ActiveConnections)
  IN  IF alone THEN Send(w, c) ELSE IF unfit THEN queueBatch(w, c) ELSE Aggregate(w, c)

(***************************************************************************)
(* Responses                                                               *)
(***************************************************************************)
Encoded(w, c, close, wide) ==
  queueSend([w EXCEPT
    !.conn[c].phase = "writing", !.conn[c].interim = FALSE,
    !.conn[c].closing = close \/ w.conn[c].parser # "complete" \/ draining,
    !.conn[c].response = [id |-> w.conn[c].asked, wide |-> wide, left |-> ResponseSize]], c)

\* Mutant: the close decision does not wait for the batch.
rejectCloses(w, c, rejections) ==
  LET u == IF w.conn[c].permit = "none" THEN acquireRejection(w, c, rejections) ELSE w
  IN  IF u.conn[c].permit = "close" THEN forceClose(u, c) ELSE Encoded(u, c, TRUE, FALSE)

\* Only a rejection that was just refused closes: after the batch, if any.
reject(w, c, rejections) ==
  LET u == IF w.conn[c].permit = "none" THEN acquireRejection(w, c, rejections) ELSE w
  IN  IF u.conn[c].permit # "close" THEN Encoded(u, c, TRUE, FALSE)
      ELSE IF hasBatch(u, c) THEN queueBatch(u, c)
      ELSE forceClose(u, c)

\* A wide response without budget becomes a 503 that closes.
startResponse(w, c, close, wide, rejections) ==
  IF ~wide THEN Encoded(w, c, close, FALSE)
  ELSE IF HasRoom(w, c, "output") THEN Encoded(ensureBuffer(w, c, "output"), c, close, TRUE)
  ELSE reject(w, c, rejections)

finishResponse(w, c) ==
  LET u == [w EXCEPT !.conn[c].served = TRUE]
  IN  IF u.conn[c].closing THEN drainConnection(u, c)
      ELSE processInput([prepareRequest(releasePermit(u, c), c) EXCEPT !.conn[c].phase = "reading"], c)

\* n bytes of the batch were sent.
sentBatch(w, c, n) ==
  LET b == w.conn[c].batch
      sent == b.sent + n
      completed == sent \div ResponseSize
      u == [w EXCEPT !.active = @ - (completed - b.completed),
                     !.conn[c].batch.sent = sent, !.conn[c].batch.completed = completed,
                     !.conn[c].wire = @ \o SubSeq(b.ids, b.completed + 1, completed),
                     !.conn[c].held = b.more]
      v == [u EXCEPT !.batches = @ + 1, !.conn[c].batch = NoBatch]
      k == v.conn[c]
  IN  IF sent < ResponseSize * Len(b.ids) THEN queueBatch(u, c)
      ELSE IF b.resume THEN queueSend(v, c)
      ELSE IF k.permit = "close" \/ (draining /\ ~k.started) THEN drainConnection(v, c)
      ELSE processInput([v EXCEPT !.conn[c].phase = "reading"], c)

\* n bytes of the current response, or of the interim one, were sent.
sent(w, c, n) ==
  LET k == w.conn[c]
      u == [w EXCEPT !.conn[c].response.left = @ - n, !.conn[c].held = k.more]
  IN  IF k.batch.sending THEN sentBatch(w, c, n)
      ELSE IF n < k.response.left THEN queueSend(u, c)
      ELSE IF k.interim
      THEN processInput([u EXCEPT !.conn[c].interim = FALSE, !.conn[c].phase = "reading",
                                  !.conn[c].response = NoResponse], c)
      ELSE finishResponse([u EXCEPT !.conn[c].wire = @ \o <<k.response.id>>], c)

(***************************************************************************)
(* processInput                                                            *)
(***************************************************************************)
\* The head of a request is complete and admitted.
Admitted(w, c, token, expect, rejections) ==
  LET u == ensureBuffer(w, c, "receive")
      v == [ensureBuffer(u, c, "application") EXCEPT !.conn[c].parser = "body"]
  IN  IF token # "body"
      THEN startResponse([w EXCEPT !.conn[c].parser = "complete"], c, token = "close",
                         token = "wide", rejections)
      ELSE IF ~HasRoom(w, c, "receive") \/ ~HasRoom(u, c, "application")
      THEN reject(IF HasRoom(w, c, "receive") THEN u ELSE w, c, rejections)
      ELSE IF ~expect THEN processInput(v, c)
      ELSE queueSend([v EXCEPT !.conn[c].interim = TRUE, !.conn[c].phase = "writing",
                               !.conn[c].response = [NoResponse EXCEPT !.left = ResponseSize]], c)

\* One event of the parser, fed with the next token.
Feed(w, c, tokens, rejections, expect) ==
  LET token == w.conn[c].input[1]
      u == [w EXCEPT !.conn[c].input = Tail(@)]
      v == acquire(IF token = "wide" THEN ensureBuffer(u, c, "head") ELSE u, c, tokens, rejections)
  IN  IF w.conn[c].input = <<>> THEN queueReceive(w, c)
      ELSE IF token = "part" THEN queueReceive(u, c)
      ELSE IF token = "rest"
      THEN startResponse([u EXCEPT !.conn[c].parser = "complete"], c, FALSE, FALSE, rejections)
      ELSE IF token = "bad" \/ (token = "wide" /\ ~HasRoom(u, c, "head"))
      THEN reject(u, c, rejections)
      ELSE CASE v.conn[c].permit = "close" -> forceClose(v, c)
             [] v.conn[c].permit = "reject" ->
                  Encoded([v EXCEPT !.conn[c].parser = IF token = "body" THEN "body" ELSE "complete"],
                          c, FALSE, FALSE)
             [] v.conn[c].permit = "admit" -> Admitted(v, c, token, expect, rejections)

\* Neither admission nor rejection has budget: send the batch, or close.
Exhausted(w, c) ==
  IF hasBatch(w, c) THEN queueBatch(w, c)
  ELSE forceClose([w EXCEPT !.conn[c].permit = "close"], c)

\* One turn of the loop. tokens, rejections: what the refilled buckets hold;
\* late: shutdown_keepalive_deadline has passed; storage: acquireRequest finds
\* or allocates request storage; expect: the head asks for 100 Continue.
ProcessInput ==
  /\ at # None
  /\ \E tokens, rejections \in BOOLEAN, late \in IF draining THEN BOOLEAN ELSE {FALSE},
        storage \in IF conn[at].lease THEN {TRUE} ELSE BOOLEAN,
        expect \in IF conn[at].input = <<"body">> THEN BOOLEAN ELSE {FALSE}:
       LET c == at
           k == conn[c]
           leased == [Worker EXCEPT !.conn[c].lease = TRUE]
           begun == IF k.started THEN leased
                    ELSE [leased EXCEPT !.conn[c].started = TRUE, !.conn[c].asked = @ + 1]
       IN  Becomes(
             IF ~k.started /\ k.input = <<>> THEN queueReceive(Worker, c)
             ELSE IF ~k.lease /\ ~storage THEN forceClose(Worker, c)
             ELSE IF ~k.started /\ draining /\ late
             THEN IF hasBatch(leased, c) THEN queueBatch(leased, c) ELSE drainConnection(leased, c)
             ELSE IF k.parser = "head" /\ ~CanAdmit(begun, tokens) /\ ~CanReject(begun, rejections)
             THEN Exhausted(begun, c)
             ELSE Feed(begun, c, tokens, rejections, expect))
  /\ UNCHANGED draining

(***************************************************************************)
(* Completions, deadlines, the peer                                        *)
(***************************************************************************)
\* external: what a peer may send next. Nothing follows the head of a body.
Inputs(k) ==
  LET room == MaxRequests - k.asked + (IF k.started THEN 1 ELSE 0)
  IN  {s \in UNION {[1 .. n -> Token] : n \in 1 .. MaxTokens} :
         /\ Len(s) <= room
         /\ \A n \in 1 .. Len(s) :
              /\ s[n] = "rest" <=> n = 1 /\ k.parser = "body"
              /\ s[n] \in {"body", "part"} => n = Len(s)}

Received(c) ==
  LET k == conn[c]
      w == [Worker EXCEPT !.conn[c].receive = FALSE]
  IN  /\ at = None /\ k.receive
      /\ CASE k.phase = "canceling" -> Becomes(finishClose(w, c))
           [] k.phase = "drain" -> \E u \in {queueReceive(w, c), forceClose(w, c)} : Becomes(u)
           [] k.phase = "writing" -> \E u \in {w, forceClose(w, c)} : Becomes(u)
           [] k.phase = "reading" ->
                \/ \E s \in Inputs(k): Becomes(processInput([w EXCEPT !.conn[c].input = s], c))
                \/ Becomes(forceClose(w, c))
                \/ k.started /\ \E rejections \in BOOLEAN:
                                  Becomes(reject([w EXCEPT !.conn[c].parser = "invalid"], c, rejections))
      /\ UNCHANGED draining

Sent(c) ==
  LET k == conn[c]
      w == [Worker EXCEPT !.conn[c].send = FALSE]
      left == IF k.batch.sending THEN ResponseSize * Len(k.batch.ids) - k.batch.sent
              ELSE k.response.left
  IN  /\ at = None /\ k.send
      /\ IF k.phase = "canceling" THEN Becomes(finishClose(w, c))
         ELSE \/ \E n \in 1 .. left: Becomes(sent(w, c, n))
              \/ Becomes(forceClose(w, c))
      /\ UNCHANGED draining

\* tick, for a connection whose deadline has passed. The receive that a 408
\* cancels completes later, in Received.
Expired(c) ==
  LET k == conn[c]
  IN  /\ at = None /\ k.open /\ k.phase # "canceling"
      /\ CASE k.phase = "drain" -> Becomes(forceClose(Worker, c))
           [] k.phase # "drain" /\ ~k.started /\ ~hasBatch(Worker, c) ->
                Becomes(IF draining /\ k.served THEN drainConnection(Worker, c)
                        ELSE forceClose(Worker, c))
           [] k.phase = "reading" /\ k.started ->
                \E rejections \in BOOLEAN : Becomes(reject(Worker, c, rejections))
           [] k.phase = "writing" /\ (k.started \/ hasBatch(Worker, c)) ->
                Becomes(forceClose(Worker, c))
      /\ UNCHANGED draining

Accept(c) ==
  /\ at = None /\ ~conn[c].open /\ ~draining
  /\ Becomes(queueReceive([Worker EXCEPT !.conn[c] =
       [Closed EXCEPT !.open = TRUE, !.phase = "reading"]], c))
  /\ UNCHANGED draining

\* A connection between requests, which has only a receive in the ring, is
\* canceled, or keeps it for a last request (keep: shutdown_keepalive_ms # 0).
\* The others close after their response.
beginShutdown ==
  /\ at = None /\ ~draining
  /\ draining' = TRUE
  /\ \E keep \in BOOLEAN:
       conn' = [c \in Conn |->
         LET k == conn[c]
             idle == k.open /\ k.phase = "reading" /\ ~k.started /\ ~(k.served /\ keep)
         IN  IF idle THEN Ends(Worker, c, "canceling").conn[c] ELSE [k EXCEPT !.closing = k.open]]
  /\ UNCHANGED <<active, rejecting, batches, bytes, at>>

\* No connection is left: the loop stops.
Stopped == draining /\ (\A c \in Conn : ~conn[c].open) /\ UNCHANGED vars

Init ==
  /\ conn = [c \in Conn |-> Closed]
  /\ active = 0 /\ rejecting = 0 /\ batches = Batches /\ bytes = 0
  /\ at = None /\ draining = FALSE

Next ==
  \/ ProcessInput \/ beginShutdown \/ Stopped
  \/ \E c \in Conn : Received(c) \/ Sent(c) \/ Expired(c) \/ Accept(c)

Spec == Init /\ [][Next]_vars

Symmetry == Permutations(Conn)

(***************************************************************************)
(* Properties                                                              *)
(***************************************************************************)
Total(f) == LET sum[S \in SUBSET Conn] ==
                  IF S = {} THEN 0 ELSE LET c == CHOOSE c \in S : TRUE IN f[c] + sum[S \ {c}]
            IN  sum[Conn]
One(b) == IF b THEN 1 ELSE 0

\* What connections lease from the worker is accounted for exactly, whatever
\* order responses, flushes, failures and closes come in: every admission
\* permit belongs to one connection's request or to one batched response that
\* is not completed, every batch to one connection, and every large block to
\* one connection, within large_buffer_bytes (ensureBuffer subtracts without a
\* check). A large head buffer is reached through the request storage, so it
\* is held only while that is.
LeasesExact ==
  /\ active = Total([c \in Conn |-> One(conn[c].permit = "admit")
                       + Len(conn[c].batch.ids) - conn[c].batch.completed])
  /\ rejecting = Total([c \in Conn |-> One(conn[c].permit = "reject")])
  /\ active <= MaxActive /\ rejecting <= MaxRejecting
  /\ batches = Batches - Cardinality({c \in Conn : conn[c].batch # NoBatch}) /\ batches >= 0
  /\ bytes = Total([c \in Conn |-> Cardinality(conn[c].large)]) /\ bytes <= LargeBuffers
  /\ \A c \in Conn : "head" \in conn[c].large => conn[c].lease

\* The responses a connection has sent are those of its first requests, each
\* once and in the order of the requests: a response that cannot join the
\* batch (aggregate) never overtakes it, and one that was batched is not sent
\* again.
ResponsesInOrder ==
  \A c \in Conn : conn[c].wire = [n \in 1 .. Len(conn[c].wire) |-> n]

\* Between two handlers, bytes that TCP holds back because they were sent with
\* MSG_MORE are followed by a send: a connection never waits for its peer with
\* a response held back, and never with a batch that is not being sent.
NothingHeld ==
  at = None => \A c \in Conn :
    /\ conn[c].held => conn[c].send \/ conn[c].phase = "canceling"
    /\ conn[c].batch # NoBatch => conn[c].send \/ conn[c].phase = "canceling"

\* Whatever processInput finds in the rest of the input, a request that is
\* refused, exhausted budgets or a shutdown, it does not cancel a connection
\* whose batch holds admitted responses: they are sent first.
BatchOutlives ==
  [][ \A c \in Conn : at = c /\ conn[c].batch # NoBatch => conn'[c].phase # "canceling" ]_vars
=============================================================================

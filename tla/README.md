# TLA+ models of zhtps

zhtps is an HTTP server on io_uring. Each worker thread runs an event loop that
owns its connections; hooks of an isolated application run on a shared pool of
threads. This directory holds models of its concurrent parts, the TLC runs that
check them, and TLAPS proofs. `PROJECT.json` lists the components, the runs, the
source lines behind every definition, the hazards and the theorems.

    tlc -workers 2 -config Connections.cfg Connections
    tlapm AdmissionProofs.tla

Paths below are relative to `src/src/`.

## The system

| Part | State | Operations that change it | Interacts with |
|---|---|---|---|
| Event loop and connections, `server/worker.zig` | connection table, ring operations pending, phase of each connection, permits, deadlines, shutdown flags | `acceptConnection`, `received`, `processInput`, `submitApplication`, `finishApplications`, `startResponse`, `sent`, `finishResponse`, `forceClose`, `finishClose`, `tick`, `beginShutdown`, `stopOperations`, `quiesce`, `deinit` | kernel (completions in any order), executor, admission, parser, response stream |
| Application executor, `server/worker.zig` 413-677 | bounded queue per lane, threads, completion ring and eventfd per worker | `start`, `submit`, `takeTask`, `threadMain`, `notify`, `takeCompletion`, `stop` | every event loop |
| Response stream, `endpoint/ResponseStream.zig` | buffer, publication, mutex, condition | `drain`, `flush`, `finish`, `fail` (producer); `consume`, `cancel` (loop) | producer thread, event loop |
| Admission, `Admission.zig` | two token buckets, two populations, last refill | `acquire`, `acquireRejection`, `release`, `refill`, `exhausted` | HTTP/1 and HTTP/2 request heads, `tick` |
| Slot table, `server/worker.zig` | free lists, `active_slots`, idle list, `waiting_accept` | `queueAccept`, `acceptConnection`, `queueIdle`, `removeIdle`, `freeSlot` | accept, tick, close |
| Response batches, `server/ResponseBatch.zig` | batched responses with their permits | `append`, `queueBatch`, `sentBatch`, `abortBatch` | pipelined requests of the built-in application |
| Buffer budget, `server/BufferPool.zig`, `server/worker.zig` 1089-1354 | leases and caches | `acquireRequest`, `ensureBuffer`, `releaseRequest` | requests, streams |
| HTTP/2, `server/http2.zig`, `http2.zig` | sessions, streams, body windows | `begin`, `body`, `advance`, `complete`, `produce`, `destroy` | nghttp2, executor, admission |
| TLS, `Tls.zig` | handshake and shutdown phases | `receivedTls`, `sentTls` | OpenSSL, connections |
| Logger, `Logger.zig`, `Logger/VictoriaLogs.zig` | bounded queue, owner of the descriptor, sender batches | `emit`, `queueLog`, `releaseLog`, `consume`, `drain` | all workers |
| Inspection, `server/worker.zig` 3118-3163 | one request at a time across workers | `inspectConnections`, `captureInspection`, `finishInspections` | worker 0 and the others |
| Server, `server.zig` | workers, ready barrier, abort flag | `serve`, `workerMain`, `requestStop` | everything |
| Pure parts | none | parser framing, path normalisation, conditional requests, routing, dates, configuration limits | |

What is hard about it: kernel completions arrive in any order with respect to
each other, to the executor's completions and to the timer; a cancellation and
the operation it cancels complete independently; connection storage is lent to
the kernel and to application threads, and a slot is reused as soon as both have
given it back; a deadline can pass between any two steps; graceful shutdown runs
while all of this goes on, and the loop can fail in the middle of it.

## Modules

| Module | Models | Run by |
|---|---|---|
| `Connections` | one worker's HTTP/1 connections, isolated application | `Connections.cfg`, `ConnectionsLive.cfg` |
| `Pipeline` | pipelined requests of the built-in application: batches, permits, buffers | `Pipeline.cfg` |
| `SlotTable`, `Slots`, `MCSlots` | the slot table of one event loop and the operations on it; the loop that calls them | `MCSlots.cfg` |
| `Http2` | one HTTP/2 connection: its session, streams and pump | `Http2.cfg`, `Http2Live.cfg` |
| `TaskPool` | what the executor promises: a task is queued, runs, is done, is taken, once each | refinement target of `Executor`, component of `Connections` and `Http2` |
| `Executor`, `MCExecutor` | the executor at the grain of its critical sections | `MCExecutor.cfg` |
| `ResponseStream` | the publication handshake, one atomic access per step | `ResponseStream.cfg`, `ResponseStreamWake.cfg` |
| `Admission` | token buckets in u64 arithmetic, their callers and `tick` | `Admission.cfg`, `AdmissionStale.cfg` |
| `Server`, `MCServer` | one call of `serve`: workers, senders, shared log, inspection | `MCServer.cfg` |
| `AdmissionProofs`, `ExecutorProofs`, `ResponseStreamProofs` | theorems about the module of that name | `tlapm` |
| `ServerProofs` | theorems about `Server`: inspection, life cycle, log | `tlapm` |
| `SlotTableProofs` | lemmas about `SlotTable`: its lists under every operation; accepting | `tlapm` |
| `SlotStepProofs`, `SlotsProofs` | the steps of `Slots` and the theorems about it | `tlapm` |

`Connections`, `Pipeline` and `Slots` look at the same event loop from three
sides. `Connections` keeps everything one connection does with an application on
other threads; `Pipeline` everything several requests in one receive do to the
worker's shared leases; `Slots` everything connections do to each other through
the table, with their requests reduced to the calls they make on it. The
executor composes with the first and with `Http2` through `TaskPool`, its
contract.

### Connections

A connection is a record with the fields of `Connection` that control depends on.
The functions of `worker.zig` that only change one connection are operators on
that record (`forceClose`, `finishClose`, `startResponse`, `finishResponse`,
`pumpResponseStream`, ...); where the outcome depends on input, on a budget or on
the application they return the set of records they may leave. Actions are the
completions the loop handles (`Accept`, `ReceiveDone`, `SendDone`, `CancelDone`,
`Tick`, `Event`), the iterations of `processInput` (`BeginRequest`, `FeedHead`,
`FeedBody`, `FeedEnd`), the loops of `finishApplications` and `tick`
(`takeCompletion`, `Pump`, `Sweep`), the threads (`StartTask`, `flush`,
`runStream`, `FinishTask`), shutdown and failure. `mode` and `at` keep the loop
serial: between two of its steps only threads, kernel, clock and peer act.

Data: request bytes are the parser's phase and whether input is left over.
Deadlines are the facts that they have passed (`due`, `late`, `overdue`), which
become true at any moment, so every order of a timeout and another event occurs.
A fatal error of the ring stops the loop between any two steps. The stop
condition is looked at after every handler: a batch of completions is one
completion, and since deadlines pass at any time a larger batch adds no order
here. Where it matters, in the table, `Slots` has batches.

Bounds. One slot: connections share nothing but the serial loop, the executor,
which `TaskPool` does not bound, and admission, which here answers either way.
Two generations are enough for a task to outlive its connection and meet the next
one. `features`, chosen by `Init`, says which of streams, bodies and keepalive the
peer and the application use; `connections` has two sets of them and ring
failures, `connections_live` one generation and {streams, bodies},
{keepalive, bodies}. All three at once were checked too (189,754 states).

Fairness: the loop keeps handling what is ready (`Handler`, weak); a completion
the kernel owes comes (`Reap`, strong: other handlers are interleaved), which the
kernel guarantees for canceled and for shut-down sockets only, and which is
assumed for no other; hooks return (documented as required in `server.zig` 246:
serve waits for them); clocks pass deadlines; the timer keeps ticking.

### Pipeline

The built-in application runs on the event loop, so a receive may answer several
requests in a row. Received bytes are a sequence of tokens: complete requests by
what they need of the worker, the rest of a body, and the fragment of a head that
ends a receive. `at` is the connection whose input `processInput` is working
through; one iteration of its loop is one step. `aggregate`, `flush`, `queueBatch`,
`sentBatch` and `abortBatch` keep the code's structure; a send may stop anywhere
between two responses or inside one. `wire` is the history of responses sent, up
to the one that closes the connection.
`held` says that the kernel keeps bytes back because of `MSG_MORE`.

Admission's clock and buckets answer either way, so a request may be refused at
any point; the concurrency limits are exact. Sizes are abstracted: a response is
`ResponseSize` bytes, a batch is limited by its number of responses, a large
buffer is one block. Left out: a failing `setsockopt` in `queueReceive`, and
responses of the built-in application that do not validate, which it does not
produce.

Bounds. Two connections compete for four permits, one batch and two large blocks:
each is short at some point, and `Share` is small enough that the rule about
permits per connection decides both ways. Three requests and two tokens per
receive let a response meet a batch that is full, absent, or being sent. The
instance with three tokens per receive was checked as well (3,372,526 states).

### Slots

`SlotTable` has the functions of the code as operators from a table to a table,
and `Slots` the loop that applies them to its variables. The table is modelled
field by field: free lists, `active_slots` with `active_position`, the idle
list's links, the listeners' accept operations and retry times, `waiting_accept`. `pc` follows the loop: queue the accepts, collect a
batch of at most `Budget` completions, dispatch them one by one, walk the active
slots in `tick`, sweep the table slot by slot in `beginShutdown` and
`stopOperations`, fail, quiesce, `deinit`. Completions join a batch in any order,
and a batch may hold two of the same connection. What a connection does with its
requests is reduced to reading, writing, draining and canceling.
Descriptors are finite; `open` counts the accepts that returned a descriptor less
its closes, so a double close or a leak shows. Clock readings are arbitrary,
except that the deadline of the waiting descriptor stays passed. There is no
fairness: the properties are safety.

Bounds. Two public slots, two listeners that share them, three descriptors and
batches of two: the third descriptor waits, a slot is reclaimed for it, and the
other listener, a close or a shutdown interferes. A further instance had one
public and one admin slot and all three listeners (2,081,111 states).

`tick` walks `active_slots` downwards, so that a removal by swapping would move a
slot that it has already visited. In the model no removal meets the walk: every
connection it closes has an operation in the ring and is removed when that
completes. The one connection without an operation, an admin connection that
waits for another loop's page (phase `inspecting`), is not in `Slots`. What
`SlotsExact` shows is that the array is exact before and after each step of the
walk, in whatever order connections were removed between two walks.

`WaitingServed` is about slots that are free, not about who gets them: while a
descriptor waits `queueAccept` starts no redirect accept, but one that is already
in the ring may take the slot that was reclaimed, in the code as in the model.

### Http2

One connection that speaks HTTP/2. A stream is a record, and each function of
`server/http2.zig` that changes one is an operator to the set of records it may
leave: `advance`, `respond`, `complete`, `driveStream` and so on. `at` follows one
round of `pumpHttp2`: drive the streams, receive frames, drive again, produce
output, queue operations. Threads, clocks and the kernel act between any two of
these steps. The loop of up to 64 rounds is modelled by further pumps.

nghttp2 is external. Of its view of a stream the model keeps whether it knows the
stream, what it has to send for it (`out`, `rst`) and how much window is not
credited. TLS is external too: plaintext goes through, an error closes, and
`close_notify` is one send. A send that takes several calls is one send, since its
pump queues the rest before anything else looks.

Bounds. `Last` streams are opened; `http2` has one with a window of two units, so
that a body arrives while a hook consumes its prefix, and takes producers and
shutdown one at a time. Two streams at once are
beyond TLC here; they share only `count`, the connection's `pending` and the
serial loop. A refusal for `max_streams_per_worker` is possible at any `begin`,
since the worker's other connections are not modelled. `http2_live` takes
the same servers, without bodies. With one request it was
checked with both together (1,656,516 states), and with bodies and one of them
(1,358,176 states).

Fairness: a round goes on and the tick pumps a session nothing else pumps (weak);
completions of tasks and of canceled operations are reaped (`Reap`, strong, since
pumps are interleaved); hooks return, a producer once it is canceled; time passes.
The peer need not read, write or grant any window. A receive that was not
canceled need not return.

One behaviour worth knowing: `beginShutdown` pumps every session, whatever its
connection's phase (`worker.zig` 4112-4117). If the connection is already being
canceled and waits for a hook, the pump queues a new receive that nothing cancels
until `stopOperations`. With a silent peer the connection then stays until the
shutdown deadline instead of closing when the hook returns; `SessionSettles` holds
because of that deadline.

### Executor

One worker has two tasks on a lane of two threads with a queue of length one, so
that `submit` meets a full queue, the condition variable has two waiters to choose
from and one wakeup may stand for two completions; another worker only stops or
fails. Lanes share only the rings, which two threads of a lane already contend for;
the proofs cover any number of workers, lanes, threads and tasks. Critical sections
are single steps; `Publish` and `notify` are separate, as are the wait and the
wakeup of the condition variable, spurious wakeups included. Eventfd writes that
meet a pending one are merged. `PoolSpec` is `TaskPool`'s specification, fairness
included, under the mapping of `INSTANCE TaskPool WITH`: `queued` is what the lane
queues hold, `running` what threads hold, `done` what the rings hold. Fairness:
running threads are scheduled, the kernel completes a readable eventfd read, a
loop that has a completion to take takes it.

### ResponseStream

The producer writes, publishes, notifies and waits under the mutex; the loop
reads the atomics without it, sends, consumes and cancels. The payload is the
byte's number, so order, loss and repetition are visible. Capacity two and four
bytes make the producer wrap the buffer twice with partial sends. `WakeFails`
lets the eventfd write fail.

### Admission

Widths are a constant (`MaxU64`), so small instances reach saturation. `clock` is
the monotonic clock; the code's reads of it are the guards' `now`. `Isolated`
says whether `finishApplications` can admit inside `tick`, between the time that
`tick` reads and the refill it makes with it. `spent`, `rewound` and the like are
history variables that nothing but the properties reads.

### Server

`serve` is a sequence of steps with its defers unwound in reverse order: start
the metrics push, the log sender and the executor, spawn threads 1 to n - 1, run
worker 0 in the calling thread, join, stop, finish. `thread[w]` follows
`workerMain`: pin, report ready, wait at the barrier, check the flags, loop,
quiesce, release the log, restore the affinity. `faults` says which of these may
fail: a start, a spawn, pinning, the loop, restoring, a log write, the sender.

A loop's top decides about shutdown and queues a log write; between two tops it
handles a tick, the completion of the log write or some completion that may emit
a record. A record is two units long, so that a short write cuts it. `logOwner`
is the atomic claim on the descriptor. With a VictoriaLogs sender the descriptor
is a pipe and writes are atomic (at most `PIPE_BUF`); the sender reads, posts, and
at the end drains the queues until its deadline. An inspection is a mailbox per
worker, each handler one step, as its state is exchanged by acquire and release
accesses of one atomic.

Left out: the page's start index (the target worker is kept), `stopListening`
(a listener whose worker was never spawned stays open until `deinit`), the check
against a second `serve`, the check of the CPU list. An event that
meets a full queue is dropped and counted by `emit`, and is no record here.

Bounds: five configurations. Three workers with every fault of start, spawn,
pin, loop and restore, stopped through `requestStop` or through the flag `run` is
given; two workers with a pipe, and two with a file, each with loop and write or sender faults; three
workers that inspect. Queues, batches and the pipe hold two records, worker 0
emits two and the others one, so a queue has one record in a batch and one behind
it. One admin slot with two generations meets its predecessor's page.

Fairness: `serve`, start and exit of a worker, the loop's top, `stopOperations`,
the handling of a completed write and the sender proceed (weak). A *canceled* write
completes, as the kernel promises; a write that was not canceled may never end.
Nobody has to stop, fail, log or connect.

Two behaviours worth knowing, both visible in the properties as exceptions. In
file mode a record may stay cut when its worker has left its loop or lost the
descriptor to an error; `docs/observability.md` 160-163 says that the logger
"retains ownership across partial writes, preserving whole JSON records", which
holds while the loop runs. After a loop failure, `quiesce` discards the completion
of the log write, so records that were written may be sent again by the final
drain.

## Runs

| Run | Checks | Result |
|---|---|---|
| `connections` | storage borrowed by a task stays alive, through loop failure and `deinit` (`Borrow`); operations and permits are counted exactly (`AccountsExact`); results are unwrapped only when present (`UnwrapDefined`); no parsing of a buffer the kernel owns (`ParserOwnsInput`); publications settle (`StreamSettled`); the next request starts at a head (`NextRequest`) | holds, 1,308,996 states |
| `connections_live` | every started request and every close ends, and so does a shutdown (`EverythingEnds`) | holds, 222,196 states |
| `pipeline` | permits, batches, request storage and large blocks are accounted for exactly (`LeasesExact`); each response is sent once, in request order (`ResponsesInOrder`); no connection waits for its peer with bytes held back (`NothingHeld`); admitted responses survive what follows them in the input (`BatchOutlives`) | holds, 711,564 states |
| `slots` | the lists and the table agree (`SlotsExact`); every accepted descriptor has one owner and is closed once (`DescriptorsOwned`); a descriptor waits only while every slot is taken (`WaitingServed`); reclaim takes no connection whose next request has arrived (`ReclaimProtects`) | holds, 2.02 million states |
| `http2` | a task's stream stays alive and has no second task (`Borrow`); operations, permits and streams are counted exactly (`AccountsExact`); credit returned is what was consumed (`WindowExact`); `complete` meets no `unreachable` and only deferred bodies are resumed (`CallsDefined`); publications settle (`StreamSettled`) | holds, 1,963,521 states |
| `http2_live` | every stream ends and a stopped session is released (`SessionSettles`) | holds, 520,417 states |
| `executor` | ring never full (`CompletionRoom`), no lost signal (`NoMissedSignal`), no unannounced completion (`CompletionAnnounced`); refinement of `TaskPool` with fairness (`PoolSpec`); tasks come back and threads end (`EveryTaskReturns`, `StopTerminates`) | holds, 33,258 states |
| `response_stream` | bytes go out in order (`InOrder`), `consume` meets its assertion (`ConsumeDefined`), publications are noticed (`PublicationSeen`), no lost signal (`NoMissedSignal`); a canceled producer returns (`CancelReturns`) | holds, 3,668 states |
| `response_stream_wake` | `ConsumeDefined` with an eventfd that cannot be written | violated |
| `admission` | with an isolated application: spending is covered by burst, rate and rewound time (`RateKept`); u64 arithmetic is exact (`ArithmeticExact`) | holds, 669,192 states |
| `admission_stale` | `RateBound`, the rate limit itself, with an isolated application | violated |
| `server` | what workers borrow outlives them and `serve` leaves nothing running (`BorrowedOutlives`); records are not mixed (`WholeRecords`) and are sent or counted once (`RecordsOnce`); a page reaches its requester only (`InspectionReply`); startup and shutdown complete (`ServeReturns`) | holds, 417,265 states |

Every run takes less than three minutes on two cores. Slots and Pipeline use
symmetry, of descriptors and of connections; neither checks liveness.

The two violations are disagreements between the code and its own text:

- `tick` refills with the time it read before `finishApplications`
  (`worker.zig` 3936-3940). If a completion handled there admitted a request at a
  later time, `refill` moves `last_refill_ns` back and the interval is credited
  again. `Admission.zig` 86 says that backwards time adds no credit; the rewind
  itself adds none, the refill after it does. `RateKept` says by how much.
- `flush` publishes before it notifies (`ResponseStream.zig` 52-59). If the
  eventfd write fails, the producer ends the stream as failed while the loop,
  woken by its timer, may be sending the chunk; `consume` then runs against its
  assertion (line 73).

## Proofs

`AdmissionProofs` proves, for every rate, burst, limit and width that satisfies
`AdmissionAssumption`:

- `TypeCorrect`: balances never exceed their buckets, populations their limits;
- `CreditCorrect`: tokens spent and still held are covered by burst, elapsed and
  rewound time;
- `RateKeptCorrect`: the property `RateKept` of the run `admission`;
- `RateLimited`: `RateBound` when the application is not isolated;
- `RefillCorrect`: saturating arithmetic yields the exact capped balance and no
  intermediate value leaves u64 (`ArithmeticExact`).

The inductive invariant is `TypeOK /\ CreditBound /\ Reads`, where `Reads` says
that the times the code holds are not in the future and, without isolation, that
nothing is rewound: `RateBound` alone is not inductive because the credit that
the next refill will give depends on how far `last_refill_ns` is behind the
clock. `refill`, spending and rejecting are a lemma each; multiplication enters
through one lemma about products (`Product`).

`ExecutorProofs` proves, for any workers, lanes, threads and tasks under
`ExecutorAssumption` (each lane has a thread and a queue, which `init` checks at
`worker.zig` 475; finitely many tasks):

- `TypeCorrect`, `RoomCorrect`, `SignalCorrect`, `AnnounceCorrect`: the invariants
  of the run `executor`;
- `ImplementsPool`: every step is a step of `TaskPool` or leaves its state alone,
  so the contract `Connections` relies on holds whatever the executor's size.

The inductive invariant adds `Placed` (no task is twice in a queue or ring, each
is in its lane and its owner's ring, at most one thread runs it, and the three
places are disjoint) and `Stopped` (lanes stop only after serving, threads exit
only from stopping lanes). `CompletionRoom` follows because a sequence without
repetition is no longer than the set it draws from (`InjectiveLength`).

`ResponseStreamProofs` proves `TypeOK`, `InOrder`, `ConsumeDefined`,
`PublicationSeen` and `NoMissedSignal` for every `Capacity` and `Total`, under
`~WakeFails`: an eventfd that can be written, the case `response_stream_wake` is
about being the other. The inductive invariant splits into control and data.
`Locked`, `Published` and `Canceled` say who holds the mutex, what can be
published while the producer is where it is, and that a cancellation in progress
finds no producer past its last check. `Buffered` says that the buffer holds the
last `end` bytes written, `Copied` how many of them the loop has taken; `InOrder`
needs both, because whether the next byte copied is the right one depends on the
position of the buffer in the response.

`ServerProofs` is about every number of workers, every set of faults, every log
and every length of queues and batches under `ServerAssumption`. It has three
sections with an invariant each:

- The life cycle, `LifecycleInv`. Which of executor and senders run is a function
  of `serve`'s step (`RunningExact`); the threads that may still be active are
  those `serve` will join (`ThreadsCounted`), which is what makes it safe to stop
  anything after the joins; the sender is told to finish only then
  (`SenderOwned`); a failure is the result (`ResultExact`).
- The log, `LoggingInv`. A write in flight belongs to the owner of the
  descriptor and its worker is in its loop or quiescing (`WriterOwns`); the last
  record on the descriptor is whole, or its worker still owns the descriptor and
  its next unit is the one missing, or it will never continue (`LastRecord`).
  `WholeRecords` alone is not inductive: it does not say where the owner goes on.
  Theorems `BorrowCorrect` (`BorrowedOutlives`) and `RecordsWhole`
  (`WholeRecords`).
- Inspection, `AdminInv`. A mailbox in use carries the generation
  and the page of the slot that asked, or a generation the slot has left
  (`RequestsCurrent`). Theorem `ReplyCorrect` (`InspectionReply`).

The four modules about slots prove `TypeCorrect`, `SlotsAreExact`
(`SlotsExact`), `DescriptorsAreOwned` (`DescriptorsOwned`), `WaitingIsServed`
(`WaitingServed`) and `ReclaimIsSafe` (`ReclaimProtects`) for any number of public
and admin slots, any completion budget, any listeners and any set of descriptors
under `SlotsAssumption` (at least one public slot, a budget of at least one). The
argument has two layers.

- The table. `TableInv(t, X)` says of a table `t`, while descriptors `X` are held
  by completions, that `active_slots` and the free lists are exact (`ActiveExact`,
  `FreeExact`), that the idle list followed in either direction is one sequence
  without repetition (`IdleChain`), that each connection is in a state of its life
  (`Settled`: one with operations in the ring is open, an idle one is public,
  reading and between requests, one that sends is writing or canceling), and that
  no descriptor has two owners and one is open just if it has one (`Owned`). Each function of the code preserves it: for the lists
  the witness sequence is cut (`RemoveIdleInv`) or extended (`QueueIdleInv`), and
  swap removal is `FinishCloseInv`. `Effect` says what every handler guarantees
  (operations in the ring stay there, a canceled connection stays so until they
  are done, at most one slot leaves `active_slots`), which keeps the rest of a
  batch valid and the walk of `tick` within bounds.
- The loop. `IInv` adds that the completions of a batch are those of operations
  still in the ring, at most one for each, and hold distinct descriptors
  (`BatchInv`); that a waiting descriptor excludes a public accept (`WaitingInv`);
  that an idle connection has its receive in the ring (`Receives`); that `tick` is
  still inside `active_slots`; and that after `deinit` nothing is open (`Torn`).
  `Receives` is apart from `TableInv` because the dispatch of a receive breaks it
  until the handler has run. `WaitingServed` holds when the loop collects because
  `queueAccept` has just served the waiting descriptor if it could
  (`AcceptWaitingInv`). For `ReclaimProtects` each step either marks no reclaim
  (`NoReclaim`) or is taken with an empty batch and cancels the first idle
  connection only (`Looked`); `StepInv` proves that with the invariant.

Neither `SlotsExact` nor `DescriptorsOwned` is inductive alone: they do not say
which operation a completion of the batch belongs to, and one dispatched for a
slot that has been closed since would run a handler on a slot of the free list.

`Owned` excludes two owners without counting; `Counts` turns it into the
cardinalities `DescriptorsOwned` is stated with, by the theorems about finite
sets. `IdleChain` leaves the length of the idle list open, and `ListBound` bounds
it by the number of slots, as `IdleExact` has it.

TLC checked the invariants of `Server` on `MCServer`'s instance, and `IInv` of
`Slots` (with `IdleExact` for `IdleChain`, whose bound `Nat` TLC cannot enumerate)
on `MCSlots`'s.

Only model-checked: liveness and everything under fairness, including the
fairness half of `PoolSpec`, which is out of the prover's reach; `RecordsOnce`,
which counts records over the pipe, the sender's batch and the queues; and the
safety properties of `Connections`, `Pipeline` and `Http2`.

## Not modelled

- TLS (`Tls.zig`, `receivedTls`, `sentTls`): which call comes next is decided by
  what OpenSSL returns, so a model of its own would be one of OpenSSL. `Http2`
  treats it as a transport that may fail; `Connections` and `Pipeline` are
  plaintext.
- The isolated application's pipelining with `MSG_MORE` (`worker.zig` 3542):
  `Pipeline` has the built-in application only.
- The caches of the buffer pools, the HTTP/2 stream cache and its allocator's
  budget, and HTTP/2 producers on the event loop: they decide how fast storage is
  found, or repeat a path that is modelled for executor threads.
- `stopListening`: it shuts the listening sockets down for new peers and changes no
  state the loop reads; accepts in the ring then fail, which `Slots` allows anyway.
- The guard against a second `serve` and the check of the CPU list: one test each,
  before any thread exists.
- Parser framing, path normalisation, conditional requests, dates, MIME types,
  response heads: functions of bytes without state, whose input classes the
  repository's tests enumerate. A model would repeat them byte by byte.
- Endpoints, routing, extractors and JSON: generated at compile time for each
  application; what its hooks do to a connection is in `Connections` and `Http2`.
- Static files, configuration, resource limits: computed before the workers start
  and immutable afterwards.
- Platform wrappers, metrics counters and their formatting, the text of log
  records: no other part's control depends on them.
- Benchmarks and deployment scripts: programs that run beside or before the
  server.

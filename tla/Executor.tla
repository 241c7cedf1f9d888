------------------------------ MODULE Executor ------------------------------
(***************************************************************************)
(* The application executor (worker.zig 413-678): bounded lane queues fed  *)
(* by every event loop, lane threads that run the application's hooks, and *)
(* per-worker completion rings announced through an eventfd.               *)
(*                                                                         *)
(* Every action is one critical section of a lane mutex or of a completion *)
(* mutex, or one system call.  A task stands for the one piece of work a   *)
(* connection or an HTTP/2 stream may have outstanding.                    *)
(***************************************************************************)
EXTENDS Integers, Sequences, FiniteSets

CONSTANTS
  Worker, Lane, Thread, Task,
  None,         \* no task
  ThreadLane,   \* the lane a thread was spawned for
  TaskLane,     \* the lane a task is submitted to
  Owner,        \* task.owner
  QueueLen,     \* lane.tasks.len
  EventMax      \* the largest value of the eventfd counter

ASSUME ExecutorAssumption ==
  /\ ThreadLane \in [Thread -> Lane]
  /\ \A l \in Lane : \E th \in Thread : ThreadLane[th] = l   \* init refuses threads = 0
  /\ TaskLane \in [Task -> Lane]
  /\ Owner \in [Task -> Worker]
  /\ QueueLen \in [Lane -> Nat \ {0}]
  /\ EventMax \in Nat \ {0}
  /\ IsFiniteSet(Task) /\ None \notin Task

VARIABLES
  lifecycle,    \* the thread running Server.serve: start(), workers, stop()
  tasks,        \* lane.tasks, read_index and count: a FIFO queue per lane
  stopping,     \* lane.stopping
  state,        \* where each thread is in threadMain
  holds,        \* the task a thread is dealing with
  completions,  \* the completion ring of each worker
  event,        \* the counter of each worker's application_event_fd
  reader,       \* the ring read of that eventfd: queued, and its completion
  mode,         \* each event loop: outside or inside finishApplications
  abort         \* shared.abort

lane_vars == <<tasks, stopping>>
worker_vars == <<reader, mode>>
vars == <<lifecycle, tasks, stopping, state, holds, completions, event, reader,
          mode, abort>>

Contents(s) == {s[i] : i \in DOMAIN s}
queued == UNION {Contents(tasks[l]) : l \in Lane}
running == {holds[th] : th \in {x \in Thread : state[x] = "running"}}
done == UNION {Contents(completions[w]) : w \in Worker}

\* The refinement mapping: where each task is, read off the lanes' queues,
\* the threads and the completion rings.
Pool == INSTANCE TaskPool WITH Task <- Task, queued <- queued, running <- running, done <- done

OwnedBy(w) == {t \in Task : Owner[t] = w}
\* initApplication sizes the ring for every connection and stream slot.
CompletionCapacity(w) == Cardinality(OwnedBy(w))
Waiting(l) == {th \in Thread : ThreadLane[th] = l /\ state[th] = "waiting"}
Joined == \A th \in Thread : state[th] \in {"new", "exited"}

Init ==
  /\ lifecycle = "starting"
  /\ tasks = [l \in Lane |-> <<>>]
  /\ stopping = [l \in Lane |-> FALSE]
  /\ state = [th \in Thread |-> "new"]
  /\ holds = [th \in Thread |-> None]
  /\ completions = [w \in Worker |-> <<>>]
  /\ event = [w \in Worker |-> 0]
  /\ reader = [w \in Worker |-> "idle"]
  /\ mode = [w \in Worker |-> "loop"]
  /\ abort = FALSE

(***************************************************************************)
(* start() and stop(), called by Server.serve around the workers.          *)
(***************************************************************************)
Spawn(th) ==
  /\ lifecycle = "starting" /\ state[th] = "new"
  /\ state' = [state EXCEPT ![th] = "locking"]
  /\ lifecycle' = IF \A x \in Thread \ {th} : state[x] # "new"
                  THEN "serving" ELSE lifecycle
  /\ UNCHANGED <<lane_vars, holds, completions, event, worker_vars, abort>>

\* The errdefer of start(): a failed spawn stops the threads already running,
\* and no event loop is ever entered.
SpawnFails ==
  /\ lifecycle = "starting"
  /\ lifecycle' = "stopping"
  /\ mode' = [w \in Worker |-> "stopped"]
  /\ UNCHANGED <<lane_vars, state, holds, completions, event, reader, abort>>

\* stopApplications runs once every worker thread has returned.
Stop ==
  /\ lifecycle = "serving"
  /\ \A w \in Worker : mode[w] = "stopped"
  /\ lifecycle' = "stopping"
  /\ UNCHANGED <<lane_vars, state, holds, completions, event, worker_vars, abort>>

\* Mutant of StopLane: sleeping threads are not woken.
StopLaneSilently(l) ==
  /\ lifecycle = "stopping" /\ ~stopping[l]
  /\ stopping' = [stopping EXCEPT ![l] = TRUE]
  /\ UNCHANGED <<lifecycle, tasks, state, holds, completions, event, worker_vars, abort>>

StopLane(l) ==
  /\ lifecycle = "stopping" /\ ~stopping[l]
  /\ stopping' = [stopping EXCEPT ![l] = TRUE]
  /\ state' = [th \in Thread |-> IF th \in Waiting(l) THEN "locking" ELSE state[th]]
  /\ UNCHANGED <<lifecycle, tasks, holds, completions, event, worker_vars, abort>>

Join ==
  /\ lifecycle = "stopping"
  /\ \A l \in Lane : stopping[l]
  /\ Joined
  /\ lifecycle' = "stopped"
  /\ UNCHANGED <<lane_vars, state, holds, completions, event, worker_vars, abort>>

(***************************************************************************)
(* Lane queues: submit() on an event loop, takeTask() on a lane thread.    *)
(***************************************************************************)
\* signal wakes one waiting thread of the lane, if there is one.
Signal(l) ==
  IF Waiting(l) = {} THEN UNCHANGED state
  ELSE \E th \in Waiting(l) : state' = [state EXCEPT ![th] = "locking"]

\* Mutant of submit: the queue's capacity is not checked.
submitUnchecked(t) ==
  LET l == TaskLane[t] IN
  /\ lifecycle = "serving"
  /\ mode[Owner[t]] # "stopped"
  /\ t \notin Pool!Outstanding
  /\ ~stopping[l]
  /\ tasks' = [tasks EXCEPT ![l] = Append(@, t)]
  /\ Signal(l)
  /\ UNCHANGED <<lifecycle, stopping, holds, completions, event, worker_vars, abort>>

\* A full or stopping lane refuses the task and changes nothing.
submit(t) ==
  LET l == TaskLane[t] IN
  /\ lifecycle = "serving"
  /\ mode[Owner[t]] # "stopped"
  /\ t \notin Pool!Outstanding
  /\ ~stopping[l] /\ Len(tasks[l]) # QueueLen[l]
  /\ tasks' = [tasks EXCEPT ![l] = Append(@, t)]
  /\ Signal(l)
  /\ UNCHANGED <<lifecycle, stopping, holds, completions, event, worker_vars, abort>>

\* Mutants of takeTask: the task stays in the queue, or a stopping lane
\* abandons what is queued.
takeTaskKeeps(th) ==
  LET l == ThreadLane[th] IN
  /\ state[th] = "locking"
  /\ \/ /\ tasks[l] # <<>>
        /\ state' = [state EXCEPT ![th] = "running"]
        /\ holds' = [holds EXCEPT ![th] = Head(tasks[l])]
     \/ /\ tasks[l] = <<>>
        /\ state' = [state EXCEPT ![th] = IF stopping[l] THEN "exited" ELSE "waiting"]
        /\ UNCHANGED holds
  /\ UNCHANGED <<lifecycle, tasks, stopping, completions, event, worker_vars, abort>>

takeTaskAbandons(th) ==
  LET l == ThreadLane[th] IN
  /\ state[th] = "locking"
  /\ \/ /\ tasks[l] # <<>> /\ ~stopping[l]
        /\ state' = [state EXCEPT ![th] = "running"]
        /\ holds' = [holds EXCEPT ![th] = Head(tasks[l])]
        /\ tasks' = [tasks EXCEPT ![l] = Tail(@)]
     \/ /\ tasks[l] = <<>> \/ stopping[l]
        /\ state' = [state EXCEPT ![th] = IF stopping[l] THEN "exited" ELSE "waiting"]
        /\ UNCHANGED <<tasks, holds>>
  /\ UNCHANGED <<lifecycle, stopping, completions, event, worker_vars, abort>>

takeTask(th) ==
  LET l == ThreadLane[th] IN
  /\ state[th] = "locking"
  /\ \/ /\ tasks[l] # <<>>
        /\ state' = [state EXCEPT ![th] = "running"]
        /\ holds' = [holds EXCEPT ![th] = Head(tasks[l])]
        /\ tasks' = [tasks EXCEPT ![l] = Tail(@)]
     \/ /\ tasks[l] = <<>> /\ ~stopping[l]
        /\ state' = [state EXCEPT ![th] = "waiting"]
        /\ UNCHANGED <<tasks, holds>>
     \/ /\ tasks[l] = <<>> /\ stopping[l]
        /\ state' = [state EXCEPT ![th] = "exited"]
        /\ UNCHANGED <<tasks, holds>>
  /\ UNCHANGED <<lifecycle, stopping, completions, event, worker_vars, abort>>

\* A condition variable may also return without a signal.
SpuriousWake(th) ==
  /\ state[th] = "waiting"
  /\ state' = [state EXCEPT ![th] = "locking"]
  /\ UNCHANGED <<lifecycle, lane_vars, holds, completions, event, worker_vars, abort>>

(***************************************************************************)
(* The end of a hook: threadMain publishes the completion, then notify().  *)
(***************************************************************************)
Publish(th) ==
  LET w == Owner[holds[th]] IN
  /\ state[th] = "running"
  /\ completions' = [completions EXCEPT ![w] = Append(@, holds[th])]
  /\ state' = [state EXCEPT ![th] = "notifying"]
  /\ UNCHANGED <<lifecycle, lane_vars, holds, event, worker_vars, abort>>

\* Mutant of notify: the eventfd is not written.
notifyNobody(th) ==
  /\ state[th] = "notifying"
  /\ state' = [state EXCEPT ![th] = "locking"]
  /\ holds' = [holds EXCEPT ![th] = None]
  /\ UNCHANGED <<lifecycle, lane_vars, completions, event, worker_vars, abort>>

\* The eventfd is non-blocking: a write to a full counter fails with AGAIN
\* and changes nothing.  Any other error makes every event loop shut down.
notify(th) ==
  LET w == Owner[holds[th]] IN
  /\ state[th] = "notifying"
  /\ state' = [state EXCEPT ![th] = "locking"]
  /\ \/ event' = [event EXCEPT ![w] = IF @ < EventMax THEN @ + 1 ELSE @] /\ UNCHANGED abort
     \/ abort' = TRUE /\ UNCHANGED event
  /\ holds' = [holds EXCEPT ![th] = None]
  /\ UNCHANGED <<lifecycle, lane_vars, completions, worker_vars>>

(***************************************************************************)
(* The event loop of a worker, as far as completions are concerned.        *)
(***************************************************************************)
\* The top of loop() keeps one read of the eventfd in the ring.
queueApplicationEvent(w) ==
  /\ lifecycle = "serving" /\ mode[w] = "loop" /\ reader[w] = "idle"
  /\ reader' = [reader EXCEPT ![w] = "armed"]
  /\ UNCHANGED <<lifecycle, lane_vars, state, holds, completions, event, mode, abort>>

\* The kernel completes the read, which takes the whole counter.
EventRead(w) ==
  /\ reader[w] = "armed" /\ event[w] > 0
  /\ reader' = [reader EXCEPT ![w] = "fired"]
  /\ event' = [event EXCEPT ![w] = 0]
  /\ UNCHANGED <<lifecycle, lane_vars, state, holds, completions, mode, abort>>

\* complete() of the read enters finishApplications.
Wake(w) ==
  /\ mode[w] = "loop" /\ reader[w] = "fired"
  /\ reader' = [reader EXCEPT ![w] = "idle"]
  /\ mode' = [mode EXCEPT ![w] = "apply"]
  /\ UNCHANGED <<lifecycle, lane_vars, state, holds, completions, event, abort>>

\* So does every tick.
Tick(w) ==
  /\ lifecycle = "serving" /\ mode[w] = "loop"
  /\ mode' = [mode EXCEPT ![w] = "apply"]
  /\ UNCHANGED <<lifecycle, lane_vars, state, holds, completions, event, reader, abort>>

\* Mutant of takeCompletion: one completion is applied per wakeup.
takeCompletionOnce(w) ==
  /\ mode[w] = "apply"
  /\ completions' = [completions EXCEPT ![w] = IF @ = <<>> THEN @ ELSE Tail(@)]
  /\ mode' = [mode EXCEPT ![w] = "loop"]
  /\ UNCHANGED <<lifecycle, lane_vars, state, holds, event, reader, abort>>

takeCompletion(w) ==
  /\ mode[w] = "apply"
  /\ \/ /\ completions[w] # <<>>
        /\ completions' = [completions EXCEPT ![w] = Tail(@)]
        /\ UNCHANGED mode
     \/ /\ completions[w] = <<>>
        /\ mode' = [mode EXCEPT ![w] = "loop"]
        /\ UNCHANGED completions
  /\ UNCHANGED <<lifecycle, lane_vars, state, holds, event, reader, abort>>

\* stopOperations waits for application work (worker.zig 1494); a loop that
\* fails leaves its work behind and aborts the other workers.
StopWorker(w) ==
  /\ lifecycle = "serving" /\ mode[w] = "loop"
  /\ OwnedBy(w) \cap Pool!Outstanding = {}
  /\ mode' = [mode EXCEPT ![w] = "stopped"]
  /\ UNCHANGED <<lifecycle, lane_vars, state, holds, completions, event, reader, abort>>

FailWorker(w) ==
  /\ lifecycle = "serving" /\ mode[w] # "stopped"
  /\ mode' = [mode EXCEPT ![w] = "stopped"]
  /\ abort' = TRUE
  /\ UNCHANGED <<lifecycle, lane_vars, state, holds, completions, event, reader>>

Finished == lifecycle = "stopped" /\ UNCHANGED vars

Next ==
  \/ \E th \in Thread : Spawn(th) \/ takeTask(th) \/ SpuriousWake(th)
                        \/ Publish(th) \/ notify(th)
  \/ SpawnFails \/ Stop \/ Join
  \/ \E l \in Lane : StopLane(l)
  \/ \E t \in Task : submit(t)
  \/ \E w \in Worker : queueApplicationEvent(w) \/ EventRead(w) \/ Wake(w) \/ Tick(w)
                       \/ takeCompletion(w) \/ StopWorker(w) \/ FailWorker(w)
  \/ Finished

\* Threads are scheduled, hooks return, the kernel completes reads, and an
\* event loop keeps running; nothing is assumed of ticks, spurious wakeups,
\* submissions, or of a worker being asked to stop.
Fairness ==
  /\ \A th \in Thread : WF_vars(Spawn(th)) /\ WF_vars(takeTask(th))
                        /\ WF_vars(Publish(th)) /\ WF_vars(notify(th))
  /\ WF_vars(Stop) /\ WF_vars(Join)
  /\ \A l \in Lane : WF_vars(StopLane(l))
  /\ \A w \in Worker : /\ WF_vars(queueApplicationEvent(w)) /\ WF_vars(EventRead(w))
                       /\ WF_vars(Wake(w)) /\ WF_vars(takeCompletion(w))

Safe == Init /\ [][Next]_vars
Spec == Safe /\ Fairness
-----------------------------------------------------------------------------
(***************************************************************************)
(* Properties                                                              *)
(***************************************************************************)
\* Types of the executor's fields, lane queues within their storage.
TypeOK ==
  /\ lifecycle \in {"starting", "serving", "stopping", "stopped"}
  /\ tasks \in [Lane -> Seq(Task)]
  /\ \A l \in Lane : Len(tasks[l]) <= QueueLen[l]
  /\ stopping \in [Lane -> BOOLEAN]
  /\ state \in [Thread -> {"new", "locking", "waiting", "running", "notifying", "exited"}]
  /\ holds \in [Thread -> Task \cup {None}]
  /\ \A th \in Thread : state[th] \in {"running", "notifying"} => holds[th] \in Task
  /\ completions \in [Worker -> Seq(Task)]
  /\ event \in [Worker -> 0 .. EventMax]
  /\ reader \in [Worker -> {"idle", "armed", "fired"}]
  /\ mode \in [Worker -> {"loop", "apply", "stopped"}]
  /\ abort \in BOOLEAN

\* The executor implements TaskPool: each accepted task runs once on one
\* thread, its completion is returned once, and no accepted task is stranded,
\* whatever lanes stop meanwhile (takeTask drains a stopping lane, 669-673).
PoolSpec == Pool!Spec

\* The assertion at worker.zig 632: a completion ring always has room.
CompletionRoom ==
  \A w \in Worker : Len(completions[w]) <= CompletionCapacity(w)

\* A lane with work never has all its threads asleep, and no thread sleeps
\* through stop() (signal in submit 557, broadcast in stop 543).
NoMissedSignal ==
  \A l \in Lane :
    /\ stopping[l] => Waiting(l) = {}
    /\ tasks[l] # <<>> /\ lifecycle = "serving" =>
         \E th \in Thread : ThreadLane[th] = l /\ state[th] \notin {"waiting", "exited"}

\* A published completion is always announced: outside finishApplications a
\* non-empty ring implies a readable eventfd, a finished read of it, or a
\* thread about to notify (646-663, 1416-1427, 1798-1804).
CompletionAnnounced ==
  \A w \in Worker :
    completions[w] # <<>> /\ mode[w] = "loop" =>
      \/ event[w] > 0 \/ reader[w] = "fired" \/ abort
      \/ \E th \in Thread : state[th] = "notifying" /\ Owner[holds[th]] = w

\* Each accepted task comes back to its event loop without the help of a
\* tick, unless that loop ends or an eventfd write fails.
EveryTaskReturns ==
  \A t \in Task :
    t \in queued ~> (t \notin Pool!Outstanding \/ mode[Owner[t]] = "stopped" \/ abort)

\* Once all event loops have ended the executor's threads drain the lanes,
\* exit and are joined (stopApplications, 745-748).
StopTerminates ==
  (\A w \in Worker : mode[w] = "stopped") ~> (lifecycle = "stopped" /\ queued = {})
=============================================================================

--------------------------- MODULE ExecutorProofs ---------------------------
(***************************************************************************)
(* The executor's safety properties for any number of workers, lanes,      *)
(* threads and tasks.  They rest on one fact: every task is in at most one *)
(* place, once (Placed).                                                   *)
(***************************************************************************)
EXTENDS Executor, FiniteSetTheorems, TLAPS

\* No task is twice in a queue or ring, and each is where it belongs.
InLane == \A l \in Lane : \A t \in Contents(tasks[l]) : TaskLane[t] = l
InRing == \A w \in Worker : \A t \in Contents(completions[w]) : Owner[t] = w
OneThread ==
  \A x, y \in Thread :
    state[x] = "running" /\ state[y] = "running" /\ holds[x] = holds[y] => x = y
Apart ==
  \A t \in Task : /\ ~(t \in queued /\ t \in running)
                  /\ ~(t \in queued /\ t \in done)
                  /\ ~(t \in running /\ t \in done)
Placed ==
  /\ \A l \in Lane : IsInjective(tasks[l])
  /\ \A w \in Worker : IsInjective(completions[w])
  /\ InLane /\ InRing /\ OneThread /\ Apart

\* Nothing is submitted before the workers run; lanes stop, and threads exit,
\* only after that.
Stopped ==
  /\ lifecycle = "starting" => \A l \in Lane : tasks[l] = <<>>
  /\ \A l \in Lane : stopping[l] => lifecycle \in {"stopping", "stopped"}
  /\ \A th \in Thread : state[th] = "exited" => stopping[ThreadLane[th]]

IInv == TypeOK /\ Placed /\ Stopped /\ NoMissedSignal /\ CompletionAnnounced

-----------------------------------------------------------------------------
(***************************************************************************)
(* Sequences without repetition.                                           *)
(***************************************************************************)
LEMMA AppendContents ==
  ASSUME NEW S, NEW s \in Seq(S), NEW e \in S
  PROVE  /\ Append(s, e) \in Seq(S)
         /\ Len(Append(s, e)) = Len(s) + 1
         /\ Contents(Append(s, e)) = Contents(s) \cup {e}
         /\ IsInjective(s) /\ e \notin Contents(s) => IsInjective(Append(s, e))
<1>1. Append(s, e) \in Seq(S) /\ Len(Append(s, e)) = Len(s) + 1
  OBVIOUS
<1>2. /\ DOMAIN s = 1 .. Len(s) /\ Len(s) \in Nat
      /\ DOMAIN Append(s, e) = 1 .. Len(s) + 1
      /\ \A i \in 1 .. Len(s) : Append(s, e)[i] = s[i]
      /\ Append(s, e)[Len(s) + 1] = e
  OBVIOUS
<1>3. Contents(Append(s, e)) = Contents(s) \cup {e}
  BY <1>2 DEF Contents
<1>4. IsInjective(s) /\ e \notin Contents(s) => IsInjective(Append(s, e))
  BY <1>1, <1>2 DEF Contents, IsInjective
<1> QED BY <1>1, <1>3, <1>4

\* What a queue holds after its head was taken.
LEMMA TailContents ==
  ASSUME NEW S, NEW s \in Seq(S), s # <<>>, IsInjective(s)
  PROVE  /\ Tail(s) \in Seq(S) /\ Head(s) \in S
         /\ Len(Tail(s)) = Len(s) - 1
         /\ Head(s) \in Contents(s)
         /\ Contents(Tail(s)) = Contents(s) \ {Head(s)}
         /\ IsInjective(Tail(s))
<1>1. /\ Tail(s) \in Seq(S) /\ Head(s) \in S /\ Head(s) = s[1]
      /\ Len(s) \in Nat /\ Len(s) >= 1 /\ Len(Tail(s)) = Len(s) - 1
  OBVIOUS
<1>2. /\ DOMAIN s = 1 .. Len(s) /\ DOMAIN Tail(s) = 1 .. Len(s) - 1
      /\ \A i \in 1 .. Len(s) - 1 : Tail(s)[i] = s[i + 1]
  OBVIOUS
<1>3. Head(s) \in Contents(s)
  BY <1>1, <1>2 DEF Contents
<1>4. Contents(Tail(s)) = Contents(s) \ {Head(s)}
  <2>1. ASSUME NEW e \in Contents(Tail(s)) PROVE e \in Contents(s) \ {Head(s)}
    <3>1. PICK i \in 1 .. Len(s) - 1 : e = s[i + 1]
      BY <1>2 DEF Contents
    <3>2. i + 1 \in 1 .. Len(s) /\ 1 \in 1 .. Len(s) /\ i + 1 # 1
      BY <1>1
    <3> QED BY <1>1, <1>2, <3>1, <3>2 DEF Contents, IsInjective
  <2>2. ASSUME NEW e \in Contents(s) \ {Head(s)} PROVE e \in Contents(Tail(s))
    <3>1. PICK i \in 1 .. Len(s) : e = s[i]
      BY <1>2 DEF Contents
    <3>2. i - 1 \in 1 .. Len(s) - 1 /\ (i - 1) + 1 = i
      BY <1>1, <3>1
    <3> QED BY <1>2, <3>1, <3>2, Zenon DEF Contents
  <2> QED BY <2>1, <2>2
<1>5. IsInjective(Tail(s))
  <2> SUFFICES ASSUME NEW i \in 1 .. Len(s) - 1, NEW j \in 1 .. Len(s) - 1,
                      s[i + 1] = s[j + 1]
               PROVE  i = j
    BY <1>1, <1>2 DEF IsInjective
  <2>1. i + 1 \in 1 .. Len(s) /\ j + 1 \in 1 .. Len(s)
    BY <1>1
  <2> QED BY <2>1, <1>1 DEF IsInjective
<1> QED BY <1>1, <1>3, <1>4, <1>5

\* A sequence without repetition is no longer than a set that contains it.
LEMMA InjectiveLength ==
  ASSUME NEW S, IsFiniteSet(S), NEW s \in Seq(S), IsInjective(s)
  PROVE  Len(s) <= Cardinality(S)
<1>1. Len(s) \in Nat /\ DOMAIN s = 1 .. Len(s) /\ s \in [1 .. Len(s) -> S]
  OBVIOUS
<1>2. Cardinality(1 .. Len(s)) = Len(s)
  <2>1. Cardinality(1 .. Len(s)) = IF 1 > Len(s) THEN 0 ELSE Len(s) - 1 + 1
    BY <1>1, FS_Interval, 1 \in Int, Len(s) \in Int, Zenon
  <2> QED BY <1>1, <2>1
<1>3. s \in Injection(1 .. Len(s), S)
  BY <1>1 DEF Injection, IsInjective
<1>4. Cardinality(1 .. Len(s)) <= Cardinality(S)
  BY <1>3, FS_Injection
<1> QED BY <1>2, <1>4

-----------------------------------------------------------------------------
(***************************************************************************)
(* Where tasks are after a step.                                           *)
(***************************************************************************)
\* Threads that do not start or end a hook leave the running tasks alone.
LEMMA RunningSame ==
  ASSUME \A th \in Thread : state'[th] = "running" <=> state[th] = "running",
         \A th \in Thread : state[th] = "running" => holds'[th] = holds[th]
  PROVE  running' = running /\ (OneThread => OneThread')
BY DEF running, OneThread

\* One task less at the front of one of several queues.
LEMMA Dequeue ==
  ASSUME NEW L, NEW q \in [L -> Seq(Task)], NEW l \in L, q[l] # <<>>,
         \A k \in L : IsInjective(q[k])
  PROVE  LET r == [q EXCEPT ![l] = Tail(q[l])] IN
         /\ r \in [L -> Seq(Task)]
         /\ \A k \in L : IsInjective(r[k])
         /\ Head(q[l]) \in Contents(q[l]) /\ Head(q[l]) \in Task
         /\ \A k \in L : Contents(r[k]) = IF k = l THEN Contents(q[l]) \ {Head(q[l])} ELSE Contents(q[k])
<1> DEFINE r == [q EXCEPT ![l] = Tail(q[l])]
<1>1. /\ Tail(q[l]) \in Seq(Task) /\ Head(q[l]) \in Task
      /\ Head(q[l]) \in Contents(q[l])
      /\ Contents(Tail(q[l])) = Contents(q[l]) \ {Head(q[l])}
      /\ IsInjective(Tail(q[l]))
  BY TailContents
<1>2. \A k \in L : r[k] = IF k = l THEN Tail(q[l]) ELSE q[k]
  OBVIOUS
<1>3. r \in [L -> Seq(Task)]
  BY <1>1
<1> QED BY <1>1, <1>2, <1>3, Zenon

\* A submitted task is the queue's only copy, and is nowhere else.
LEMMA SubmitPlaced ==
  ASSUME TypeOK, Placed, NEW t \in Task, submit(t)
  PROVE  Placed' /\ Pool!Submit(t)
<1> PICK l \in Lane : l = TaskLane[t]
  BY ExecutorAssumption
<1>1. t \notin queued /\ t \notin running /\ t \notin done
  BY DEF submit, Pool!Outstanding
<1>2. tasks' = [tasks EXCEPT ![l] = Append(@, t)] /\ UNCHANGED <<holds, completions>>
  BY DEF submit
<1>3. /\ \A k \in Lane : IsInjective(tasks'[k])
      /\ \A k \in Lane : Contents(tasks'[k]) = IF k = l THEN Contents(tasks[l]) \cup {t} ELSE Contents(tasks[k])
  <2>1. tasks \in [Lane -> Seq(Task)] /\ \A k \in Lane : IsInjective(tasks[k])
    BY DEF TypeOK, Placed
  <2>2. \A k \in Lane : t \notin Contents(tasks[k])
    BY <1>1 DEF queued
  <2>3. /\ Contents(Append(tasks[l], t)) = Contents(tasks[l]) \cup {t}
        /\ IsInjective(Append(tasks[l], t))
    BY <2>1, <2>2, AppendContents
  <2>4. \A k \in Lane : tasks'[k] = IF k = l THEN Append(tasks[l], t) ELSE tasks[k]
    BY <1>2, <2>1
  <2> QED BY <2>1, <2>3, <2>4, Zenon
<1>4. queued' = queued \cup {t}
  BY <1>1, <1>3 DEF queued
<1>5. running' = running /\ OneThread'
  <2>1. \A th \in Thread : state'[th] = "running" <=> state[th] = "running"
    BY DEF submit, Signal, Waiting, TypeOK
  <2> QED BY <1>2, <2>1, RunningSame DEF Placed
<1>6. done' = done
  BY <1>2 DEF done
<1>7. Placed'
  <2>1. InLane'
    BY <1>3 DEF InLane, Placed
  <2>2. InRing' /\ \A w \in Worker : IsInjective(completions[w]')
    BY <1>2 DEF InRing, Placed
  <2>3. Apart'
    BY <1>1, <1>4, <1>5, <1>6 DEF Apart, Placed
  <2> QED BY <1>3, <1>5, <2>1, <2>2, <2>3 DEF Placed
<1> QED BY <1>1, <1>4, <1>5, <1>6, <1>7 DEF Pool!Submit, Pool!Outstanding

\* takeTask moves the first task of the lane to the thread, if there is one.
LEMMA StartPlaced ==
  ASSUME TypeOK, Placed, NEW th \in Thread, takeTask(th)
  PROVE  Placed' /\ (UNCHANGED <<queued, running, done>> \/ \E t \in Task : Pool!Start(t))
<1> PICK l \in Lane : l = ThreadLane[th]
  BY ExecutorAssumption
<1> DEFINE t == Head(tasks[l])
<1>1. state[th] = "locking" /\ UNCHANGED completions
  BY DEF takeTask
<1>2. done' = done /\ InRing' /\ \A w \in Worker : IsInjective(completions[w]')
  BY <1>1 DEF done, InRing, Placed
<1>3. CASE tasks[l] # <<>>
  <2>1. /\ state' = [state EXCEPT ![th] = "running"]
        /\ holds' = [holds EXCEPT ![th] = t]
        /\ tasks' = [tasks EXCEPT ![l] = Tail(@)]
    BY <1>3 DEF takeTask
  <2>2. /\ t \in Contents(tasks[l]) /\ t \in Task
        /\ \A k \in Lane : IsInjective(tasks'[k])
        /\ \A k \in Lane : Contents(tasks'[k]) = IF k = l THEN Contents(tasks[l]) \ {t} ELSE Contents(tasks[k])
    <3>1. tasks \in [Lane -> Seq(Task)] /\ \A k \in Lane : IsInjective(tasks[k])
      BY DEF TypeOK, Placed
    <3> QED BY <1>1, <1>3, <2>1, <3>1, Dequeue, Zenon
  <2>3. t \in queued /\ t \notin running /\ t \notin done
    BY <1>1, <2>2 DEF queued, Apart, Placed
  <2>4. queued' = queued \ {t}
    <3>1. \A k \in Lane : t \in Contents(tasks[k]) => k = l
      BY <1>1, <2>2 DEF InLane, Placed
    <3> QED BY <1>1, <2>2, <3>1 DEF queued
  <2>5. running' = running \cup {t}
    BY <1>1, <2>1 DEF running, TypeOK
  <2>6. OneThread'
    <3>1. \A x \in Thread : state[x] = "running" => holds[x] # t
      BY <2>3 DEF running
    <3> QED BY <1>1, <2>1, <3>1 DEF OneThread, Placed, TypeOK
  <2>7. InLane'
    BY <2>2 DEF InLane, Placed
  <2>8. Apart'
    BY <1>2, <2>3, <2>4, <2>5 DEF Apart, Placed
  <2>9. Pool!Start(t)
    BY <1>2, <2>3, <2>4, <2>5 DEF Pool!Start
  <2> QED BY <1>2, <2>2, <2>6, <2>7, <2>8, <2>9 DEF Placed
<1>4. CASE tasks[l] = <<>>
  <2>1. /\ UNCHANGED <<tasks, holds>>
        /\ state' = [state EXCEPT ![th] = "waiting"] \/ state' = [state EXCEPT ![th] = "exited"]
    BY <1>4 DEF takeTask
  <2>2. running' = running /\ OneThread'
    BY <1>1, <2>1, RunningSame DEF TypeOK, Placed
  <2>3. queued' = queued /\ InLane' /\ \A k \in Lane : IsInjective(tasks'[k])
    BY <2>1 DEF queued, InLane, Placed
  <2> QED BY <1>2, <2>2, <2>3 DEF Placed, Apart
<1> QED BY <1>3, <1>4

\* The end of a hook moves its task from the thread to its owner's ring.
LEMMA FinishPlaced ==
  ASSUME TypeOK, Placed, NEW th \in Thread, Publish(th)
  PROVE  Placed' /\ \E t \in Task : Pool!Finish(t)
<1>1. holds[th] \in Task /\ state[th] = "running"
  BY DEF Publish, TypeOK
<1> PICK t \in Task : t = holds[th]
  BY <1>1
<1> PICK w \in Worker : w = Owner[t]
  BY ExecutorAssumption
<1>2. /\ completions' = [completions EXCEPT ![w] = Append(@, t)]
      /\ state' = [state EXCEPT ![th] = "notifying"]
      /\ UNCHANGED <<tasks, holds>>
  BY DEF Publish, lane_vars
<1>3. t \in running /\ t \notin queued /\ t \notin done
  BY <1>1 DEF running, Apart, Placed
<1>4. /\ \A k \in Worker : IsInjective(completions'[k])
      /\ \A k \in Worker : Contents(completions'[k]) = IF k = w THEN Contents(completions[w]) \cup {t} ELSE Contents(completions[k])
  <2>1. completions \in [Worker -> Seq(Task)] /\ \A k \in Worker : IsInjective(completions[k])
    BY DEF TypeOK, Placed
  <2>2. \A k \in Worker : t \notin Contents(completions[k])
    BY <1>3 DEF done
  <2>3. /\ Contents(Append(completions[w], t)) = Contents(completions[w]) \cup {t}
        /\ IsInjective(Append(completions[w], t))
    BY <2>1, <2>2, AppendContents
  <2>4. \A k \in Worker : completions'[k] = IF k = w THEN Append(completions[w], t) ELSE completions[k]
    BY <1>2, <2>1
  <2> QED BY <2>1, <2>3, <2>4, Zenon
<1>5. done' = done \cup {t}
  BY <1>4 DEF done
<1>6. running' = running \ {t}
  <2>1. \A x \in Thread : state'[x] = "running" <=> state[x] = "running" /\ x # th
    BY <1>1, <1>2 DEF TypeOK
  <2>2. \A x \in Thread : state[x] = "running" /\ holds[x] = t => x = th
    BY <1>1 DEF OneThread, Placed
  <2> QED BY <1>1, <1>2, <2>1, <2>2 DEF running
<1>7. OneThread'
  BY <1>2 DEF OneThread, Placed, TypeOK
<1>8. queued' = queued /\ InLane' /\ \A l \in Lane : IsInjective(tasks'[l])
  BY <1>2 DEF queued, InLane, Placed
<1>9. InRing'
  BY <1>4 DEF InRing, Placed
<1>10. Apart'
  BY <1>3, <1>5, <1>6, <1>8 DEF Apart, Placed
<1>11. Pool!Finish(t)
  BY <1>3, <1>5, <1>6, <1>8 DEF Pool!Finish
<1> QED BY <1>4, <1>7, <1>8, <1>9, <1>10, <1>11 DEF Placed

\* takeCompletion hands the owner its first completion, if there is one.
LEMMA TakePlaced ==
  ASSUME TypeOK, Placed, NEW w \in Worker, takeCompletion(w)
  PROVE  Placed' /\ (UNCHANGED <<queued, running, done>> \/ \E t \in Task : Pool!Take(t))
<1> DEFINE t == Head(completions[w])
<1>1. UNCHANGED <<tasks, state, holds>>
  BY DEF takeCompletion, lane_vars
<1>2. /\ queued' = queued /\ running' = running
      /\ InLane' /\ OneThread' /\ \A l \in Lane : IsInjective(tasks'[l])
  BY <1>1 DEF queued, running, InLane, OneThread, Placed
<1>3. CASE completions[w] # <<>>
  <2>1. completions' = [completions EXCEPT ![w] = Tail(@)]
    BY <1>3 DEF takeCompletion
  <2>2. /\ t \in Contents(completions[w]) /\ t \in Task
        /\ \A k \in Worker : IsInjective(completions'[k])
        /\ \A k \in Worker : Contents(completions'[k]) = IF k = w THEN Contents(completions[w]) \ {t} ELSE Contents(completions[k])
    <3>1. completions \in [Worker -> Seq(Task)] /\ \A k \in Worker : IsInjective(completions[k])
      BY DEF TypeOK, Placed
    <3> QED BY <1>3, <2>1, <3>1, Dequeue, Zenon
  <2>3. t \in done
    BY <2>2 DEF done
  <2>4. done' = done \ {t}
    <3>1. \A k \in Worker : t \in Contents(completions[k]) => k = w
      BY <2>2 DEF InRing, Placed
    <3> QED BY <2>2, <3>1 DEF done
  <2>5. InRing'
    BY <2>2 DEF InRing, Placed
  <2>6. Apart'
    BY <1>2, <2>4 DEF Apart, Placed
  <2>7. Pool!Take(t)
    BY <1>2, <2>3, <2>4 DEF Pool!Take
  <2> QED BY <1>2, <2>2, <2>5, <2>6, <2>7 DEF Placed
<1>4. CASE completions[w] = <<>>
  <2>1. UNCHANGED completions
    BY <1>4 DEF takeCompletion
  <2>2. done' = done /\ InRing' /\ \A k \in Worker : IsInjective(completions'[k])
    BY <2>1 DEF done, InRing, Placed
  <2> QED BY <1>2, <2>2 DEF Placed, Apart
<1> QED BY <1>3, <1>4

\* Steps that move no task.
LEMMA OtherPlaced ==
  ASSUME TypeOK, Placed, UNCHANGED <<tasks, completions>>,
         \A th \in Thread : state'[th] = "running" <=> state[th] = "running",
         \A th \in Thread : state[th] = "running" => holds'[th] = holds[th]
  PROVE  Placed' /\ UNCHANGED <<queued, running, done>>
<1>1. running' = running /\ OneThread'
  BY RunningSame DEF Placed
<1>2. queued' = queued /\ InLane' /\ \A l \in Lane : IsInjective(tasks'[l])
  BY DEF queued, InLane, Placed
<1>3. done' = done /\ InRing' /\ \A w \in Worker : IsInjective(completions'[w])
  BY DEF done, InRing, Placed
<1> QED BY <1>1, <1>2, <1>3 DEF Placed, Apart

\* Every step of the executor is a step of the pool or leaves it alone.
LEMMA PlacedStep ==
  ASSUME TypeOK, Placed, [Next]_vars
  PROVE  Placed' /\ [Pool!Next]_<<queued, running, done>>
<1>1. ASSUME NEW th \in Thread, Spawn(th) \/ SpuriousWake(th) \/ notify(th)
      PROVE  Placed' /\ UNCHANGED <<queued, running, done>>
  <2>1. /\ UNCHANGED <<tasks, completions>>
        /\ \A x \in Thread : state'[x] = "running" <=> state[x] = "running"
        /\ \A x \in Thread : state[x] = "running" => holds'[x] = holds[x]
    BY <1>1 DEF Spawn, SpuriousWake, notify, lane_vars, TypeOK
  <2> QED BY <2>1, OtherPlaced
<1>2. ASSUME NEW l \in Lane, StopLane(l)
      PROVE  Placed' /\ UNCHANGED <<queued, running, done>>
  <2>1. /\ UNCHANGED <<tasks, completions, holds>>
        /\ \A x \in Thread : state'[x] = "running" <=> state[x] = "running"
    BY <1>2 DEF StopLane, Waiting, TypeOK
  <2> QED BY <2>1, OtherPlaced
<1>3. ASSUME SpawnFails \/ Stop \/ Join \/ Finished \/ UNCHANGED vars
      PROVE  Placed' /\ UNCHANGED <<queued, running, done>>
  <2>1. UNCHANGED <<tasks, completions, holds, state>>
    BY <1>3 DEF SpawnFails, Stop, Join, Finished, vars, lane_vars
  <2> QED BY <2>1, OtherPlaced
<1>4. ASSUME NEW w \in Worker,
             \/ queueApplicationEvent(w) \/ EventRead(w) \/ Wake(w) \/ Tick(w)
             \/ StopWorker(w) \/ FailWorker(w)
      PROVE  Placed' /\ UNCHANGED <<queued, running, done>>
  <2>1. UNCHANGED <<tasks, completions, holds, state>>
    BY <1>4 DEF queueApplicationEvent, EventRead, Wake, Tick, StopWorker, FailWorker, lane_vars
  <2> QED BY <2>1, OtherPlaced
<1>5. ASSUME NEW t \in Task, submit(t)
      PROVE  Placed' /\ Pool!Next
  BY <1>5, SubmitPlaced DEF Pool!Next
<1>6. ASSUME NEW th \in Thread, takeTask(th)
      PROVE  Placed' /\ (Pool!Next \/ UNCHANGED <<queued, running, done>>)
  BY <1>6, StartPlaced DEF Pool!Next
<1>7. ASSUME NEW th \in Thread, Publish(th)
      PROVE  Placed' /\ Pool!Next
  BY <1>7, FinishPlaced DEF Pool!Next
<1>8. ASSUME NEW w \in Worker, takeCompletion(w)
      PROVE  Placed' /\ (Pool!Next \/ UNCHANGED <<queued, running, done>>)
  BY <1>8, TakePlaced DEF Pool!Next
<1> QED BY <1>1, <1>2, <1>3, <1>4, <1>5, <1>6, <1>7, <1>8 DEF Next

-----------------------------------------------------------------------------
(***************************************************************************)
(* Types and wakeups.                                                      *)
(***************************************************************************)
LEMMA TypeStep ==
  ASSUME TypeOK, Placed, [Next]_vars
  PROVE  TypeOK'
<1> USE ExecutorAssumption
<1> DEFINE ThreadState == {"new", "locking", "waiting", "running", "notifying", "exited"}
<1>t. /\ state \in [Thread -> ThreadState] /\ holds \in [Thread -> Task \cup {None}]
      /\ \A th \in Thread : state[th] \in {"running", "notifying"} => holds[th] \in Task
  BY DEF TypeOK
<1>w. /\ reader \in [Worker -> {"idle", "armed", "fired"}]
      /\ mode \in [Worker -> {"loop", "apply", "stopped"}]
      /\ event \in [Worker -> 0 .. EventMax]
  BY DEF TypeOK
<1>1. ASSUME NEW th \in Thread, Spawn(th) \/ SpuriousWake(th)
      PROVE  TypeOK'
  <2>1. state' = [state EXCEPT ![th] = "locking"] /\ lifecycle' \in {lifecycle, "serving"}
    BY <1>1 DEF Spawn, SpuriousWake
  <2>2. UNCHANGED <<tasks, stopping, holds, completions, event, reader, mode, abort>>
    BY <1>1 DEF Spawn, SpuriousWake, lane_vars, worker_vars
  <2>3. /\ state' \in [Thread -> ThreadState]
        /\ \A x \in Thread : state'[x] \in {"running", "notifying"} => state[x] = state'[x]
    BY <1>t, <2>1
  <2> QED BY <2>1, <2>2, <2>3 DEF TypeOK
<1>2. ASSUME NEW th \in Thread, notify(th)
      PROVE  TypeOK'
  <2>1. abort' \in BOOLEAN
    BY <1>2, Zenon DEF notify, TypeOK
  <2>2. event' \in [Worker -> 0 .. EventMax]
    <3>1. holds[th] \in Task /\ Owner[holds[th]] \in Worker
      BY <1>2, Zenon DEF notify, TypeOK
    <3>2. \/ event' = event
          \/ event' = [event EXCEPT ![Owner[holds[th]]] = IF @ < EventMax THEN @ + 1 ELSE @]
      BY <1>2 DEF notify
    <3>3. \A w \in Worker : (IF event[w] < EventMax THEN event[w] + 1 ELSE event[w]) \in 0 .. EventMax
      BY <1>w
    <3> QED BY <1>w, <3>1, <3>2, <3>3
  <2>3. /\ state' = [state EXCEPT ![th] = "locking"]
        /\ holds' = [holds EXCEPT ![th] = None]
        /\ UNCHANGED <<lifecycle, tasks, stopping, completions, reader, mode>>
    BY <1>2 DEF notify, lane_vars, worker_vars
  <2> QED BY <2>1, <2>2, <2>3 DEF TypeOK
<1>3. ASSUME NEW th \in Thread, takeTask(th)
      PROVE  TypeOK'
  <2>1. UNCHANGED <<lifecycle, stopping, completions, event, reader, mode, abort>>
    BY <1>3 DEF takeTask, worker_vars
  <2> PICK l \in Lane : l = ThreadLane[th]
    OBVIOUS
  <2>2. CASE tasks[l] # <<>>
    <3>1. /\ state' = [state EXCEPT ![th] = "running"]
          /\ holds' = [holds EXCEPT ![th] = Head(tasks[l])]
          /\ tasks' = [tasks EXCEPT ![l] = Tail(@)]
      BY <1>3, <2>2, Zenon DEF takeTask
    <3>2. /\ tasks[l] \in Seq(Task) /\ Head(tasks[l]) \in Task /\ Tail(tasks[l]) \in Seq(Task)
          /\ Len(tasks[l]) \in Nat /\ Len(Tail(tasks[l])) = Len(tasks[l]) - 1
      BY <2>2 DEF TypeOK
    <3>3. tasks' \in [Lane -> Seq(Task)] /\ \A k \in Lane : Len(tasks'[k]) <= QueueLen[k]
      BY <3>1, <3>2 DEF TypeOK
    <3> QED BY <2>1, <3>1, <3>2, <3>3 DEF TypeOK
  <2>3. CASE tasks[l] = <<>>
    <3>1. /\ UNCHANGED <<tasks, holds>>
          /\ state' = [state EXCEPT ![th] = "waiting"] \/ state' = [state EXCEPT ![th] = "exited"]
      BY <1>3, <2>3 DEF takeTask
    <3>2. /\ state' \in [Thread -> ThreadState]
          /\ \A x \in Thread : state'[x] \in {"running", "notifying"} => state[x] = state'[x]
      BY <1>t, <3>1
    <3> QED BY <2>1, <3>1, <3>2 DEF TypeOK
  <2> QED BY <2>2, <2>3
<1>4. ASSUME NEW th \in Thread, Publish(th)
      PROVE  TypeOK'
  <2>1. /\ state' = [state EXCEPT ![th] = "notifying"] /\ state[th] = "running"
        /\ UNCHANGED <<lifecycle, tasks, stopping, holds, event, reader, mode, abort>>
    BY <1>4 DEF Publish, lane_vars, worker_vars
  <2>2. completions' \in [Worker -> Seq(Task)]
    <3>1. holds[th] \in Task /\ Owner[holds[th]] \in Worker
      BY <2>1 DEF TypeOK
    <3>2. Append(completions[Owner[holds[th]]], holds[th]) \in Seq(Task)
      BY <3>1 DEF TypeOK
    <3> QED BY <1>4, <3>2 DEF Publish, TypeOK
  <2> QED BY <2>1, <2>2 DEF TypeOK
<1>5. ASSUME NEW l \in Lane, StopLane(l)
      PROVE  TypeOK'
  BY <1>5 DEF StopLane, Waiting, worker_vars, TypeOK
<1>6. ASSUME SpawnFails \/ Stop \/ Join \/ Finished \/ UNCHANGED vars
      PROVE  TypeOK'
  BY <1>6 DEF SpawnFails, Stop, Join, Finished, vars, lane_vars, worker_vars, TypeOK
<1>7. ASSUME NEW t \in Task, submit(t)
      PROVE  TypeOK'
  <2> PICK l \in Lane : l = TaskLane[t]
    OBVIOUS
  <2>1. /\ tasks' = [tasks EXCEPT ![l] = Append(@, t)]
        /\ Len(tasks[l]) # QueueLen[l]
        /\ UNCHANGED <<lifecycle, stopping, holds, completions, event, reader, mode, abort>>
    BY <1>7 DEF submit, worker_vars
  <2>2. /\ state' \in [Thread -> ThreadState]
        /\ \A th \in Thread : state'[th] \in {"running", "notifying"} => state[th] = state'[th]
    BY <1>7, <1>t, ZenonT(30) DEF submit, Signal, Waiting
  <2>3. tasks' \in [Lane -> Seq(Task)] /\ \A k \in Lane : Len(tasks'[k]) <= QueueLen[k]
    <3>1. /\ tasks[l] \in Seq(Task) /\ Append(tasks[l], t) \in Seq(Task)
          /\ Len(tasks[l]) \in Nat /\ Len(Append(tasks[l], t)) = Len(tasks[l]) + 1
      BY DEF TypeOK
    <3>2. Len(tasks[l]) + 1 <= QueueLen[l]
      BY <2>1, <3>1 DEF TypeOK
    <3> QED BY <2>1, <3>1, <3>2 DEF TypeOK
  <2> QED BY <2>1, <2>2, <2>3 DEF TypeOK
<1>8. ASSUME NEW w \in Worker,
             \/ queueApplicationEvent(w) \/ EventRead(w) \/ Wake(w) \/ Tick(w)
             \/ StopWorker(w) \/ FailWorker(w)
      PROVE  TypeOK'
  <2>1. /\ reader' \in [Worker -> {"idle", "armed", "fired"}]
        /\ mode' \in [Worker -> {"loop", "apply", "stopped"}]
        /\ event' \in [Worker -> 0 .. EventMax]
    <3>1. CASE queueApplicationEvent(w) \/ Wake(w) \/ Tick(w)
      BY <1>w, <3>1 DEF queueApplicationEvent, Wake, Tick
    <3>2. CASE EventRead(w)
      BY <1>w, <3>2 DEF EventRead
    <3>3. CASE StopWorker(w) \/ FailWorker(w)
      BY <1>w, <3>3, Zenon DEF StopWorker, FailWorker
    <3> QED BY <1>8, <3>1, <3>2, <3>3
  <2>2. UNCHANGED <<lifecycle, tasks, stopping, state, holds, completions>>
    BY <1>8 DEF queueApplicationEvent, EventRead, Wake, Tick, StopWorker, FailWorker, lane_vars
  <2>3. abort' \in BOOLEAN
    BY <1>8, Zenon DEF queueApplicationEvent, EventRead, Wake, Tick, StopWorker, FailWorker, TypeOK
  <2> QED BY <2>1, <2>2, <2>3 DEF TypeOK
<1>9. ASSUME NEW w \in Worker, takeCompletion(w)
      PROVE  TypeOK'
  <2>1. UNCHANGED <<lifecycle, tasks, stopping, state, holds, event, reader, abort>>
    BY <1>9 DEF takeCompletion, lane_vars
  <2>2. mode' \in [Worker -> {"loop", "apply", "stopped"}]
    BY <1>9, Zenon DEF takeCompletion, TypeOK
  <2>3. completions' \in [Worker -> Seq(Task)]
    <3>1. completions[w] # <<>> => Tail(completions[w]) \in Seq(Task)
      BY DEF TypeOK
    <3> QED BY <1>9, <3>1, Zenon DEF takeCompletion, TypeOK
  <2> QED BY <2>1, <2>2, <2>3 DEF TypeOK
<1> QED BY <1>1, <1>2, <1>3, <1>4, <1>5, <1>6, <1>7, <1>8, <1>9 DEF Next

\* Threads sleep only in lanes that are empty and not stopping, and one that
\* may have to run is signalled.
LEMMA SignalStep ==
  ASSUME TypeOK, Stopped, NoMissedSignal, [Next]_vars
  PROVE  Stopped' /\ NoMissedSignal'
<1> USE ExecutorAssumption
<1>t. state \in [Thread -> {"new", "locking", "waiting", "running", "notifying", "exited"}]
  BY DEF TypeOK
<1>l. tasks \in [Lane -> Seq(Task)] /\ stopping \in [Lane -> BOOLEAN]
  BY DEF TypeOK
<1>1. ASSUME NEW th \in Thread, Spawn(th)
      PROVE  Stopped' /\ NoMissedSignal'
  <2>1. /\ state' = [state EXCEPT ![th] = "locking"] /\ UNCHANGED <<tasks, stopping>>
        /\ lifecycle = "starting" /\ lifecycle' \in {"starting", "serving"}
    BY <1>1 DEF Spawn, lane_vars
  <2>2. state'[th] = "locking" /\ \A x \in Thread \ {th} : state'[x] = state[x]
    BY <1>t, <2>1
  <2>3. Stopped'
    BY <2>1, <2>2, Zenon DEF Stopped
  <2>4. NoMissedSignal'
    BY <2>1, <2>2, Zenon DEF Stopped, NoMissedSignal, Waiting
  <2> QED BY <2>3, <2>4
<1>2. ASSUME NEW th \in Thread, SpuriousWake(th) \/ Publish(th) \/ notify(th)
      PROVE  Stopped' /\ NoMissedSignal'
  <2>1. /\ state' = [state EXCEPT ![th] = "locking"] \/ state' = [state EXCEPT ![th] = "notifying"]
        /\ UNCHANGED <<lifecycle, tasks, stopping>>
    BY <1>2 DEF SpuriousWake, Publish, notify, lane_vars
  <2>2. /\ \A x \in Thread \ {th} : state'[x] = state[x]
        /\ state'[th] \notin {"waiting", "exited"}
    BY <1>t, <2>1
  <2>3. Stopped'
    BY <2>1, <2>2, Zenon DEF Stopped
  <2>4. NoMissedSignal'
    BY <2>1, <2>2 DEF NoMissedSignal, Waiting
  <2> QED BY <2>3, <2>4
<1>3. ASSUME NEW th \in Thread, takeTask(th)
      PROVE  Stopped' /\ NoMissedSignal'
  <2> PICK l \in Lane : l = ThreadLane[th]
    BY Zenon
  <2>1. UNCHANGED <<lifecycle, stopping>> /\ state[th] = "locking"
    BY <1>3 DEF takeTask
  <2>2. CASE tasks[l] # <<>>
    <3>1. state' = [state EXCEPT ![th] = "running"] /\ tasks' = [tasks EXCEPT ![l] = Tail(@)]
      BY <1>3, <2>2 DEF takeTask
    <3>2. \A k \in Lane \ {l} : tasks'[k] = tasks[k]
      BY <1>l, <3>1, Zenon
    <3>3. Stopped'
      BY <1>t, <2>1, <2>2, <3>1, Zenon DEF Stopped
    <3>4. NoMissedSignal'
      BY <1>t, <2>1, <3>1, <3>2 DEF NoMissedSignal, Waiting
    <3> QED BY <3>3, <3>4, Zenon
  <2>3. CASE tasks[l] = <<>> /\ ~stopping[l]
    <3>1. state' = [state EXCEPT ![th] = "waiting"] /\ UNCHANGED tasks
      BY <1>3, <2>3 DEF takeTask
    <3>2. state'[th] = "waiting" /\ \A x \in Thread \ {th} : state'[x] = state[x]
      BY <1>t, <3>1, Zenon
    <3>3. Stopped'
      BY <2>1, <2>3, <3>1, <3>2, Zenon DEF Stopped
    <3>4. NoMissedSignal'
      BY <2>1, <2>3, <3>1, <3>2 DEF NoMissedSignal, Waiting
    <3> QED BY <3>3, <3>4
  <2>4. CASE tasks[l] = <<>> /\ stopping[l]
    <3>1. state' = [state EXCEPT ![th] = "exited"] /\ UNCHANGED tasks
      BY <1>3, <2>4 DEF takeTask
    <3>2. state'[th] = "exited" /\ \A x \in Thread \ {th} : state'[x] = state[x]
      BY <1>t, <3>1, Zenon
    <3>3. Stopped'
      BY <2>1, <2>4, <3>1, <3>2, Zenon DEF Stopped
    <3>4. NoMissedSignal'
      BY <2>1, <2>4, <3>1, <3>2 DEF NoMissedSignal, Waiting
    <3> QED BY <3>3, <3>4
  <2> QED BY <2>2, <2>3, <2>4
<1>4. ASSUME NEW l \in Lane, StopLane(l)
      PROVE  Stopped' /\ NoMissedSignal'
  <2>1. /\ lifecycle = "stopping" /\ UNCHANGED <<lifecycle, tasks>>
        /\ stopping' = [stopping EXCEPT ![l] = TRUE]
        /\ state' = [th \in Thread |-> IF th \in Waiting(l) THEN "locking" ELSE state[th]]
    BY <1>4 DEF StopLane
  <2> QED BY <1>t, <1>l, <2>1 DEF Stopped, NoMissedSignal, Waiting
<1>5. ASSUME SpawnFails \/ Stop \/ Join \/ Finished \/ UNCHANGED vars
      PROVE  Stopped' /\ NoMissedSignal'
  <2>1. /\ UNCHANGED <<tasks, stopping, state>>
        /\ lifecycle' = lifecycle \/ lifecycle' \in {"stopping", "stopped"}
    BY <1>5, Zenon DEF SpawnFails, Stop, Join, Finished, vars, lane_vars
  <2>2. Stopped'
    BY <2>1 DEF Stopped
  <2>3. (lifecycle' = "serving" => lifecycle = "serving") /\ \A l \in Lane : Waiting(l)' = Waiting(l)
    BY <2>1, Zenon DEF Waiting
  <2>4. NoMissedSignal'
    <3> HIDE ExecutorAssumption
    <3> QED BY <2>1, <2>3 DEF NoMissedSignal
  <2> QED BY <2>2, <2>4
<1>6. ASSUME NEW t \in Task, submit(t)
      PROVE  Stopped' /\ NoMissedSignal'
  <2> PICK l \in Lane : l = TaskLane[t]
    BY Zenon
  <2>1. /\ tasks' = [tasks EXCEPT ![l] = Append(@, t)] /\ Signal(l)
        /\ lifecycle = "serving" /\ UNCHANGED <<lifecycle, stopping>>
    BY <1>6 DEF submit
  <2>2. \A k \in Lane \ {l} : tasks'[k] = tasks[k]
    BY <1>l, <2>1
  <2>3. \A th \in Thread : state[th] # "exited"
    BY <2>1 DEF Stopped
  <2>4. \A th \in Thread : state'[th] = state[th] \/ (state[th] = "waiting" /\ state'[th] = "locking")
    BY <1>t, <2>1 DEF Signal, Waiting
  <2>5. \E th \in Thread : ThreadLane[th] = l /\ state'[th] \notin {"waiting", "exited"}
    <3>1. CASE Waiting(l) = {}
      BY <2>1, <2>3, <3>1 DEF Signal, Waiting
    <3>2. CASE Waiting(l) # {}
      BY <1>t, <2>1, <3>2, Zenon DEF Signal, Waiting
    <3> QED BY <3>1, <3>2
  <2>6. Stopped'
    BY <2>1, <2>3, <2>4 DEF Stopped
  <2>7. NoMissedSignal'
    <3> SUFFICES ASSUME NEW k \in Lane
                 PROVE  /\ stopping'[k] => \A th \in Thread : ThreadLane[th] = k => state'[th] # "waiting"
                        /\ tasks'[k] # <<>> /\ lifecycle' = "serving" =>
                             \E th \in Thread : ThreadLane[th] = k /\ state'[th] \notin {"waiting", "exited"}
      BY DEF NoMissedSignal, Waiting
    <3>1. stopping[k] => \A th \in Thread : ThreadLane[th] = k => state[th] # "waiting"
      BY DEF NoMissedSignal, Waiting
    <3>2. tasks[k] # <<>> /\ lifecycle = "serving" =>
            \E th \in Thread : ThreadLane[th] = k /\ state[th] \notin {"waiting", "exited"}
      BY Zenon DEF NoMissedSignal
    <3>3. stopping'[k] => \A th \in Thread : ThreadLane[th] = k => state'[th] # "waiting"
      BY <2>1, <2>4, <3>1, Zenon
    <3>4. CASE k = l
      BY <2>5, <3>3, <3>4
    <3>5. CASE k # l
      BY <2>1, <2>2, <2>4, <3>2, <3>3, <3>5
    <3> QED BY <3>4, <3>5, Zenon
  <2> QED BY <2>6, <2>7
<1>7. ASSUME NEW w \in Worker,
             \/ queueApplicationEvent(w) \/ EventRead(w) \/ Wake(w) \/ Tick(w)
             \/ takeCompletion(w) \/ StopWorker(w) \/ FailWorker(w)
      PROVE  Stopped' /\ NoMissedSignal'
  <2>1. UNCHANGED <<lifecycle, tasks, stopping, state>>
    BY <1>7, Zenon DEF queueApplicationEvent, EventRead, Wake, Tick, takeCompletion, StopWorker, FailWorker, lane_vars
  <2>2. Stopped'
    BY <2>1 DEF Stopped
  <2>3. (lifecycle' = "serving" => lifecycle = "serving") /\ \A l \in Lane : Waiting(l)' = Waiting(l)
    BY <2>1, Zenon DEF Waiting
  <2>4. NoMissedSignal'
    <3> HIDE ExecutorAssumption
    <3> QED BY <2>1, <2>3 DEF NoMissedSignal
  <2> QED BY <2>2, <2>4, Zenon
<1> QED BY <1>1, <1>2, <1>3, <1>4, <1>5, <1>6, <1>7 DEF Next

\* A completion is published before the eventfd is written, and the loop reads
\* the eventfd before it looks at its ring.
LEMMA AnnounceStep ==
  ASSUME TypeOK, CompletionAnnounced, [Next]_vars
  PROVE  CompletionAnnounced'
<1>t. /\ state \in [Thread -> {"new", "locking", "waiting", "running", "notifying", "exited"}]
      /\ holds \in [Thread -> Task \cup {None}]
      /\ \A th \in Thread : state[th] \in {"running", "notifying"} => holds[th] \in Task
  BY DEF TypeOK
<1>w. /\ reader \in [Worker -> {"idle", "armed", "fired"}]
      /\ mode \in [Worker -> {"loop", "apply", "stopped"}]
      /\ event \in [Worker -> 0 .. EventMax]
      /\ completions \in [Worker -> Seq(Task)]
  BY DEF TypeOK
\* Threads that notify go on doing so, and no worker's announcement is taken.
<1>0. ASSUME \A th \in Thread : state[th] = "notifying" =>
                state'[th] = "notifying" /\ holds'[th] = holds[th],
             \A w \in Worker : completions'[w] # <<>> /\ mode'[w] = "loop" =>
                completions[w] # <<>> /\ mode[w] = "loop",
             UNCHANGED <<event, reader>>, abort => abort'
      PROVE  CompletionAnnounced'
  <2> SUFFICES ASSUME NEW w \in Worker, completions'[w] # <<>>, mode'[w] = "loop"
               PROVE  \/ event'[w] > 0 \/ reader'[w] = "fired" \/ abort'
                      \/ \E x \in Thread : state'[x] = "notifying" /\ Owner[holds'[x]] = w
    BY DEF CompletionAnnounced
  <2>1. completions[w] # <<>> /\ mode[w] = "loop"
    BY <1>0
  <2>2. \/ event[w] > 0 \/ reader[w] = "fired" \/ abort
        \/ \E x \in Thread : state[x] = "notifying" /\ Owner[holds[x]] = w
    BY <2>1 DEF CompletionAnnounced
  <2> QED BY <1>0, <2>2
\* In particular when the workers' state stays.
<1>1. ASSUME \A th \in Thread : state[th] = "notifying" =>
                state'[th] = "notifying" /\ holds'[th] = holds[th],
             UNCHANGED <<completions, mode, event, reader, abort>>
      PROVE  CompletionAnnounced'
  BY <1>0, <1>1
<1>2. ASSUME NEW th \in Thread, Spawn(th) \/ SpuriousWake(th) \/ takeTask(th)
      PROVE  CompletionAnnounced'
  <2>1. /\ state[th] # "notifying" /\ \A x \in Thread \ {th} : state'[x] = state[x] /\ holds'[x] = holds[x]
        /\ UNCHANGED <<completions, mode, event, reader, abort>>
    BY <1>2, <1>t, Zenon DEF Spawn, SpuriousWake, takeTask, worker_vars
  <2> QED BY <1>1, <2>1, Zenon
<1>3. ASSUME NEW l \in Lane, StopLane(l)
      PROVE  CompletionAnnounced'
  BY <1>1, <1>3, <1>t DEF StopLane, Waiting, worker_vars
<1>4. ASSUME SpawnFails
      PROVE  CompletionAnnounced'
  <2>1. \A w \in Worker : mode'[w] # "loop"
    BY <1>4 DEF SpawnFails
  <2> QED BY <2>1 DEF CompletionAnnounced
<1>5. ASSUME Stop \/ Join \/ Finished \/ UNCHANGED vars
      PROVE  CompletionAnnounced'
  <2>1. UNCHANGED <<state, holds, completions, mode, event, reader, abort>>
    BY <1>5 DEF Stop, Join, Finished, vars, worker_vars
  <2> QED BY <1>1, <2>1
<1>6. ASSUME NEW t \in Task, submit(t)
      PROVE  CompletionAnnounced'
  <2>1. /\ UNCHANGED <<holds, completions, mode, event, reader, abort>>
        /\ Signal(TaskLane[t])
    BY <1>6, Zenon DEF submit, worker_vars
  <2>2. \A th \in Thread : state[th] = "notifying" => state'[th] = "notifying"
    BY <1>t, <2>1 DEF Signal, Waiting
  <2> QED BY <1>1, <2>1, <2>2, Zenon
<1>7. ASSUME NEW th \in Thread, Publish(th)
      PROVE  CompletionAnnounced'
  <2>1. /\ state[th] = "running" /\ holds[th] \in Task /\ Owner[holds[th]] \in Worker
        /\ completions' = [completions EXCEPT ![Owner[holds[th]]] = Append(@, holds[th])]
        /\ state' = [state EXCEPT ![th] = "notifying"]
        /\ UNCHANGED <<holds, mode, event, reader, abort>>
    BY ExecutorAssumption, <1>7, <1>t, Zenon DEF Publish, worker_vars
  <2>2. \A w \in Worker : w # Owner[holds[th]] => completions'[w] = completions[w]
    BY <1>w, <2>1
  <2>3. \A x \in Thread : state[x] = "notifying" => state'[x] = "notifying"
    BY <1>t, <2>1
  <2>4. state'[th] = "notifying"
    BY <1>t, <2>1
  <2> SUFFICES ASSUME NEW w \in Worker, completions'[w] # <<>>, mode'[w] = "loop"
               PROVE  \/ event'[w] > 0 \/ reader'[w] = "fired" \/ abort'
                      \/ \E x \in Thread : state'[x] = "notifying" /\ Owner[holds'[x]] = w
    BY Zenon DEF CompletionAnnounced
  <2>5. CASE w = Owner[holds[th]]
    BY <2>1, <2>4, <2>5, Zenon
  <2>6. CASE w # Owner[holds[th]]
    <3>1. completions[w] # <<>> /\ mode[w] = "loop"
      BY <2>1, <2>2, <2>6
    <3>2. \/ event[w] > 0 \/ reader[w] = "fired" \/ abort
          \/ \E x \in Thread : state[x] = "notifying" /\ Owner[holds[x]] = w
      BY <3>1 DEF CompletionAnnounced
    <3> QED BY <2>1, <2>3, <3>2, Zenon
  <2> QED BY <2>5, <2>6
<1>8. ASSUME NEW th \in Thread, notify(th)
      PROVE  CompletionAnnounced'
  <2>1. /\ state[th] = "notifying" /\ holds[th] \in Task /\ Owner[holds[th]] \in Worker
        /\ UNCHANGED <<completions, mode, reader>>
        /\ \A x \in Thread \ {th} : state'[x] = state[x] /\ holds'[x] = holds[x]
    BY ExecutorAssumption, <1>8, <1>t DEF notify, worker_vars
  <2>2. CASE abort'
    BY <2>2, Zenon DEF CompletionAnnounced
  <2>3. CASE ~abort'
    <3>1. /\ event' = [event EXCEPT ![Owner[holds[th]]] = IF @ < EventMax THEN @ + 1 ELSE @]
          /\ UNCHANGED abort
      BY <1>8, <2>3 DEF notify
    <3> DEFINE o == Owner[holds[th]]
    <3>5. /\ o \in Worker /\ event[o] \in 0 .. EventMax /\ EventMax \in Nat /\ EventMax > 0
          /\ event'[o] = IF event[o] < EventMax THEN event[o] + 1 ELSE event[o]
          /\ \A w \in Worker \ {o} : event'[w] = event[w]
      <4>1. o \in Worker /\ EventMax \in Nat /\ EventMax > 0
        BY ExecutorAssumption, <2>1
      <4> HIDE DEF o
      <4>2. event' = [event EXCEPT ![o] = IF event[o] < EventMax THEN event[o] + 1 ELSE event[o]]
        BY <3>1 DEF o
      <4> QED BY <1>w, <4>1, <4>2
    <3> HIDE DEF o
    <3>2. event'[o] > 0
      BY <3>5
    <3>3. \A w \in Worker : event[w] > 0 => event'[w] > 0
      BY <3>2, <3>5
    <3> USE DEF o
    <3> SUFFICES ASSUME NEW w \in Worker, w # Owner[holds[th]],
                        completions'[w] # <<>>, mode'[w] = "loop"
                 PROVE  \/ event'[w] > 0 \/ reader'[w] = "fired" \/ abort'
                        \/ \E x \in Thread : state'[x] = "notifying" /\ Owner[holds'[x]] = w
      BY <3>2 DEF CompletionAnnounced
    <3>4. \/ event[w] > 0 \/ reader[w] = "fired" \/ abort
          \/ \E x \in Thread \ {th} : state[x] = "notifying" /\ Owner[holds[x]] = w
      BY <2>1 DEF CompletionAnnounced
    <3> QED BY <2>1, <3>1, <3>3, <3>4
  <2> QED BY <2>2, <2>3, Zenon
<1>9. ASSUME NEW w \in Worker, queueApplicationEvent(w) \/ EventRead(w) \/ Wake(w)
      PROVE  CompletionAnnounced'
  <2>1. UNCHANGED <<state, holds, completions, abort>>
    BY <1>9, Zenon DEF queueApplicationEvent, EventRead, Wake
  <2>2. CASE queueApplicationEvent(w)
    BY <1>w, <2>1, <2>2 DEF queueApplicationEvent, CompletionAnnounced
  <2>3. CASE EventRead(w)
    BY <1>w, <2>1, <2>3 DEF EventRead, CompletionAnnounced
  <2>4. CASE Wake(w)
    BY <1>w, <2>1, <2>4 DEF Wake, CompletionAnnounced
  <2> QED BY <1>9, <2>2, <2>3, <2>4
<1>10. ASSUME NEW w \in Worker, Tick(w) \/ StopWorker(w) \/ FailWorker(w)
       PROVE  CompletionAnnounced'
  <2>1. /\ UNCHANGED <<state, holds, completions, event, reader>>
        /\ mode' = [mode EXCEPT ![w] = "apply"] \/ mode' = [mode EXCEPT ![w] = "stopped"]
        /\ abort' = abort \/ abort'
    BY <1>10 DEF Tick, StopWorker, FailWorker
  <2>2. \A v \in Worker : mode'[v] = "loop" => mode[v] = "loop"
    BY <1>w, <2>1, Zenon
  <2> QED BY <1>0, <2>1, <2>2
<1>11. ASSUME NEW w \in Worker, takeCompletion(w)
       PROVE  CompletionAnnounced'
  <2>1. UNCHANGED <<state, holds, event, reader, abort>> /\ mode[w] = "apply"
    BY <1>11 DEF takeCompletion
  <2>2. \A v \in Worker \ {w} : completions'[v] = completions[v] /\ mode'[v] = mode[v]
    BY <1>w, <1>11 DEF takeCompletion
  <2>3. completions'[w] # <<>> => mode'[w] # "loop"
    BY <1>w, <1>11 DEF takeCompletion
  <2>4. \A v \in Worker : completions'[v] # <<>> /\ mode'[v] = "loop" =>
                           completions[v] # <<>> /\ mode[v] = "loop"
    BY <2>2, <2>3
  <2> QED BY <1>0, <2>1, <2>4
<1> QED BY <1>2, <1>3, <1>4, <1>5, <1>6, <1>7, <1>8, <1>9, <1>10, <1>11 DEF Next

-----------------------------------------------------------------------------
\* The executor starts in its invariant, mapped to an empty pool.
LEMMA InitIInv == Init => IInv /\ Pool!Init
<1> SUFFICES ASSUME Init PROVE IInv /\ Pool!Init
  OBVIOUS
<1> USE ExecutorAssumption
<1>1. /\ \A l \in Lane : tasks[l] = <<>> /\ Contents(tasks[l]) = {} /\ IsInjective(tasks[l])
      /\ \A w \in Worker : completions[w] = <<>> /\ Contents(completions[w]) = {} /\ IsInjective(completions[w])
      /\ \A th \in Thread : state[th] = "new"
  BY DEF Init, Contents, IsInjective
<1>2. queued = {} /\ running = {} /\ done = {}
  <2>1. ASSUME NEW t \in queued PROVE FALSE
    <3>1. PICK l \in Lane : t \in Contents(tasks[l])
      BY <2>1 DEF queued
    <3> QED BY <1>1, <3>1, Zenon
  <2>3. ASSUME NEW t \in done PROVE FALSE
    <3>1. PICK w \in Worker : t \in Contents(completions[w])
      BY <2>3 DEF done
    <3> QED BY <1>1, <3>1, Zenon
  <2>2. {th \in Thread : state[th] = "running"} = {}
    BY <1>1, Zenon
  <2> QED BY <2>1, <2>2, <2>3, Zenon DEF running
<1>3. TypeOK
  <2>1. /\ tasks \in [Lane -> Seq(Task)] /\ \A l \in Lane : Len(tasks[l]) <= QueueLen[l]
        /\ completions \in [Worker -> Seq(Task)]
    BY DEF Init
  <2>2. abort \in BOOLEAN /\ stopping \in [Lane -> BOOLEAN]
    BY Zenon DEF Init
  <2>3. /\ state \in [Thread -> {"new", "locking", "waiting", "running", "notifying", "exited"}]
        /\ holds \in [Thread -> Task \cup {None}]
    BY DEF Init
  <2>4. /\ event \in [Worker -> 0 .. EventMax]
        /\ reader \in [Worker -> {"idle", "armed", "fired"}]
        /\ mode \in [Worker -> {"loop", "apply", "stopped"}]
    BY DEF Init
  <2>5. lifecycle \in {"starting", "serving", "stopping", "stopped"}
    BY DEF Init
  <2> QED BY <1>1, <2>1, <2>2, <2>3, <2>4, <2>5 DEF TypeOK
<1>4. Placed
  <2>1. InLane /\ InRing
    BY <1>1, Zenon DEF InLane, InRing
  <2>2. OneThread /\ Apart
    BY <1>1, <1>2, Zenon DEF OneThread, Apart
  <2> QED BY <1>1, <2>1, <2>2, Zenon DEF Placed
<1>5. Stopped /\ NoMissedSignal /\ CompletionAnnounced
  BY <1>1 DEF Init, Stopped, NoMissedSignal, Waiting, CompletionAnnounced
<1> QED BY <1>2, <1>3, <1>4, <1>5 DEF IInv, Pool!Init

\* Every step preserves the invariant and is a step of the pool or changes nothing of it.
LEMMA NextIInv == IInv /\ [Next]_vars => IInv' /\ [Pool!Next]_<<queued, running, done>>
BY PlacedStep, TypeStep, SignalStep, AnnounceStep DEF IInv

\* The inductive invariant holds in every reachable state.
LEMMA Invariance == Safe => []IInv
BY InitIInv, NextIInv, PTL DEF Safe

\* A ring has room for every task its owner can have outstanding.
LEMMA RoomForAll == IInv => CompletionRoom
<1> SUFFICES ASSUME IInv, NEW w \in Worker
             PROVE  Len(completions[w]) <= Cardinality(OwnedBy(w))
  BY DEF CompletionRoom, CompletionCapacity
<1>1. completions[w] \in Seq(Task) /\ IsInjective(completions[w])
  BY DEF IInv, TypeOK, Placed
<1>2. completions[w] \in Seq(OwnedBy(w))
  <2>1. \A i \in 1 .. Len(completions[w]) : completions[w][i] \in OwnedBy(w)
    BY <1>1 DEF IInv, Placed, InRing, Contents, OwnedBy
  <2> QED BY <1>1, <2>1
<1>3. IsFiniteSet(OwnedBy(w))
  BY ExecutorAssumption, FS_Subset DEF OwnedBy
<1> QED BY <1>1, <1>2, <1>3, InjectiveLength

\* Lane queues stay within their storage and every field keeps its type
\* (submit checks lane.count, worker.zig 554).
THEOREM TypeCorrect == Spec => []TypeOK
BY Invariance, PTL DEF IInv, Spec

\* The assertion in threadMain (worker.zig 632) holds for any number of
\* workers, lanes, threads and tasks.
THEOREM RoomCorrect == Spec => []CompletionRoom
BY Invariance, RoomForAll, PTL DEF Spec

\* No signal of submit or stop is lost (worker.zig 543, 557, 667).
THEOREM SignalCorrect == Spec => []NoMissedSignal
BY Invariance, PTL DEF IInv, Spec

\* No completion waits unannounced in a ring (worker.zig 640-663).
THEOREM AnnounceCorrect == Spec => []CompletionAnnounced
BY Invariance, PTL DEF IInv, Spec

\* The executor implements the safety part of TaskPool: every task is taken by
\* one thread, published once and returned once.
THEOREM ImplementsPool == Spec => Pool!Safe
<1>1. Spec => Init /\ [][Next]_vars /\ []IInv
  BY Invariance, PTL DEF Spec, Safe
<1> QED BY <1>1, InitIInv, NextIInv, PTL DEF Pool!Safe, Pool!vars
=============================================================================

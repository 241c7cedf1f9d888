---------------------------- MODULE ServerProofs ----------------------------
(***************************************************************************)
(* Server, for every number of workers, every length of their logs and     *)
(* every number of admin connections: a page of connections reaches the    *)
(* connection that asked for it; where serve is decides which threads run  *)
(* and what they may borrow; who may write on the shared descriptor, and   *)
(* where the last record on it ends.                                       *)
(***************************************************************************)
EXTENDS Server, TLAPS

(***************************************************************************)
(* Inspection: a request that is not answered is the current one of its    *)
(* connection, or its connection is gone.                                  *)
(***************************************************************************)
Connection == [open : BOOLEAN, generation : Nat, inspecting : BOOLEAN, want : Nat, answer : Nat]
Inspection == [phase : {"idle", "requested", "ready"}, requester : {<<>>} \cup (Slots \X Nat), page : Nat]

AdminType ==
    /\ slot \in [Slots -> Connection]
    /\ inspection \in [Inspected -> Inspection]

\* The inspection of t, and the connection that asked for it.
Current(t, i, slots) ==
    i.phase # "idle" =>
        /\ i.phase = "ready" => i.page = t
        /\ i.requester # <<>>
        /\ LET s == i.requester[1]
               g == i.requester[2]
           IN  /\ g <= slots[s].generation
               /\ slots[s].open /\ g = slots[s].generation =>
                     slots[s].inspecting /\ slots[s].want = t

RequestsCurrent == \A t \in Inspected : Current(t, inspection[t], slot)

AdminInv == AdminType /\ RequestsCurrent /\ InspectionReply

\* A free slot asks for nothing.
LEMMA FreeSlot ==
    /\ Free \in Connection /\ Free.open = FALSE /\ Free.generation = 0
    /\ Free.inspecting = FALSE /\ Free.want = 0 /\ Free.answer = 0
BY DEF Free, Connection

\* Before serve runs no connection is open and no inspection is under way.
LEMMA AdminInit == Init => AdminInv
<1> SUFFICES ASSUME Init PROVE AdminInv
  OBVIOUS
<1>1. slot = [s \in Slots |-> Free] /\ inspection = [t \in Inspected |-> NoInspection]
  BY DEF Init
<1>2. NoInspection \in Inspection /\ NoInspection.phase = "idle"
  BY DEF NoInspection, Inspection
<1>3. AdminType /\ InspectionReply
  BY <1>1, <1>2, FreeSlot DEF AdminType, InspectionReply
<1>4. RequestsCurrent
  BY <1>1, <1>2 DEF RequestsCurrent, Current
<1> QED
  BY <1>3, <1>4 DEF AdminInv

\* What a connection waiting for a page is told is what it asked for.
LEMMA PagesOf ==
  ASSUME AdminInv, NEW s \in Slots, NEW t \in Pages(s)
  PROVE  /\ Pages(s) = {t} /\ slot[s].want = t /\ inspection[t].page = t
         /\ Answered[s] = [slot[s] EXCEPT !.inspecting = FALSE, !.answer = t]
<1>1. \A u \in Pages(s) : u \in Inspected /\ slot[s].want = u /\ inspection[u].page = u
  BY DEF AdminInv, RequestsCurrent, Current, Pages, StillWaits
<1>2. Pages(s) = {t} /\ slot[s].want = t /\ inspection[t].page = t
  BY <1>1
<1>3. t \in Int
  BY <1>1 DEF Inspected
<1>4. (CHOOSE u \in Pages(s) : \A v \in Pages(s) : u <= v) = t
  BY <1>2, <1>3
<1> QED
  BY <1>2, <1>4, Zenon DEF Answered

\* Closing keeps the generation, which tells the next user of the slot apart.
LEMMA ClosedSlot ==
  ASSUME AdminType, NEW s \in Slots
  PROVE  /\ Closed(s) \in Connection /\ ~Closed(s).open
         /\ Closed(s).generation = slot[s].generation /\ Closed(s).answer = 0
BY FreeSlot, Zenon DEF AdminType, Closed, Connection

\* Accepting takes a new generation.
LEMMA OpenedSlot ==
  ASSUME NEW r \in Connection, NEW g \in Nat
  PROVE  LET new == [r EXCEPT !.open = TRUE, !.generation = g]
         IN  new \in Connection /\ new.generation = g /\ new.answer = r.answer
BY Zenon DEF Connection

\* Closing connections, and accepting new ones, leaves no request pending that
\* is taken for another's.
LEMMA SlotsForward ==
  ASSUME AdminInv, slot' \in [Slots -> Connection], UNCHANGED <<config, inspection>>,
         \A s \in Slots : \/ slot'[s] = slot[s]
                          \/ /\ slot'[s].generation >= slot[s].generation
                             /\ slot'[s].open => slot'[s].generation > slot[s].generation
  PROVE  RequestsCurrent'
<1> SUFFICES ASSUME NEW t \in Inspected, inspection[t].phase # "idle"
             PROVE  Current(t, inspection[t], slot')
  BY Zenon DEF RequestsCurrent, Inspected, Current
<1> DEFINE s == inspection[t].requester[1]
           g == inspection[t].requester[2]
<1>1. /\ inspection[t].phase = "ready" => inspection[t].page = t
      /\ inspection[t].requester # <<>>
      /\ g <= slot[s].generation
      /\ slot[s].open /\ g = slot[s].generation => slot[s].inspecting /\ slot[s].want = t
  BY DEF AdminInv, RequestsCurrent, Current
<1>2. s \in Slots /\ g \in Nat
  BY <1>1 DEF AdminInv, AdminType, Inspection
<1>3. slot[s].generation \in Nat /\ slot'[s].generation \in Nat
  BY <1>2, Zenon DEF AdminInv, AdminType, Connection
<1>4. \/ slot'[s] = slot[s]
      \/ /\ slot'[s].generation >= slot[s].generation
         /\ slot'[s].open => slot'[s].generation > slot[s].generation
  BY <1>2
<1> HIDE DEF s, g
<1>5. g <= slot'[s].generation
  BY <1>1, <1>2, <1>3, <1>4
<1>6. slot'[s].open /\ g = slot'[s].generation => slot'[s].inspecting /\ slot'[s].want = t
  BY <1>1, <1>2, <1>3, <1>4
<1> QED
  BY <1>1, <1>5, <1>6, Zenon DEF s, g, Current

\* Every step keeps each request with the connection that made it.
LEMMA AdminStep == AdminInv /\ [Next]_vars => AdminInv'
<1> SUFFICES ASSUME AdminInv, [Next]_vars PROVE AdminInv'
  OBVIOUS
<1> USE DEF AdminInv
<1>1. CASE UNCHANGED <<config, slot, inspection>>
  BY <1>1 DEF AdminType, RequestsCurrent, InspectionReply, Inspected
<1>2. ASSUME NEW w \in Workers, StopOperations(w) PROVE AdminInv'
  <2>1. UNCHANGED <<config, inspection>>
    BY <1>2 DEF StopOperations, lifecycle, delivery
  <2>2. CASE w = 0
    <3>1. slot' = [s \in Slots |-> Closed(s)]
      BY <1>2, <2>2 DEF StopOperations
    <3>2. AdminType'
      BY <2>1, <3>1, ClosedSlot DEF AdminType, Inspected
    <3>3. InspectionReply'
      BY <3>1, ClosedSlot DEF AdminType, InspectionReply
    <3>4. \A s \in Slots : slot[s].generation \in Nat
      BY DEF AdminType, Connection
    <3>5. RequestsCurrent'
      <4>1. ASSUME NEW s \in Slots PROVE ~slot'[s].open /\ slot'[s].generation >= slot[s].generation
        <5>1. slot'[s] = Closed(s)
          BY <3>1
        <5> QED
          BY <3>4, <5>1, ClosedSlot
      <4> QED
        BY <2>1, <3>2, <4>1, SlotsForward DEF AdminType
    <3> QED
      BY <3>2, <3>3, <3>5
  <2>3. CASE w # 0
    BY <1>1, <1>2, <2>1, <2>3 DEF StopOperations
  <2> QED
    BY <2>2, <2>3
<1>3. ASSUME NEW w \in Workers, CompleteTick(w) PROVE AdminInv'
  <2>1. UNCHANGED config
    BY <1>3 DEF CompleteTick
  <2>2. CASE w # 0
    <3>1. w \in Inspected
      BY <2>2 DEF Workers, Inspected
    <3>2. inspection' = captureInspection(w) /\ UNCHANGED slot
      BY <1>3, <2>2 DEF CompleteTick
    <3>3. CASE inspection[w].phase = "requested"
      <4>1. inspection' = [inspection EXCEPT ![w].phase = "ready", ![w].page = w]
        BY <2>2, <3>2, <3>3 DEF captureInspection
      <4>2. w \in Nat
        BY <3>1 DEF Inspected
      <4> QED
        <5>1. AdminType' /\ InspectionReply'
          BY <2>1, <3>1, <3>2, <3>3, <4>1, <4>2 DEF AdminType, InspectionReply, Inspected, Inspection
        <5>2. RequestsCurrent'
          <6>1. \A t \in Inspected : t # w => inspection'[t] = inspection[t]
            BY <3>1, <4>1 DEF AdminType
          <6>2. /\ inspection'[w].page = w /\ inspection'[w].phase = "ready"
                /\ inspection'[w].requester = inspection[w].requester
            BY <3>1, <4>1 DEF AdminType, Inspection
          <6>3. Inspected' = Inspected
            BY <2>1, Zenon DEF Inspected
          <6>4. Current(w, inspection'[w], slot)
            <7>1. Current(w, inspection[w], slot)
              BY <3>1 DEF RequestsCurrent
            <7> QED
              BY <3>3, <6>2, <7>1 DEF Current
          <6>5. \A t \in Inspected : Current(t, inspection'[t], slot)
            BY <6>1, <6>4 DEF RequestsCurrent
          <6> QED
            BY <3>2, <6>3, <6>5 DEF RequestsCurrent
        <5> QED
          BY <5>1, <5>2
    <3> QED
      BY <1>1, <2>1, <3>2, <3>3 DEF captureInspection
  <2>3. CASE w = 0
    <3>1. PICK expired \in SUBSET Slots :
             /\ slot' = [s \in Slots |-> IF s \in expired /\ Answered[s].inspecting
                                       THEN Closed(s) ELSE Answered[s]]
             /\ inspection' = finishInspections
      BY <1>3, <2>3 DEF CompleteTick
    <3>2. \A s \in Slots : Pages(s) = {} => Answered[s] = slot[s]
      BY DEF Answered
    <3>3. ASSUME NEW s \in Slots
          PROVE  \/ slot'[s] = Closed(s)
                 \/ slot'[s] = slot[s] /\ Pages(s) = {}
                 \/ \E t \in Inspected : /\ Pages(s) = {t} /\ slot[s].want = t
                                         /\ slot'[s] = [slot[s] EXCEPT !.inspecting = FALSE, !.answer = t]
      <4>1. CASE Pages(s) = {}
        BY <3>1, <3>2, <4>1, Zenon
      <4>2. CASE Pages(s) # {}
        <5>1. PICK t : t \in Pages(s)
          BY <4>2
        <5>2. t \in Inspected
          BY <5>1 DEF Pages
        <5> QED
          BY <3>1, <5>1, <5>2, PagesOf, Zenon
      <4> QED
        BY <4>1, <4>2, Zenon
    <3>4. AdminType'
      <4>1. \A t \in Inspected : t \in Nat
        BY DEF Inspected
      <4>2. slot' \in [Slots -> Connection]
        <5>1. ASSUME NEW s \in Slots PROVE slot'[s] \in Connection
          <6>1. slot[s] \in Connection /\ Closed(s) \in Connection
            BY ClosedSlot DEF AdminType
          <6>2. \A t \in Nat : [slot[s] EXCEPT !.inspecting = FALSE, !.answer = t] \in Connection
            BY <6>1, Zenon DEF Connection
          <6> QED
            BY <3>3, <4>1, <6>1, <6>2, Zenon
        <5> QED
          BY <3>1, <5>1
      <4> QED
        BY <2>1, <3>1, <4>2 DEF AdminType, finishInspections, NoInspection, Inspected, Inspection
    <3>5. InspectionReply'
      BY <3>3, ClosedSlot, ZenonT(30) DEF InspectionReply, AdminType, Connection
    <3>6. RequestsCurrent'
      <4>1. SUFFICES ASSUME NEW t \in Inspected, inspection'[t].phase # "idle"
                     PROVE  Current(t, inspection'[t], slot')
        BY <2>1, Zenon DEF RequestsCurrent, Inspected, Current
      <4>2. inspection'[t] = inspection[t] /\ inspection[t].phase = "requested"
        BY <3>1, <4>1 DEF finishInspections, NoInspection, AdminType, Inspection
      <4> DEFINE s == inspection[t].requester[1]
                 g == inspection[t].requester[2]
      <4>3. /\ inspection[t].requester # <<>> /\ s \in Slots /\ g \in Nat
            /\ g <= slot[s].generation
            /\ slot[s].open /\ g = slot[s].generation => slot[s].inspecting /\ slot[s].want = t
        BY <4>2 DEF RequestsCurrent, Current, AdminType, Inspection
      <4>4. t \notin Pages(s)
        BY <4>2 DEF Pages
      <4>5. /\ g <= slot'[s].generation
            /\ slot'[s].open /\ g = slot'[s].generation => slot'[s].inspecting /\ slot'[s].want = t
        <5>1. CASE slot'[s] = Closed(s)
          BY <4>3, <5>1, ClosedSlot, Zenon
        <5>2. CASE slot'[s] = slot[s]
          BY <4>3, <5>2, Zenon
        <5>3. CASE \E u \in Inspected : /\ Pages(s) = {u} /\ slot[s].want = u
                                        /\ slot'[s] = [slot[s] EXCEPT !.inspecting = FALSE, !.answer = u]
          BY <4>3, <4>4, <5>3 DEF AdminType, Connection
        <5> QED
          BY <3>3, <4>3, <5>1, <5>2, <5>3, Zenon
      <4> QED
        BY <4>2, <4>3, <4>5, Zenon DEF Current
    <3> QED
      BY <3>4, <3>5, <3>6
  <2> QED
    BY <2>2, <2>3
<1>4. CASE CompleteAdmin
  <2>1. UNCHANGED config
    BY <1>4 DEF CompleteAdmin
  <2>2. PICK s \in Slots :
          \/ /\ ~slot[s].open
             /\ slot' = [slot EXCEPT ![s] = [Free EXCEPT !.open = TRUE, !.generation = slot[s].generation + 1]]
             /\ UNCHANGED inspection
          \/ \E t \in Inspected : inspectConnections(s, t)
          \/ /\ slot' = [slot EXCEPT ![s] = Closed(s)]
             /\ UNCHANGED inspection
    BY <1>4, Zenon DEF CompleteAdmin
  <2>3. CASE /\ ~slot[s].open
             /\ slot' = [slot EXCEPT ![s] = [Free EXCEPT !.open = TRUE, !.generation = slot[s].generation + 1]]
             /\ UNCHANGED inspection
    <3> DEFINE new == [Free EXCEPT !.open = TRUE, !.generation = slot[s].generation + 1]
    <3>1. new \in Connection /\ new.generation = slot[s].generation + 1 /\ new.answer = 0
      <4>1. slot[s].generation + 1 \in Nat
        BY DEF AdminType, Connection
      <4> QED
        BY <4>1, FreeSlot, OpenedSlot, Zenon
    <3> HIDE DEF new
    <3>2. slot' = [slot EXCEPT ![s] = new]
      BY <2>3 DEF new
    <3>3. AdminType' /\ InspectionReply'
      BY <2>1, <2>3, <3>1, <3>2, Zenon DEF AdminType, InspectionReply, Inspected
    <3>4. RequestsCurrent'
      BY <2>1, <2>3, <3>1, <3>2, <3>3, SlotsForward DEF AdminType, Connection
    <3> QED
      BY <3>3, <3>4
  <2>4. CASE slot' = [slot EXCEPT ![s] = Closed(s)] /\ UNCHANGED inspection
    <3>1. AdminType' /\ InspectionReply'
      BY <2>1, <2>4, ClosedSlot DEF AdminType, InspectionReply, Inspected
    <3>2. RequestsCurrent'
      <4>1. \A r \in Slots : slot'[r] = slot[r] \/ (~slot'[r].open /\ slot'[r].generation = slot[r].generation)
        BY <2>4, ClosedSlot DEF AdminType
      <4>2. slot' \in [Slots -> Connection] /\ \A r \in Slots : slot[r].generation \in Nat
        BY <3>1 DEF AdminType, Connection
      <4> QED
        <5>1. ASSUME NEW r \in Slots
              PROVE  \/ slot'[r] = slot[r]
                     \/ /\ slot'[r].generation >= slot[r].generation
                        /\ slot'[r].open => slot'[r].generation > slot[r].generation
          BY <4>1, <4>2
        <5> QED
          BY <2>1, <2>4, <4>2, <5>1, SlotsForward
    <3> QED
      BY <3>1, <3>2
  <2>5. ASSUME NEW t \in Inspected, inspectConnections(s, t) PROVE AdminInv'
    <3>1. t \in Nat /\ t # 0 /\ slot[s].open /\ ~slot[s].inspecting
      BY <2>5 DEF Inspected, inspectConnections
    <3>2. CASE inspection[t].phase # "idle"
      BY <2>4, <2>5, <3>2 DEF inspectConnections
    <3>3. CASE inspection[t].phase = "idle"
      <4>1. /\ slot' = [slot EXCEPT ![s].want = t, ![s].answer = 0, ![s].inspecting = TRUE]
            /\ inspection' = [inspection EXCEPT ![t].phase = "requested",
                                                ![t].requester = <<s, slot[s].generation>>]
        BY <2>5, <3>3 DEF inspectConnections
      <4>2. /\ \A r \in Slots : r # s => slot'[r] = slot[r]
            /\ slot'[s] \in Connection /\ slot'[s].want = t /\ slot'[s].answer = 0
            /\ slot'[s].inspecting /\ slot'[s].generation = slot[s].generation
        BY <3>1, <4>1 DEF AdminType, Connection
      <4>3. /\ \A u \in Inspected : u # t => inspection'[u] = inspection[u]
            /\ inspection'[t].phase = "requested"
            /\ inspection'[t].requester = <<s, slot[s].generation>>
        BY <4>1 DEF AdminType, Inspection
      <4>4. inspection'[t] \in Inspection /\ slot[s].generation \in Nat
        BY <4>1, ZenonT(30) DEF AdminType, Inspection, Connection
      <4>5. AdminType'
        BY <2>1, <4>1, <4>2, <4>3, <4>4, Zenon DEF AdminType, Inspected
      <4>6. InspectionReply'
        BY <4>2 DEF InspectionReply
      <4>7. RequestsCurrent'
        <5>1. \A u \in Inspected : u # t /\ inspection[u].phase # "idle" /\ inspection[u].requester[1] = s
                 => inspection[u].requester[2] # slot[s].generation
          BY <3>1 DEF RequestsCurrent, Current
        <5>2. Inspected' = Inspected
          BY <2>1 DEF Inspected
        <5>3. Current(t, inspection'[t], slot')
          BY <4>2, <4>3, <4>4 DEF Current
        <5>4. ASSUME NEW u \in Inspected \ {t} PROVE Current(u, inspection[u], slot')
          <6> DEFINE r == inspection[u].requester[1]
                     g == inspection[u].requester[2]
          <6> SUFFICES ASSUME inspection[u].phase # "idle"
                       PROVE  /\ g <= slot'[r].generation
                              /\ slot'[r].open /\ g = slot'[r].generation =>
                                    slot'[r].inspecting /\ slot'[r].want = u
            BY Zenon DEF RequestsCurrent, Current
          <6>1. /\ inspection[u].requester # <<>> /\ g <= slot[r].generation
                /\ slot[r].open /\ g = slot[r].generation => slot[r].inspecting /\ slot[r].want = u
            BY Zenon DEF RequestsCurrent, Current
          <6>2. r \in Slots /\ g \in Nat
            BY <6>1, Zenon DEF AdminType, Inspection
          <6>3. r = s => g # slot[s].generation
            BY <5>1
          <6> HIDE DEF r, g
          <6> QED
            BY <4>2, <6>1, <6>2, <6>3
        <5> QED
          BY <4>3, <5>2, <5>3, <5>4 DEF RequestsCurrent
      <4> QED
        BY <4>5, <4>6, <4>7
    <3> QED
      BY <3>2, <3>3
  <2> QED
    BY <2>2, <2>3, <2>4, <2>5
<1>5. Serve \/ Sender \/ RequestStop \/ Returned \/ UNCHANGED vars => UNCHANGED <<config, slot, inspection>>
  <2>1. Serve => UNCHANGED <<config, slot, inspection>>
    BY Zenon DEF Serve, StartMetrics, StartLogs, StartApplications, SpawnOrRun, Join, AbortAndJoin,
           StopApplications, FinishLogs, AwaitLogs, FinishMetrics, admin
  <2>2. Sender \/ RequestStop \/ Returned \/ UNCHANGED vars => UNCHANGED <<config, slot, inspection>>
    BY DEF Sender, SenderReads, SenderFlushes, SenderDrains, SenderStops, RequestStop, Returned, vars, admin
  <2> QED
    BY <2>1, <2>2
<1>6. ASSUME NEW w \in Workers,
             Startup(w) \/ LoopTop(w) \/ CompleteLog(w) \/ CompleteWork(w) \/ LoopFails(w) \/ Exit(w)
             \/ KernelWrite(w)
      PROVE  UNCHANGED <<config, slot, inspection>>
  <2>1. Startup(w) \/ Exit(w) => UNCHANGED <<config, slot, inspection>>
    BY DEF Startup, Exit, Pin, Ready, Barrier, Check, Quiesce, Release, Restore, admin
  <2>2. LoopTop(w) \/ CompleteLog(w) \/ CompleteWork(w) \/ LoopFails(w) \/ KernelWrite(w)
        => UNCHANGED <<config, slot, inspection>>
    BY DEF LoopTop, CompleteLog, CompleteWork, LoopFails, KernelWrite, admin
  <2> QED
    BY <1>6, <2>1, <2>2
<1> QED
  BY <1>1, <1>2, <1>3, <1>4, <1>5, <1>6 DEF Next

\* Whatever the number of workers, admin connections and reuses of a slot, a page
\* of connections is sent only to the connection that asked for it.
THEOREM ReplyCorrect == Spec => []InspectionReply
<1>1. AdminInv => InspectionReply
  BY Zenon DEF AdminInv
<1> QED
  BY <1>1, AdminInit, AdminStep, PTL DEF Spec

(***************************************************************************)
(* The life cycle: where serve is, which threads run and what they borrow. *)
(***************************************************************************)
Starting == {"metrics", "logs", "applications"}
Joining == {"abort", "joinStarted"}
Ended == {"finishMetrics", "finished"}
Step == Starting \cup {"spawn", "main"} \cup Joining \cup {"stopApplications", "finishLogs", "awaitLogs"}
        \cup Ended
Thread == Active \cup {"none", "returned"}

\* A worker that has reached its loop never returns to it.
Entered == {"loop", "quiesce", "release", "restore", "returned"}

LifecycleType ==
    /\ config \in ConfigurationSet
    /\ serve \in [step : Step, started : Nat, result : {"none", "ok", "error"}]
    /\ running \subseteq {"metrics", "logs", "executor"}
    /\ thread \in [Workers -> Thread]
    /\ failure \in [Workers -> BOOLEAN]
    /\ mask \in {"original", "pinned"}
    /\ sender = [step |-> sender.step, batch |-> sender.batch, finishing |-> sender.finishing]

\* What serve has started, by its step.
RunningExact ==
    /\ serve.step = "metrics" => running = {}
    /\ serve.step = "logs" => running = {"metrics"}
    /\ serve.step = "applications" => "executor" \notin running
    /\ serve.step \in {"spawn", "main", "stopApplications"} \cup Joining => "executor" \in running
    /\ serve.step \in {"finishLogs", "awaitLogs"} => "executor" \notin running
    /\ serve.step = "finishMetrics" => running \subseteq {"metrics"}
    /\ serve.step = "finished" => running = {}

\* The threads that may run are those serve will still wait for.
ThreadsCounted ==
    /\ serve.started < config.workers
    /\ serve.step = "main" => serve.started = config.workers - 1
    /\ serve.step \in Starting \cup {"spawn"} =>
          \A w \in Workers : w \in 1 .. serve.started \/ thread[w] = "none"
    /\ \A w \in Workers :
          thread[w] \in Active =>
              \/ serve.step = "main"
              \/ serve.step \in {"spawn"} \cup Joining /\ w \in 1 .. serve.started

\* The sender runs only between its start and the end of finish.
SenderOwned ==
    /\ sender.step \in {"off", "stopped"} \/ "logs" \in running
    /\ "logs" \in running => config.log = "pipe"
    /\ sender.finishing => serve.step \in {"awaitLogs"} \cup Ended

\* Failures after the result was chosen do not exist, or it is already an error.
ResultExact ==
    /\ mask = "original" \/ failure[0] \/ thread[0] \in Active
    /\ serve.step \in Joining \cup {"stopApplications", "finishLogs", "awaitLogs"} =>
          serve.result = "error" \/ \A w \in Workers : ~failure[w] /\ thread[w] \notin Active
    /\ serve.step \in Ended =>
          serve.result = "error" \/ \A w \in Workers : ~failure[w]

LifecycleInv ==
    LifecycleType /\ RunningExact /\ ThreadsCounted /\ SenderOwned /\ ResultExact

\* Before serve runs there is one configuration, no thread and nothing running.
LEMMA LifecycleInit == Init => LifecycleInv
BY ServerAssumption
   DEF Init, LifecycleInv, LifecycleType, RunningExact, ThreadsCounted, SenderOwned, ResultExact,
       ConfigurationSet, Workers, Thread, Active, Step, Starting, Joining, Ended

\* Once no thread is left to join, none runs.
LEMMA JoinedThreads ==
  ASSUME LifecycleInv, serve.step \in Joining, Joinable(serve.started)
  PROVE  \A w \in Workers : thread[w] \notin Active
BY DEF LifecycleInv, LifecycleType, ThreadsCounted, Joinable, Joining, Active, Workers

\* initInner refuses a configuration without workers, so worker 0 exists.
LEMMA SomeWorker == LifecycleType => config.workers \in Nat /\ config.workers > 0 /\ 0 \in Workers
BY DEF LifecycleType, ConfigurationSet, Workers

\* A running thread takes a step of workerMain.
LEMMA ThreadMoves ==
  ASSUME LifecycleInv, NEW w \in Workers, thread[w] \in Active,
         NEW where \in Active \cup {"returned"}, Go(w, where),
         failure' = failure \/ failure' = [failure EXCEPT ![w] = TRUE],
         mask' \in {"original", "pinned"},
         mask' = "original" \/ failure'[0] \/ thread'[0] \in Active,
         UNCHANGED <<config, serve, running, sender>>
  PROVE  LifecycleInv'
<1> USE DEF LifecycleInv
<1>1. LifecycleType'
  BY Zenon DEF LifecycleType, Go, Workers, Thread, Active
<1>2. RunningExact' /\ SenderOwned'
  BY DEF RunningExact, SenderOwned
<1>3. \A v \in Workers : thread'[v] \in Active => thread[v] \in Active
  BY DEF LifecycleType, Go
<1>4. ThreadsCounted'
  <2>1. thread'[w] = where /\ \A v \in Workers : v # w => thread'[v] = thread[v]
    BY DEF LifecycleType, Go
  <2>2. serve.step \in Starting \cup {"spawn"} => w \in 1 .. serve.started
    BY DEF ThreadsCounted, Active, Starting, Joining
  <2> QED
    BY <1>3, <2>1, <2>2 DEF ThreadsCounted, Workers
<1>5. ResultExact'
  <2>1. serve.step \in {"spawn", "main"} \cup Joining
    BY DEF ThreadsCounted
  <2>2. serve.step \in Joining => serve.result = "error"
    BY DEF ResultExact
  <2> QED
    BY <2>1, <2>2 DEF ResultExact, Joining, Ended
<1> QED
  BY <1>1, <1>2, <1>4, <1>5

\* Every step of serve, of a worker and of the sender keeps the life cycle.
LEMMA LifecycleStep == LifecycleInv /\ [Next]_vars => LifecycleInv'
<1> SUFFICES ASSUME LifecycleInv, [Next]_vars PROVE LifecycleInv'
  OBVIOUS
<1>0. /\ config.workers \in Nat /\ config.workers > 0 /\ 0 \in Workers
      /\ thread \in [Workers -> Thread] /\ failure \in [Workers -> BOOLEAN]
      /\ mask \in {"original", "pinned"}
      /\ mask = "original" \/ failure[0] \/ thread[0] \in Active
  BY SomeWorker DEF LifecycleInv, LifecycleType, ResultExact
<1>1. ASSUME NEW w \in Workers, Startup(w) PROVE LifecycleInv'
  <2>1. CASE Pin(w)
    <3>1. CASE Go(w, "ready") /\ mask' = (IF w = 0 THEN "pinned" ELSE mask) /\ UNCHANGED failure
      BY <1>0, <2>1, <3>1, ThreadMoves, Zenon DEF Pin, Go, Active, logging, delivery
    <3>2. CASE Fail(w) /\ Go(w, "returned") /\ UNCHANGED mask
      BY <1>0, <2>1, <3>2, ThreadMoves, Zenon DEF Pin, Go, Active, Fail, logging, delivery
    <3> QED
      BY <2>1, <3>1, <3>2 DEF Pin
  <2>2. CASE Ready(w)
    BY <1>0, <2>2, ThreadMoves, Zenon DEF Ready, Go, Active, logging, delivery
  <2>3. CASE Barrier(w)
    <3>1. PICK where \in {"check", "restore"} : Go(w, where)
      BY <2>3 DEF Barrier
    <3> QED
      BY <1>0, <2>3, <3>1, ThreadMoves, Zenon DEF Barrier, Go, Active, logging, delivery
  <2>4. CASE Check(w)
    <3>1. PICK where \in {"loop", "restore"} : Go(w, where)
      BY <2>4 DEF Check
    <3> QED
      BY <1>0, <2>4, <3>1, ThreadMoves, Zenon DEF Check, Go, Active, delivery
  <2> QED
    BY <1>1, <2>1, <2>2, <2>3, <2>4 DEF Startup
<1>2. ASSUME NEW w \in Workers, LoopTop(w) PROVE LifecycleInv'
  <2>1. PICK where \in {"loop", "release"} : thread[w] = "loop" /\ Go(w, where)
    BY <1>2 DEF LoopTop
  <2> QED
    <3>1. UNCHANGED <<config, serve, running, failure, mask, sender>>
      BY <1>2 DEF LoopTop, delivery
    <3>2. thread'[0] = thread[0] \/ thread'[0] \in Active
      BY <1>0, <2>1, Zenon DEF Go, Active
    <3> QED
      BY <1>0, <2>1, <3>1, <3>2, ThreadMoves, Zenon DEF Active
<1>3. ASSUME NEW w \in Workers, LoopFails(w) PROVE LifecycleInv'
  BY <1>0, <1>3, ThreadMoves, Zenon DEF LoopFails, Go, Active, delivery
<1>4. ASSUME NEW w \in Workers, Exit(w) PROVE LifecycleInv'
  <2>1. CASE Quiesce(w)
    BY <1>0, <2>1, ThreadMoves, Zenon DEF Quiesce, Go, Active, Fail, delivery
  <2>2. CASE Release(w)
    BY <1>0, <2>2, ThreadMoves, Zenon DEF Release, Go, Active, delivery
  <2>3. CASE Restore(w)
    <3>1. CASE mask' = (IF w = 0 THEN "original" ELSE mask) /\ UNCHANGED failure
      BY <1>0, <2>3, <3>1, ThreadMoves, Zenon DEF Restore, Go, Active, logging, delivery
    <3>2. CASE Fail(w) /\ UNCHANGED mask
      BY <1>0, <2>3, <3>2, ThreadMoves, Zenon DEF Restore, Go, Active, Fail, logging, delivery
    <3> QED
      BY <2>3, <3>1, <3>2 DEF Restore
  <2> QED
    BY <1>4, <2>1, <2>2, <2>3 DEF Exit
<1> USE DEF LifecycleInv, LifecycleType, RunningExact, ThreadsCounted, SenderOwned, ResultExact
<1> USE DEF Workers, Thread, Active, Step, Starting, Joining, Ended
<1>5. CASE StartMetrics
  <2>1. serve.step = "metrics" /\ UNCHANGED <<config, thread, failure, mask, sender>>
    BY <1>5 DEF StartMetrics, logging, delivery
  <2>2. CASE running' = running \cup {"metrics"} /\ serve' = [serve EXCEPT !.step = "logs"]
    BY <2>1, <2>2
  <2>3. CASE serve' = [serve EXCEPT !.step = "finished", !.result = "error"] /\ UNCHANGED running
    BY <2>1, <2>3, Zenon
  <2> QED
    BY <1>5, <2>2, <2>3 DEF StartMetrics, Start, Unwind
<1>6. CASE StartLogs
  <2>1. /\ serve.step = "logs" /\ running = {"metrics"} /\ ~sender.finishing
        /\ UNCHANGED <<config, thread, failure, mask>>
    BY <1>6 DEF StartLogs
  <2>2. CASE /\ running' = running \cup {"logs"} /\ serve' = [serve EXCEPT !.step = "applications"]
             /\ sender' = [sender EXCEPT !.step = "read"] /\ config.log = "pipe"
    BY <2>1, <2>2
  <2>3. CASE /\ serve' = [serve EXCEPT !.step = "finishMetrics", !.result = "error"]
             /\ UNCHANGED <<running, sender>>
    BY <2>1, <2>3, Zenon
  <2>4. CASE serve' = [serve EXCEPT !.step = "applications"] /\ UNCHANGED <<running, sender>>
    BY <2>1, <2>4
  <2> QED
    BY <1>6, <2>1, <2>2, <2>3, <2>4 DEF StartLogs, Start, Unwind
<1>7. CASE StartApplications
  <2>1. /\ serve.step = "applications" /\ UNCHANGED <<config, thread, failure, mask, sender>>
        /\ \A w \in Workers : thread[w] \notin Active
    BY <1>7 DEF StartApplications, logging, delivery
  <2>2. CASE running' = running \cup {"executor"} /\ serve' = [serve EXCEPT !.step = "spawn"]
    BY <2>1, <2>2
  <2>3. CASE /\ serve' = [serve EXCEPT !.step = AfterExecutor, !.result = "error"]
             /\ UNCHANGED running
    BY <2>1, <2>3, ZenonT(30) DEF AfterExecutor
  <2> QED
    BY <1>7, <2>2, <2>3 DEF StartApplications, Start, Unwind
<1>8. CASE SpawnOrRun
  <2>1. /\ serve.step = "spawn"
        /\ UNCHANGED <<config, running, failure, mask, sender>>
    BY <1>8 DEF SpawnOrRun, logging, delivery
  <2>2. CASE serve.started = config.workers - 1
    <3>1. thread' = [thread EXCEPT ![0] = "pin"] /\ serve' = [serve EXCEPT !.step = "main"]
      BY <1>8, <2>2 DEF SpawnOrRun
    <3> QED
      BY <1>0, <2>1, <2>2, <3>1, Zenon
  <2>3. CASE /\ serve.started # config.workers - 1
             /\ thread' = [thread EXCEPT ![serve.started + 1] = "pin"]
             /\ serve' = [serve EXCEPT !.started = @ + 1]
    <3>0. serve.started \in Nat /\ serve.started + 1 \in Workers
      <4>1. serve.started \in Nat /\ serve.started < config.workers
        BY Zenon
      <4>2. serve.started # config.workers - 1
        BY <2>3
      <4> QED
        BY <1>0, <4>1, <4>2
    <3>1. /\ serve' \in [step : Step, started : Nat, result : {"none", "ok", "error"}]
          /\ serve'.step = "spawn" /\ serve'.started = serve.started + 1
      BY <2>1, <2>3, <3>0
    <3>2. LifecycleType' /\ RunningExact' /\ SenderOwned'
      BY <2>1, <2>3, <3>0, <3>1
    <3>3. ThreadsCounted'
      BY <1>0, <2>1, <2>3, <3>0, <3>1
    <3>4. ResultExact'
      BY <1>0, <2>1, <2>3, <3>0, <3>1
    <3> QED
      BY <3>2, <3>3, <3>4, Zenon
  <2>4. CASE serve' = [serve EXCEPT !.step = "abort", !.result = "error"] /\ UNCHANGED thread
    BY <1>0, <2>1, <2>4, Zenon
  <2> QED
    BY <1>8, <2>2, <2>3, <2>4, Zenon DEF SpawnOrRun, Unwind
<1>9. CASE Join
  <2>1. \A w \in Workers : thread[w] \notin Active
    BY <1>0, <1>9 DEF Join, Joinable
  <2>2. /\ serve' = [step |-> "abort", started |-> 0, result |-> serve'.result]
        /\ serve'.result = "error" \/ (serve'.result = "ok" /\ \A w \in Workers : ~failure[w])
    <3>1. CASE \E w \in Workers : failure[w]
      <4>1. serve' = [step |-> "abort", started |-> 0, result |-> "error"]
        BY <1>9, <3>1, Zenon DEF Join
      <4> QED
        BY <4>1
    <3>2. CASE ~\E w \in Workers : failure[w]
      BY <1>9, <3>2, Zenon DEF Join
    <3> QED
      BY <3>1, <3>2, Zenon
  <2>3. UNCHANGED <<config, running, thread, failure, mask, sender>> /\ serve.step = "main"
    BY <1>9, Zenon DEF Join, logging, delivery
  <2> QED
    BY <1>0, <2>1, <2>2, <2>3
<1>10. CASE AbortAndJoin
  <2>1. UNCHANGED <<config, running, thread, failure, mask, sender>>
    BY <1>10 DEF AbortAndJoin, logging, delivery
  <2>2. CASE serve.step = "abort" /\ serve' = [serve EXCEPT !.step = "joinStarted"]
    BY <2>1, <2>2
  <2>3. CASE /\ serve.step = "joinStarted" /\ Joinable(serve.started)
             /\ serve' = [serve EXCEPT !.step = "stopApplications"]
    <3>1. \A w \in Workers : thread[w] \notin Active
      BY <2>3, JoinedThreads
    <3> QED
      BY <2>1, <2>3, <3>1
  <2> QED
    BY <1>10, <2>2, <2>3 DEF AbortAndJoin
<1>11. CASE StopApplications
  BY <1>11 DEF StopApplications, AfterExecutor, logging, delivery
<1>12. CASE FinishLogs
  BY <1>12, Zenon DEF FinishLogs
<1>13. CASE AwaitLogs
  BY <1>13 DEF AwaitLogs
<1>14. CASE FinishMetrics
  BY <1>14 DEF FinishMetrics, logging, delivery
<1>15. CASE Sender
  <2>1. /\ UNCHANGED <<config, lifecycle>>
        /\ sender.step \in {"read", "final"}
        /\ sender' = [step |-> sender'.step, batch |-> sender'.batch, finishing |-> sender'.finishing]
        /\ sender'.finishing = sender.finishing
    BY <1>15, Zenon DEF Sender, SenderReads, SenderFlushes, SenderDrains, SenderStops, SenderReturns
  <2> QED
    BY <2>1 DEF lifecycle
<1>16. CASE UNCHANGED <<config, serve, running, thread, failure, mask, sender>>
  BY <1>16
<1>17. ASSUME NEW w \in Workers,
              StopOperations(w) \/ CompleteLog(w) \/ CompleteWork(w) \/ CompleteTick(w) \/ KernelWrite(w)
       PROVE  UNCHANGED <<config, serve, running, thread, failure, mask, sender>>
  BY <1>17 DEF StopOperations, CompleteLog, CompleteWork, CompleteTick, KernelWrite, lifecycle, logging, delivery
<1>18. CompleteAdmin \/ RequestStop \/ Returned \/ UNCHANGED vars
       => UNCHANGED <<config, serve, running, thread, failure, mask, sender>>
  BY Zenon DEF CompleteAdmin, RequestStop, Returned, vars, lifecycle, logging, delivery
<1> QED
  BY <1>5, <1>6, <1>7, <1>8, <1>9, <1>10, <1>11, <1>12, <1>13, <1>14, <1>1, <1>2, <1>3, <1>4,
     <1>15, <1>16, <1>17, <1>18, Zenon DEF Next, Serve

(***************************************************************************)
(* The log: who writes, and where the last record on the descriptor ends.  *)
(***************************************************************************)
Queue == [at : Nat, tail : Nat, batch : Nat, op : Int, cancel : BOOLEAN, disabled : BOOLEAN]

LoggerType ==
    /\ logger \in [Workers -> Queue]
    /\ sink \in Seq(Workers \X Nat)

\* A write in flight belongs to the owner of the descriptor, and what it wrote
\* is part of the batch that was selected.
Consistent(w, l, place, owner) ==
    /\ l.op # Idle =>
          /\ place \in {"loop", "quiesce"}
          /\ owner = w
          /\ l.batch > 0
          /\ config.log # "none"
    /\ l.op > 0 => l.op <= BatchUnits(l)
    /\ config.log = "pipe" =>
          /\ l.at % Unit = 0
          /\ l.op > 0 => l.op = BatchUnits(l)

WriterOwns == \A w \in Workers : Consistent(w, logger[w], thread[w], logOwner)

\* The unit that is written next.
NextUnit(l) == l.at + (IF l.op > 0 THEN l.op ELSE 0)

Excused(w) == config.log = "file" /\ (logger[w].disabled \/ thread[w] # "loop")

\* A record the descriptor ends in the middle of is continued by its worker,
\* which still owns the descriptor, or is never continued.
LastRecord ==
    sink # <<>> =>
        LET w == sink[Len(sink)][1]
            u == sink[Len(sink)][2]
        IN  \/ u % Unit = Unit - 1
            \/ Excused(w)
            \/ config.log = "file" /\ logOwner = w /\ logger[w].batch > 0 /\ NextUnit(logger[w]) = u + 1

SinkInv ==
    /\ \A k \in 1 .. Len(sink) : thread[sink[k][1]] \in Entered
    /\ \A k \in 1 .. Len(sink) - 1 :
          \/ sink[k][2] % Unit = Unit - 1
          \/ sink[k + 1] = <<sink[k][1], sink[k][2] + 1>>
          \/ Excused(sink[k][1])
    /\ LastRecord

LoggingInv == LoggerType /\ WriterOwns /\ SinkInv

\* Before serve runs the queues are empty and nothing is on the descriptor.
LEMMA LoggingInit == Init => LoggingInv
<1> SUFFICES ASSUME Init PROVE LoggingInv
  OBVIOUS
<1>1. NewLogger \in Queue /\ NewLogger.op = Idle /\ NewLogger.at = 0
  BY DEF NewLogger, Queue, Idle
<1>2. LoggerType /\ \A w \in Workers : logger[w] = NewLogger
  BY <1>1 DEF Init, LoggerType
<1>3. WriterOwns
  BY <1>1, <1>2 DEF WriterOwns, Consistent, Idle, Unit
<1>4. SinkInv
  BY DEF Init, SinkInv, LastRecord
<1> QED
  BY <1>2, <1>3, <1>4 DEF LoggingInv

\* A thread that has entered its loop stays past that point.
Onward == \A v \in Workers : thread[v] \in Entered =>
              thread'[v] \in Entered /\ (thread[v] # "loop" => thread'[v] # "loop")

\* The other workers keep the descriptor and stay in their loops.
OthersKept(w) == \A v \in Workers \ {w} :
    (logOwner = v => logOwner' = v) /\ (thread[v] \in {"loop", "quiesce"} => thread'[v] \in {"loop", "quiesce"})

\* With queue l, worker w will go on where it stopped, or never.
Continues(w, l) ==
    config.log = "file" /\ logOwner = w /\ logger[w].batch > 0 =>
        \/ l.disabled \/ thread'[w] # "loop"
        \/ logOwner' = w /\ l.batch > 0 /\ NextUnit(l) = NextUnit(logger[w])
        \/ NextUnit(logger[w]) % Unit = 0

\* Worker w's queue becomes l, with the descriptor's content unchanged.
LEMMA QueueMoves ==
  ASSUME LoggingInv, Onward, NEW w \in Workers, NEW l \in Queue,
         logger' = [logger EXCEPT ![w] = l], UNCHANGED <<config, sink>>,
         logger[w].disabled => l.disabled,
         Consistent(w, l, thread'[w], logOwner'),
         OthersKept(w), Continues(w, l)
  PROVE  LoggingInv'
<1> USE DEF LoggingInv
<1>1. Workers' = Workers
  BY DEF Workers
<1>2. /\ logger'[w] = l /\ \A v \in Workers \ {w} : logger'[v] = logger[v]
      /\ LoggerType'
  BY <1>1, Zenon DEF LoggerType
<1>3. WriterOwns'
  <2>1. ASSUME NEW v \in Workers \ {w} PROVE Consistent(v, logger[v], thread'[v], logOwner')
    <3>1. Consistent(v, logger[v], thread[v], logOwner)
      BY DEF WriterOwns
    <3>2. logOwner = v => logOwner' = v
      BY DEF OthersKept
    <3>3. thread[v] \in {"loop", "quiesce"} => thread'[v] \in {"loop", "quiesce"}
      BY Zenon DEF OthersKept
    <3> QED
      BY <3>1, <3>2, <3>3 DEF Consistent
  <2> QED
    BY <1>1, <1>2, <2>1 DEF WriterOwns, Consistent
<1>4. \A v \in Workers : Excused(v) /\ thread[v] \in Entered => Excused(v)'
  BY <1>2, Zenon DEF Excused, Onward
<1>5. ASSUME NEW k \in 1 .. Len(sink) PROVE sink[k][1] \in Workers /\ sink[k][2] \in Nat
  BY DEF LoggerType
<1>6. LastRecord'
  <2> SUFFICES ASSUME sink # <<>>
               PROVE  LET v == sink[Len(sink)][1]
                          u == sink[Len(sink)][2]
                      IN  \/ u % Unit = Unit - 1
                          \/ Excused(v)'
                          \/ /\ config.log = "file" /\ logOwner' = v /\ logger'[v].batch > 0
                             /\ NextUnit(logger'[v]) = u + 1
    BY DEF LastRecord, NextUnit
  <2>1. Len(sink) \in 1 .. Len(sink)
    BY DEF LoggerType
  <2> DEFINE v == sink[Len(sink)][1]
             u == sink[Len(sink)][2]
  <2>2. v \in Workers /\ u \in Nat /\ thread[v] \in Entered
    BY <1>5, <2>1, Zenon DEF SinkInv
  <2>3. \/ u % Unit = Unit - 1
        \/ Excused(v)
        \/ config.log = "file" /\ logOwner = v /\ logger[v].batch > 0 /\ NextUnit(logger[v]) = u + 1
    BY Zenon DEF SinkInv, LastRecord
  <2> HIDE DEF v, u
  <2>4. CASE Excused(v)
    BY <1>4, <2>2, <2>4, Zenon DEF v, u
  <2>5. CASE /\ config.log = "file" /\ logOwner = v /\ logger[v].batch > 0 /\ NextUnit(logger[v]) = u + 1
             /\ v # w
    <3>1. v \in Workers \ {w}
      BY <2>2, <2>5
    <3>2. logger'[v] = logger[v] /\ logOwner' = v
      BY <1>2, <2>5, <3>1, Zenon DEF OthersKept
    <3> QED
      BY <2>5, <3>2, Zenon DEF v, u
  <2>6. CASE /\ config.log = "file" /\ logOwner = w /\ logger[w].batch > 0 /\ NextUnit(logger[w]) = u + 1
             /\ v = w
    <3>1. (u + 1) % Unit = 0 => u % Unit = Unit - 1
      BY <2>2 DEF Unit
    <3> QED
      BY <1>2, <2>2, <2>6, <3>1, Zenon DEF v, u, Excused, Continues
  <2> QED
    BY <2>3, <2>4, <2>5, <2>6, Zenon DEF v, u
<1>7. SinkInv'
  BY <1>4, <1>5, <1>6 DEF SinkInv, Onward
<1> QED
  BY <1>2, <1>3, <1>7, Zenon

\* No step takes a worker back to its loop, and none changes the configuration.
LEMMA OnwardStep == LifecycleInv /\ [Next]_vars => Onward /\ UNCHANGED config
<1> SUFFICES ASSUME LifecycleInv, [Next]_vars PROVE Onward /\ UNCHANGED config
  OBVIOUS
<1>0. thread \in [Workers -> Thread]
  BY DEF LifecycleInv, LifecycleType
<1>1. CASE UNCHANGED <<thread, config>>
  BY <1>1 DEF Onward
<1>2. ASSUME NEW w \in Workers, NEW where \in Thread, thread' = [thread EXCEPT ![w] = where],
             thread[w] \in Entered => where \in Entered /\ (thread[w] # "loop" => where # "loop")
      PROVE  Onward
  BY <1>0, <1>2 DEF Onward
<1>3. CASE SpawnOrRun
  <2>1. \A w \in Workers : w \in 1 .. serve.started \/ thread[w] = "none"
    BY <1>3 DEF SpawnOrRun, LifecycleInv, ThreadsCounted
  <2>2. serve.started \in Nat /\ serve.started < config.workers
    BY DEF LifecycleInv, LifecycleType, ThreadsCounted
  <2>3. config.workers \in Nat /\ 0 \in Workers
    BY SomeWorker DEF LifecycleInv
  <2>4. thread[0] = "none" /\ (serve.started # config.workers - 1 =>
            serve.started + 1 \in Workers /\ thread[serve.started + 1] = "none")
    BY <2>1, <2>2, <2>3 DEF Workers
  <2>5. "pin" \in Thread /\ "none" \notin Entered
    BY DEF Thread, Active, Entered
  <2>6. UNCHANGED config
    BY <1>3 DEF SpawnOrRun
  <2>7. CASE serve.started = config.workers - 1
    <3>1. thread' = [thread EXCEPT ![0] = "pin"]
      BY <1>3, <2>7 DEF SpawnOrRun
    <3> QED
      BY <1>2, <2>3, <2>4, <2>5, <2>6, <3>1, Zenon
  <2>8. CASE serve.started # config.workers - 1
    <3>1. thread' = [thread EXCEPT ![serve.started + 1] = "pin"] \/ UNCHANGED thread
      BY <1>3, <2>8 DEF SpawnOrRun
    <3> QED
      BY <1>1, <1>2, <2>4, <2>5, <2>6, <2>8, <3>1
  <2> QED
    BY <2>7, <2>8
<1>4. ASSUME NEW w \in Workers, Startup(w) \/ Exit(w) \/ LoopTop(w) \/ LoopFails(w)
      PROVE  Onward /\ UNCHANGED config
  <2>1. UNCHANGED config
    BY <1>4 DEF Startup, Exit, Pin, Ready, Barrier, Check, Quiesce, Release, Restore, LoopTop, LoopFails
  <2>2. PICK where \in {"ready", "barrier", "check", "loop", "quiesce", "release", "restore", "returned"} :
          /\ thread' = [thread EXCEPT ![w] = where]
          /\ thread[w] \in Entered => where \in Entered /\ (thread[w] # "loop" => where # "loop")
    <3>1. Startup(w) => /\ thread[w] \notin Entered
                        /\ \E where \in {"ready", "barrier", "check", "loop", "restore", "returned"} :
                              thread' = [thread EXCEPT ![w] = where]
      BY DEF Startup, Pin, Ready, Barrier, Check, Go, Entered
    <3>2. Exit(w) => \E where \in {"release", "restore", "returned"} : thread' = [thread EXCEPT ![w] = where]
      BY DEF Exit, Quiesce, Release, Restore, Go
    <3>3. LoopTop(w) => /\ thread[w] = "loop"
                        /\ \E where \in {"loop", "release"} : thread' = [thread EXCEPT ![w] = where]
      BY Zenon DEF LoopTop, Go
    <3>4. LoopFails(w) => thread' = [thread EXCEPT ![w] = "quiesce"]
      BY DEF LoopFails, Go
    <3> QED
      BY <1>4, <3>1, <3>2, <3>3, <3>4 DEF Entered
  <2>3. where \in Thread
    BY DEF Thread, Active
  <2> QED
    BY <1>2, <2>1, <2>2, <2>3, Zenon
<1>5. ASSUME NEW w \in Workers,
             StopOperations(w) \/ CompleteLog(w) \/ CompleteWork(w) \/ CompleteTick(w) \/ KernelWrite(w)
      PROVE  UNCHANGED <<thread, config>>
  BY <1>5 DEF StopOperations, CompleteLog, CompleteWork, CompleteTick, KernelWrite, lifecycle
<1>6. CompleteAdmin \/ Sender \/ RequestStop \/ Returned \/ UNCHANGED vars => UNCHANGED <<thread, config>>
  BY Zenon DEF CompleteAdmin, Sender, SenderReads, SenderFlushes, SenderDrains, SenderStops, RequestStop, Returned, vars, lifecycle
<1>7. Serve => SpawnOrRun \/ UNCHANGED <<thread, config>>
  BY DEF Serve, StartMetrics, StartLogs, StartApplications, Join, AbortAndJoin, StopApplications,
         FinishLogs, AwaitLogs, FinishMetrics
<1> QED
  BY <1>1, <1>3, <1>4, <1>5, <1>6, <1>7 DEF Next

\* A number of records is a whole number of units.
LEMMA WholeUnits == \A n \in Nat : n * Unit \in Nat /\ (n * Unit) % Unit = 0
BY DEF Unit

\* consumeBytes leaves no negative count in the batch, and ends it between records.
LEMMA BatchArithmetic ==
  ASSUME NEW at \in Nat, NEW batch \in Nat, NEW n \in Nat, n <= batch * Unit - (at % Unit)
  PROVE  LET left == batch - ((at + n) \div Unit - at \div Unit)
         IN  left \in Nat /\ (left = 0 => (at + n) % Unit = 0)
BY DEF Unit

\* What the operations on a queue leave alone.
LEMMA EmitKeeps ==
  ASSUME NEW w \in Workers, NEW l \in Queue
  PROVE  /\ emit(w, l) \in Queue /\ emit(w, l).at = l.at /\ emit(w, l).batch = l.batch
         /\ emit(w, l).op = l.op /\ emit(w, l).disabled = l.disabled
BY DEF emit, Queue

\* queueLog starts a write of at least one record and moves no position.
LEMMA QueueLogSelects ==
  ASSUME NEW l \in Queue, Count(l) > 0
  PROVE  /\ queueLog(l) \in Queue /\ queueLog(l).at = l.at /\ queueLog(l).batch > 0
         /\ l.batch > 0 => queueLog(l).batch = l.batch
         /\ queueLog(l).op = Pending /\ queueLog(l).disabled = l.disabled
<1>1. BatchLimit \in Nat /\ BatchLimit > 0
  BY ServerAssumption DEF BatchLimit
<1>2. Count(l) \in Nat
  BY DEF Count, Queue, Unit
<1>3. Least(Count(l), BatchLimit) \in Nat /\ Least(Count(l), BatchLimit) > 0
  BY <1>1, <1>2 DEF Least
<1> DEFINE b == IF l.batch = 0 THEN Least(Count(l), BatchLimit) ELSE l.batch
<1>4. Pending \in Int /\ l.batch \in Nat
  BY DEF Pending, Queue
<1>5. b \in Nat /\ b > 0 /\ (l.batch > 0 => b = l.batch)
  BY <1>3, <1>4
<1>6. queueLog(l) = [l EXCEPT !.op = Pending, !.batch = b]
  BY DEF queueLog
<1> HIDE DEF b
<1>7. LET q == [l EXCEPT !.op = Pending, !.batch = b]
      IN  q \in Queue /\ q.at = l.at /\ q.batch = b /\ q.op = Pending /\ q.disabled = l.disabled
  BY <1>4, <1>5, Zenon DEF Queue
<1> QED
  BY <1>5, <1>6, <1>7

\* consume goes on to the end of a record.
LEMMA ConsumeKeeps ==
  ASSUME NEW l \in Queue
  PROVE  /\ consume(l) \in Queue /\ consume(l).at % Unit = 0 /\ consume(l).batch = l.batch
         /\ consume(l).op = l.op /\ consume(l).disabled = l.disabled
<1>1. l.at \div Unit + 1 \in Nat
  BY DEF Queue, Unit
<1>2. (l.at \div Unit + 1) * Unit \in Nat /\ ((l.at \div Unit + 1) * Unit) % Unit = 0
  BY <1>1, WholeUnits
<1> QED
  BY <1>2 DEF consume, Queue

\* consumeAll stops between two records.
LEMMA ConsumeAllKeeps ==
  ASSUME NEW l \in Queue
  PROVE  /\ consumeAll(l) \in Queue /\ consumeAll(l).at % Unit = 0 /\ consumeAll(l).batch = l.batch
         /\ consumeAll(l).op = l.op /\ consumeAll(l).disabled = l.disabled
<1>0. l.tail \in Nat
  BY DEF Queue
<1>1. l.tail * Unit \in Nat /\ (l.tail * Unit) % Unit = 0
  BY <1>0, WholeUnits
<1> QED
  BY <1>1 DEF consumeAll, Queue

\* A batch that is written to its end ends a record.
LEMMA ConsumeBytesAdvances ==
  ASSUME NEW l \in Queue, NEW n \in Nat, n <= BatchUnits(l)
  PROVE  /\ consumeBytes(l, n) \in Queue /\ consumeBytes(l, n).at = l.at + n
         /\ consumeBytes(l, n).batch = 0 => (l.at + n) % Unit = 0
         /\ consumeBytes(l, n).op = l.op /\ consumeBytes(l, n).disabled = l.disabled
<1> DEFINE after == l.at + n
           left == l.batch - (after \div Unit - l.at \div Unit)
<1>1. after \in Nat /\ l.at \in Nat /\ l.batch \in Nat
  BY DEF Queue
<1>2. n <= l.batch * Unit - (l.at % Unit)
  BY DEF BatchUnits
<1>3. left \in Nat /\ (left = 0 => after % Unit = 0)
  BY <1>1, <1>2, BatchArithmetic
<1>4. consumeBytes(l, n) = [l EXCEPT !.at = after, !.batch = left]
  BY DEF consumeBytes
<1> HIDE DEF after, left
<1>5. LET c == [l EXCEPT !.at = after, !.batch = left]
      IN  c \in Queue /\ c.at = after /\ c.batch = left /\ c.op = l.op /\ c.disabled = l.disabled
  BY <1>1, <1>3, Zenon DEF Queue
<1> QED
  BY <1>3, <1>4, <1>5 DEF after

\* A write is collected, or discarded.
LEMMA Cleared ==
  ASSUME NEW l \in Queue
  PROVE  LET c == [l EXCEPT !.op = Idle, !.cancel = FALSE]
         IN  /\ c \in Queue /\ c.at = l.at /\ c.batch = l.batch /\ c.op = Idle
             /\ c.disabled = l.disabled
<1>1. Idle \in Int
  BY DEF Idle
<1> QED
  BY <1>1, Zenon DEF Queue

\* What the descriptor holds after a write.
LEMMA Appended ==
  ASSUME NEW S, NEW a \in Seq(S), NEW b \in Seq(S)
  PROVE  /\ a \o b \in Seq(S) /\ Len(a \o b) = Len(a) + Len(b)
         /\ \A k \in 1 .. Len(a) : (a \o b)[k] = a[k]
         /\ \A k \in Len(a) + 1 .. Len(a) + Len(b) : (a \o b)[k] = b[k - Len(a)]
OBVIOUS

\* Every step keeps one writer and the records on the descriptor whole.
LEMMA LoggingStep == LifecycleInv /\ LoggingInv /\ [Next]_vars => LoggingInv'
<1> SUFFICES ASSUME LifecycleInv, LoggingInv, [Next]_vars PROVE LoggingInv'
  OBVIOUS
<1>0. Onward /\ UNCHANGED config
  BY OnwardStep
<1>t. /\ logger \in [Workers -> Queue] /\ sink \in Seq(Workers \X Nat) /\ thread \in [Workers -> Thread]
      /\ Workers' = Workers
  BY <1>0 DEF LoggingInv, LoggerType, LifecycleInv, LifecycleType, Workers
<1>c. ASSUME NEW w \in Workers PROVE Consistent(w, logger[w], thread[w], logOwner) /\ logger[w] \in Queue
  BY <1>t DEF LoggingInv, WriterOwns
\* Steps that leave the log alone, and threads that have entered their loops.
<1>1. CASE /\ UNCHANGED <<logger, logOwner, sink>>
           /\ \A v \in Workers : thread[v] \in {"loop", "quiesce"} => thread'[v] = thread[v]
  <2>1. LoggerType' /\ WriterOwns'
    BY <1>0, <1>1, <1>t, Zenon DEF LoggingInv, LoggerType, WriterOwns, Consistent
  <2>2. \A v \in Workers : Excused(v) /\ thread[v] \in Entered => Excused(v)'
    BY <1>0, <1>1, Zenon DEF Excused, Onward
  <2>3. \A k \in 1 .. Len(sink) : sink[k][1] \in Workers
    BY <1>t
  <2>4. sink # <<>> => Len(sink) \in 1 .. Len(sink)
    BY <1>t
  <2>5. SinkInv'
    <3>1. LastRecord'
      <4>1. sink # <<>> => sink[Len(sink)][1] \in Workers /\ thread[sink[Len(sink)][1]] \in Entered
        BY <2>3, <2>4 DEF LoggingInv, SinkInv
      <4>2. LastRecord
        BY DEF LoggingInv, SinkInv
      <4> QED
        BY <1>0, <1>1, <2>2, <4>1, <4>2 DEF LastRecord
    <3>2. \A k \in 1 .. Len(sink) : thread[sink[k][1]] \in Entered
      BY DEF LoggingInv, SinkInv
    <3>3. \A k \in 1 .. Len(sink) : thread'[sink[k][1]] \in Entered
      BY <1>0, <2>3, <3>2, Zenon DEF Onward
    <3>4. ASSUME NEW k \in 1 .. Len(sink) - 1
          PROVE  \/ sink[k][2] % Unit = Unit - 1
                 \/ sink[k + 1] = <<sink[k][1], sink[k][2] + 1>>
                 \/ \E v \in Workers : v = sink[k][1] /\ Excused(v)'
      <4>1. k \in 1 .. Len(sink) /\ sink[k][1] \in Workers /\ thread[sink[k][1]] \in Entered
        BY <1>t, <2>3, <3>2
      <4> QED
        BY <2>2, <4>1 DEF LoggingInv, SinkInv
    <3> QED
      BY <1>1, <3>1, <3>3, <3>4 DEF SinkInv
  <2> QED
    BY <2>1, <2>5 DEF LoggingInv
\* Steps that change the tail of w's queue, or its cancel flag.
<1>2. ASSUME NEW w \in Workers, NEW l \in Queue, logger' = [logger EXCEPT ![w] = l],
             l.at = logger[w].at, l.batch = logger[w].batch, l.op = logger[w].op,
             l.disabled = logger[w].disabled, UNCHANGED <<logOwner, sink>>,
             \A v \in Workers : thread[v] \in {"loop", "quiesce"} => thread'[v] \in {"loop", "quiesce"}
      PROVE  LoggingInv'
  <2>1. Consistent(w, l, thread'[w], logOwner')
    BY <1>2, <1>c DEF Consistent, BatchUnits
  <2>2. NextUnit(l) = NextUnit(logger[w])
    BY <1>2 DEF NextUnit
  <2> QED
    <3>1. OthersKept(w)
      BY <1>2 DEF OthersKept
    <3>2. Continues(w, l)
      BY <1>2, <2>2, Zenon DEF Continues
    <3> QED
      BY <1>0, <1>2, <2>1, <3>1, <3>2, QueueMoves, Zenon
<1>3. ASSUME NEW w \in Workers, Check(w) PROVE LoggingInv'
  <2>1. thread[w] = "check" /\ UNCHANGED <<logOwner, sink>>
    BY <1>3 DEF Check, delivery
  <2>2. \A v \in Workers : thread[v] \in {"loop", "quiesce"} => thread'[v] = thread[v]
    BY <1>3, <1>t, <2>1 DEF Check, Go
  <2>3. CASE UNCHANGED logger
    BY <1>1, <2>1, <2>2, <2>3
  <2>4. CASE logger' = [logger EXCEPT ![w] = emit(w, logger[w])]
    BY <1>2, <1>c, <2>1, <2>2, <2>4, EmitKeeps, Zenon
  <2> QED
    BY <1>3, <2>3, <2>4 DEF Check
<1>4. ASSUME NEW w \in Workers, CompleteWork(w) PROVE LoggingInv'
  <2>1. logger' = [logger EXCEPT ![w] = emit(w, logger[w])] /\ UNCHANGED <<logOwner, sink, thread>>
    BY <1>4 DEF CompleteWork, delivery, lifecycle
  <2> QED
    BY <1>2, <1>c, <2>1, EmitKeeps, Zenon
<1>5. ASSUME NEW w \in Workers, StopOperations(w) \/ LoopFails(w) PROVE LoggingInv'
  <2>1. /\ logger' = [logger EXCEPT ![w].cancel = logger[w].op # Idle] /\ UNCHANGED <<logOwner, sink>>
        /\ UNCHANGED thread \/ thread' = [thread EXCEPT ![w] = "quiesce"]
    BY <1>5 DEF StopOperations, LoopFails, Go, delivery, lifecycle
  <2> DEFINE l == [logger[w] EXCEPT !.cancel = logger[w].op # Idle]
  <2>2. /\ l \in Queue /\ l.at = logger[w].at /\ l.batch = logger[w].batch /\ l.op = logger[w].op
        /\ l.disabled = logger[w].disabled
    BY <1>c, Zenon DEF Queue
  <2>3. logger' = [logger EXCEPT ![w] = l]
    BY <2>1
  <2>4. \A v \in Workers : thread[v] \in {"loop", "quiesce"} => thread'[v] \in {"loop", "quiesce"}
    BY <1>t, <2>1
  <2> HIDE DEF l
  <2> QED
    BY <1>2, <2>1, <2>2, <2>3, <2>4, Zenon
<1>6. ASSUME NEW w \in Workers, LoopTop(w) PROVE LoggingInv'
  <2> DEFINE begins == shouldStop /\ ending[w] = "none"
             l == IF begins THEN emit(w, logger[w]) ELSE logger[w]
             queues == ending[w] # "stopping" /\ QueuesLog(w, l)
  <2>1. /\ thread[w] = "loop" /\ UNCHANGED sink
        /\ logger' = [logger EXCEPT ![w] = IF queues THEN queueLog(l) ELSE l]
        /\ logOwner' = IF queues THEN w ELSE logOwner
        /\ thread' = [thread EXCEPT ![w] = IF ending[w] = "stopping" /\ l.op = Idle THEN "release" ELSE "loop"]
    BY <1>6, Zenon DEF LoopTop, Go, delivery
  <2>2. /\ l \in Queue /\ l.at = logger[w].at /\ l.batch = logger[w].batch
        /\ l.op = logger[w].op /\ l.disabled = logger[w].disabled
    BY <1>c, EmitKeeps
  <2> HIDE DEF l
  <2>3. \A v \in Workers \ {w} : thread'[v] = thread[v]
    BY <1>t, <2>1
  <2>4. CASE queues
    <3>1. /\ config.log # "none" /\ l.op = Idle /\ Count(l) > 0 /\ logOwner \in {NoOwner, w}
          /\ logger' = [logger EXCEPT ![w] = queueLog(l)] /\ logOwner' = w
          /\ thread'[w] = "loop"
      BY <1>t, <2>1, <2>4, Zenon DEF QueuesLog
    <3>2. Consistent(w, queueLog(l), thread'[w], logOwner')
      BY <1>c, <2>2, <3>1, QueueLogSelects DEF Consistent, Pending
    <3>3. l.batch > 0 => queueLog(l).batch > 0 /\ NextUnit(queueLog(l)) = NextUnit(logger[w])
      BY <2>2, <3>1, QueueLogSelects DEF NextUnit, Idle, Pending
    <3>4. \A v \in Workers \ {w} : logOwner # v
      BY <3>1 DEF NoOwner, Workers
    <3>5. queueLog(l) \in Queue /\ queueLog(l).disabled = logger[w].disabled
      BY <2>2, <3>1, QueueLogSelects
    <3>6. OthersKept(w)
      BY <2>3, <3>4, Zenon DEF OthersKept
    <3>7. Continues(w, queueLog(l))
      BY <2>2, <3>1, <3>3 DEF Continues
    <3> QED
      BY <1>0, <2>1, <3>1, <3>2, <3>5, <3>6, <3>7, QueueMoves, Zenon
  <2>5. CASE ~queues
    <3>1. logger' = [logger EXCEPT ![w] = l] /\ UNCHANGED logOwner
      BY <2>1, <2>5, Zenon
    <3>2. thread'[w] = "loop" \/ (thread'[w] = "release" /\ l.op = Idle)
      BY <1>t, <2>1, Zenon
    <3>3. Consistent(w, l, thread'[w], logOwner')
      BY <1>c, <2>1, <2>2, <3>1, <3>2 DEF Consistent, BatchUnits
    <3>4. NextUnit(l) = NextUnit(logger[w])
      BY <2>2 DEF NextUnit
    <3>5. OthersKept(w)
      BY <2>3, <3>1, Zenon DEF OthersKept
    <3>6. Continues(w, l)
      BY <2>2, <3>1, <3>4 DEF Continues
    <3> QED
      BY <1>0, <2>1, <2>2, <3>1, <3>3, <3>5, <3>6, QueueMoves, Zenon
  <2> QED
    BY <2>4, <2>5, Zenon
<1>7. ASSUME NEW w \in Workers, CompleteLog(w) PROVE LoggingInv'
  <2> DEFINE done == [logger[w] EXCEPT !.op = Idle, !.cancel = FALSE]
             res == logger[w].op
  <2>1. LogWritten(w) /\ UNCHANGED <<sink, thread>> /\ res >= Canceled
    BY <1>7 DEF CompleteLog, lifecycle, delivery
  <2>2. /\ done \in Queue /\ done.at = logger[w].at /\ done.batch = logger[w].batch
        /\ done.op = Idle /\ done.disabled = logger[w].disabled
    BY <1>c, Cleared, Zenon
  <2>3. [done EXCEPT !.disabled = TRUE] \in Queue /\ [done EXCEPT !.disabled = TRUE].disabled
        /\ [done EXCEPT !.disabled = TRUE].op = Idle
    BY <2>2, Zenon DEF Queue
  <2>4. /\ Idle < 0 /\ Idle \in Int /\ Canceled # Idle /\ Canceled > Idle
        /\ logger[w].op \in Int /\ logOwner = w
    <3>1. logger[w].op \in Int
      BY <1>c DEF Queue
    <3> QED
      BY <1>c, <2>1, <3>1 DEF Consistent, Idle, Canceled
  <2>5. OthersKept(w)
    BY <2>1, <2>4 DEF OthersKept
  <2> HIDE DEF done
  <2>6. CASE config.log = "pipe" /\ res = Canceled /\ logger' = [logger EXCEPT ![w] = done]
    <3>1. Consistent(w, done, thread'[w], logOwner')
      BY <1>c, <2>2, <2>4 DEF Consistent
    <3>2. Continues(w, done)
      BY <2>6 DEF Continues
    <3> QED
      BY <1>0, <2>1, <2>2, <2>5, <2>6, <3>1, <3>2, QueueMoves, Zenon
  <2>7. CASE res <= 0 /\ logger' = [logger EXCEPT ![w] = consumeAll([done EXCEPT !.disabled = TRUE])]
    <3> DEFINE l == consumeAll([done EXCEPT !.disabled = TRUE])
    <3>1. l \in Queue /\ l.disabled /\ l.op = Idle /\ l.at % Unit = 0
      BY <2>3, ConsumeAllKeeps, Zenon
    <3> HIDE DEF l
    <3>2. Consistent(w, l, thread'[w], logOwner')
      BY <2>4, <3>1 DEF Consistent
    <3>3. logger' = [logger EXCEPT ![w] = l]
      BY <2>7 DEF l
    <3>4. Continues(w, l)
      BY <3>1 DEF Continues
    <3> QED
      BY <1>0, <2>1, <2>5, <3>1, <3>2, <3>3, <3>4, QueueMoves, Zenon
  <2>8. CASE /\ res > 0 /\ logger' = [logger EXCEPT ![w] = consumeBytes(done, res)]
             /\ logger'[w].batch > 0 => UNCHANGED logOwner
    <3> DEFINE l == consumeBytes(done, res)
    <3>1. res \in Nat /\ res <= BatchUnits(done)
      BY <1>c, <2>2, <2>4, <2>8 DEF Consistent, BatchUnits
    <3>2. /\ l \in Queue /\ l.at = logger[w].at + res /\ l.op = Idle /\ l.disabled = logger[w].disabled
          /\ l.batch = 0 => (logger[w].at + res) % Unit = 0
      BY <2>2, <3>1, ConsumeBytesAdvances
    <3> HIDE DEF l
    <3>3. logger' = [logger EXCEPT ![w] = l] /\ logger'[w] = l
      BY <1>t, <2>8 DEF l
    <3>4. config.log = "pipe" => (logger[w].at + res) % Unit = 0
      <4>1. SUFFICES ASSUME config.log = "pipe" PROVE (logger[w].at + res) % Unit = 0
        BY Zenon
      <4>2. /\ logger[w].at % Unit = 0 /\ res = BatchUnits(logger[w])
            /\ logger[w].at \in Nat /\ logger[w].batch \in Nat
        BY <1>c, <2>8, <4>1 DEF Consistent, Queue
      <4>3. res = logger[w].batch * Unit
        BY <4>2 DEF BatchUnits, Unit
      <4> QED
        BY <4>2, <4>3, <3>1 DEF Unit
    <3>5. Consistent(w, l, thread'[w], logOwner')
      BY <2>4, <3>2, <3>4 DEF Consistent
    <3>6. NextUnit(logger[w]) = logger[w].at + res /\ NextUnit(l) = NextUnit(logger[w])
      <4>1. logger[w].at \in Nat
        BY <1>c DEF Queue
      <4> QED
        BY <2>4, <2>8, <3>1, <3>2, <4>1 DEF NextUnit
    <3>7. l.batch > 0 => logOwner' = w
      BY <2>4, <2>8, <3>3
    <3>8. l.batch \in Nat
      BY <3>2, Zenon DEF Queue
    <3>9. Continues(w, l)
      BY <3>2, <3>6, <3>7, <3>8 DEF Continues
    <3> QED
      BY <1>0, <2>1, <2>5, <3>2, <3>3, <3>5, <3>9, QueueMoves, Zenon
  <2> QED
    BY <2>1, <2>6, <2>7, <2>8 DEF LogWritten, done
<1>8. ASSUME NEW w \in Workers, Quiesce(w) PROVE LoggingInv'
  <2> DEFINE l == [logger[w] EXCEPT !.op = Idle, !.cancel = FALSE]
  <2>1. /\ thread' = [thread EXCEPT ![w] = "release"] /\ UNCHANGED <<logOwner, sink>>
        /\ logger' = [logger EXCEPT ![w] = l]
    BY <1>8, Zenon DEF Quiesce, Go, delivery
  <2>2. l \in Queue /\ l.op = Idle /\ l.at = logger[w].at /\ l.disabled = logger[w].disabled
    BY <1>c, Cleared, Zenon
  <2> HIDE DEF l
  <2>3. thread'[w] = "release" /\ \A v \in Workers \ {w} : thread'[v] = thread[v]
    BY <1>t, <2>1, Zenon
  <2>4. Consistent(w, l, thread'[w], logOwner')
    BY <1>c, <2>2 DEF Consistent, Idle
  <2>5. OthersKept(w)
    BY <2>1, <2>3 DEF OthersKept
  <2>6. Continues(w, l)
    BY <2>3 DEF Continues
  <2> QED
    BY <1>0, <2>1, <2>2, <2>4, <2>5, <2>6, QueueMoves, Zenon
<1>9. ASSUME NEW w \in Workers, Release(w) PROVE LoggingInv'
  <2>1. /\ thread[w] = "release" /\ thread' = [thread EXCEPT ![w] = "restore"] /\ UNCHANGED <<logger, sink>>
        /\ logOwner' = IF logOwner = w THEN NoOwner ELSE logOwner
    BY <1>9 DEF Release, Go, releaseLog, delivery
  <2>2. thread'[w] = "restore" /\ \A v \in Workers \ {w} : thread'[v] = thread[v]
    BY <1>t, <2>1, Zenon
  <2>3. Consistent(w, logger[w], thread'[w], logOwner')
    BY <1>c, <2>1 DEF Consistent
  <2>4. logger' = [logger EXCEPT ![w] = logger[w]]
    BY <1>t, <2>1
  <2>5. OthersKept(w)
    BY <2>1, <2>2, Zenon DEF OthersKept
  <2>6. Continues(w, logger[w])
    BY <2>2 DEF Continues
  <2> QED
    BY <1>0, <1>c, <2>1, <2>3, <2>4, <2>5, <2>6, QueueMoves, Zenon
<1>10. ASSUME NEW w \in Workers, KernelWrite(w) PROVE LoggingInv'
  <2>1. /\ logger[w].op = Pending /\ UNCHANGED <<logOwner, thread>>
        /\ logOwner = w /\ logger[w].batch > 0 /\ config.log # "none" /\ thread[w] \in {"loop", "quiesce"}
    BY <1>10, <1>c DEF KernelWrite, lifecycle, Consistent, Pending, Idle
  <2>2. PICK n \in Canceled .. BatchUnits(logger[w]) :
          /\ n > 0 /\ config.log = "pipe" => n = BatchUnits(logger[w])
          /\ sink' = IF n > 0 THEN sink \o Units(w, n) ELSE sink
          /\ logger' = [logger EXCEPT ![w].op = n]
    BY <1>10, Zenon DEF KernelWrite
  <2> DEFINE l == [logger[w] EXCEPT !.op = n]
  <2>3. BatchUnits(logger[w]) \in Int /\ n \in Int /\ n >= Canceled /\ n <= BatchUnits(logger[w])
    <3>1. logger[w].at \in Nat /\ logger[w].batch \in Nat
      BY <1>c DEF Queue
    <3> QED
      BY <3>1 DEF BatchUnits, Unit, Canceled
  <2>4. /\ l \in Queue /\ l.at = logger[w].at /\ l.batch = logger[w].batch
        /\ l.op = n /\ l.disabled = logger[w].disabled
    BY <1>c, <2>3 DEF Queue
  <2>5. logger' = [logger EXCEPT ![w] = l]
    BY <2>2
  <2> HIDE DEF l
  <2>6. BatchUnits(l) = BatchUnits(logger[w])
    BY <2>4 DEF BatchUnits
  <2>7. Consistent(w, l, thread'[w], logOwner')
    BY <1>c, <2>1, <2>2, <2>3, <2>4, <2>6 DEF Consistent
  <2>8. CASE n <= 0
    <3>1. UNCHANGED sink
      BY <2>2, <2>3, <2>8
    <3>2. NextUnit(l) = NextUnit(logger[w])
      BY <2>1, <2>3, <2>4, <2>8 DEF NextUnit, Pending
    <3>3. OthersKept(w) /\ Continues(w, l)
      BY <2>1, <2>4, <3>2 DEF OthersKept, Continues
    <3> QED
      BY <1>0, <2>4, <2>5, <2>7, <3>1, <3>3, QueueMoves, Zenon
  <2>9. CASE n > 0
    <3> DEFINE at == logger[w].at
               old == Len(sink)
    <3>1. n \in Nat /\ at \in Nat /\ old \in Nat /\ logger[w].batch \in Nat
      BY <1>t, <1>c, <2>3, <2>9 DEF Queue
    <3>2. Units(w, n) \in Seq(Workers \X Nat) /\ Len(Units(w, n)) = n
          /\ \A k \in 1 .. n : Units(w, n)[k] = <<w, at + k - 1>>
      BY <3>1 DEF Units
    <3>3. /\ sink' \in Seq(Workers \X Nat) /\ Len(sink') = old + n
          /\ \A k \in 1 .. old : sink'[k] = sink[k]
          /\ \A k \in old + 1 .. old + n : sink'[k] = <<w, at + (k - old) - 1>>
      <4>1. sink' = sink \o Units(w, n)
        BY <2>2, <2>9
      <4>2. \A k \in old + 1 .. old + n : k - old \in 1 .. n
        BY <3>1
      <4>3. /\ sink \o Units(w, n) \in Seq(Workers \X Nat) /\ Len(sink \o Units(w, n)) = old + n
            /\ \A k \in 1 .. old : (sink \o Units(w, n))[k] = sink[k]
            /\ \A k \in old + 1 .. old + n : (sink \o Units(w, n))[k] = Units(w, n)[k - old]
        <5> DEFINE units == Units(w, n)
        <5>1. sink \in Seq(Workers \X Nat) /\ units \in Seq(Workers \X Nat) /\ Len(units) = n
          BY <1>t, <3>2
        <5> HIDE DEF units
        <5>2. /\ sink \o units \in Seq(Workers \X Nat) /\ Len(sink \o units) = Len(sink) + Len(units)
              /\ \A k \in 1 .. Len(sink) : (sink \o units)[k] = sink[k]
              /\ \A k \in Len(sink) + 1 .. Len(sink) + Len(units) : (sink \o units)[k] = units[k - Len(sink)]
          BY <5>1, Appended, Zenon
        <5> QED
          BY <5>1, <5>2, Zenon DEF units
      <4> HIDE DEF old, at
      <4> QED
        BY <3>2, <4>1, <4>2, <4>3, Zenon
    <3> HIDE DEF at, old
    <3>4. logger'[w] = l /\ \A v \in Workers \ {w} : logger'[v] = logger[v]
      BY <1>t, <2>5
    <3>5. LoggerType'
      BY <1>t, <2>4, <2>5, <3>3, Zenon DEF LoggerType
    <3>6. WriterOwns'
      BY <1>0, <1>c, <1>t, <2>1, <2>7, <3>4 DEF WriterOwns, Consistent
    <3>7. \A v \in Workers : Excused(v)' = Excused(v)
      BY <1>0, <2>1, <2>4, <3>4, Zenon DEF Excused
    <3>8. \A k \in 1 .. old : sink[k][1] \in Workers /\ sink[k][2] \in Nat
      BY <1>t DEF old
    <3>9. \A k \in 1 .. Len(sink') : thread'[sink'[k][1]] \in Entered
      <4>1. \A k \in 1 .. old : thread[sink[k][1]] \in Entered
        BY Zenon DEF LoggingInv, SinkInv, old
      <4>2. \A k \in 1 .. Len(sink') : k \in 1 .. old \/ k \in old + 1 .. old + n
        BY <3>1, <3>3
      <4>3. thread[w] \in Entered
        BY <2>1 DEF Entered
      <4>4. ASSUME NEW k \in 1 .. Len(sink') PROVE thread'[sink'[k][1]] \in Entered
        <5>1. CASE k \in 1 .. old
          <6>1. sink'[k] = sink[k]
            BY <3>3, <5>1, Zenon
          <6> QED
            BY <2>1, <4>1, <5>1, <6>1, Zenon
        <5>2. CASE k \in old + 1 .. old + n
          <6>1. sink'[k][1] = w
            BY <3>3, <5>2
          <6> QED
            BY <2>1, <4>3, <6>1, Zenon
        <5> QED
          BY <4>2, <5>1, <5>2, Zenon
      <4> QED
        BY <4>4, Zenon
    <3>10. ASSUME NEW k \in 1 .. Len(sink') - 1
           PROVE  \/ sink'[k][2] % Unit = Unit - 1
                  \/ sink'[k + 1] = <<sink'[k][1], sink'[k][2] + 1>>
                  \/ \E v \in Workers : v = sink'[k][1] /\ Excused(v)'
      <4>1. CASE k < old
        <5>1. k \in 1 .. old - 1 /\ k \in 1 .. old /\ k + 1 \in 1 .. old
          BY <3>1, <3>3, <4>1
        <5>2. \/ sink[k][2] % Unit = Unit - 1
              \/ sink[k + 1] = <<sink[k][1], sink[k][2] + 1>>
              \/ Excused(sink[k][1])
          BY <5>1, Zenon DEF LoggingInv, SinkInv, old
        <5>3. sink'[k] = sink[k] /\ sink'[k + 1] = sink[k + 1] /\ sink[k][1] \in Workers
          BY <3>3, <3>8, <5>1
        <5> QED
          BY <3>7, <5>2, <5>3
      <4>2. CASE k = old
        <5>1. sink # <<>> /\ old \in 1 .. old /\ sink'[k] = sink[old] /\ sink'[k + 1] = <<w, at>>
          <6>1. k + 1 \in old + 1 .. old + n /\ old \in 1 .. old
            BY <3>1, <3>3, <4>2, <2>9
          <6>2. at + ((k + 1) - old) - 1 = at
            BY <3>1, <4>2
          <6> QED
            <7>1. sink # <<>>
              BY <6>1 DEF old
            <7> QED
              BY <3>3, <4>2, <6>1, <6>2, <7>1, Zenon
        <5> DEFINE v == sink[old][1]
                   u == sink[old][2]
        <5>2. \/ u % Unit = Unit - 1
              \/ Excused(v)
              \/ logOwner = v /\ NextUnit(logger[v]) = u + 1
          BY <5>1, Zenon DEF LoggingInv, SinkInv, LastRecord, old
        <5>3. NextUnit(logger[w]) = at
          BY <2>1, <3>1 DEF NextUnit, Pending, at
        <5>4. sink[old] = <<v, u>> /\ v \in Workers
          <6>1. \A x \in Workers \X Nat : x = <<x[1], x[2]>> /\ x[1] \in Workers
            OBVIOUS
          <6>2. sink[old] \in Workers \X Nat
            BY <1>t, <5>1 DEF old
          <6> QED
            BY <6>1, <6>2
        <5> HIDE DEF v, u
        <5>5. sink'[k][1] = v /\ sink'[k][2] = u
          BY <5>1, <5>4
        <5>6. CASE Excused(v)
          BY <3>7, <5>4, <5>5, <5>6, Zenon
        <5>7. CASE logOwner = v /\ NextUnit(logger[v]) = u + 1
          BY <2>1, <5>1, <5>3, <5>5, <5>7, Zenon
        <5> QED
          BY <5>2, <5>5, <5>6, <5>7, Zenon
      <4>3. CASE k > old
        <5>1. /\ k \in old + 1 .. old + n /\ k + 1 \in old + 1 .. old + n
              /\ at + ((k + 1) - old) - 1 = (at + (k - old) - 1) + 1
          BY <3>1, <3>3, <4>3
        <5>2. sink'[k] = <<w, at + (k - old) - 1>> /\ sink'[k + 1] = <<w, at + ((k + 1) - old) - 1>>
          BY <3>3, <5>1, Zenon
        <5> QED
          BY <5>1, <5>2
      <4>4. k < old \/ k = old \/ k > old
        BY <3>1
      <4> QED
        BY <4>1, <4>2, <4>3, <4>4, Zenon
    <3>11. LastRecord'
      <4>1. sink'[Len(sink')] = <<w, at + n - 1>>
        <5>1. old + n \in old + 1 .. old + n /\ at + ((old + n) - old) - 1 = at + n - 1
          BY <2>9, <3>1
        <5>2. sink'[old + n] = <<w, at + ((old + n) - old) - 1>>
          BY <3>3, <5>1, Zenon
        <5> QED
          BY <3>3, <5>1, <5>2
      <4>2. NextUnit(l) = (at + n - 1) + 1
        BY <2>4, <2>9, <3>1 DEF NextUnit, at
      <4>3. config.log = "pipe" => (at + n - 1) % Unit = Unit - 1
        <5>1. SUFFICES ASSUME config.log = "pipe" PROVE (at + n - 1) % Unit = Unit - 1
          OBVIOUS
        <5>2. at % Unit = 0 /\ n = logger[w].batch * Unit - (at % Unit)
          BY <1>c, <2>2, <2>9, <5>1 DEF Consistent, BatchUnits, at
        <5> QED
          BY <2>9, <3>1, <5>2 DEF Unit
      <4>4. config.log \in {"none", "file", "pipe"}
        BY Zenon DEF LifecycleInv, LifecycleType, ConfigurationSet
      <4> QED
        BY <1>0, <2>1, <2>4, <3>4, <4>1, <4>2, <4>3, <4>4 DEF LastRecord, NextUnit
    <3>12. SinkInv'
      <4>1. \A k \in 1 .. Len(sink') - 1 :
               \/ sink'[k][2] % Unit = Unit - 1
               \/ sink'[k + 1] = <<sink'[k][1], sink'[k][2] + 1>>
               \/ config.log = "file" /\ (logger'[sink'[k][1]].disabled \/ thread'[sink'[k][1]] # "loop")
        BY <1>0, <3>10 DEF Excused
      <4> QED
        BY <1>0, <3>9, <3>11, <4>1, Zenon DEF SinkInv, Excused
    <3> QED
      BY <3>5, <3>6, <3>12 DEF LoggingInv
  <2> QED
    BY <2>3, <2>8, <2>9
<1>11. CASE SenderDrains \/ AwaitLogs
  <2>1. CASE SenderDrains
    <3>1. config.log = "pipe"
      BY <2>1 DEF SenderDrains, LifecycleInv, SenderOwned
    <3>2. UNCHANGED <<logOwner, sink, thread>>
      BY <2>1 DEF SenderDrains, lifecycle
    <3>3. CASE UNCHANGED logger
      BY <1>1, <3>2, <3>3
    <3>4. ASSUME NEW w \in Workers, logger' = [logger EXCEPT ![w] = consume(logger[w])]
          PROVE  LoggingInv'
      <4> DEFINE l == consume(logger[w])
      <4>1. /\ l \in Queue /\ l.at % Unit = 0 /\ l.batch = logger[w].batch /\ l.op = logger[w].op
            /\ l.disabled = logger[w].disabled
        BY <1>c, ConsumeKeeps
      <4>2. logger' = [logger EXCEPT ![w] = l]
        BY <3>4, Zenon
      <4> HIDE DEF l
      <4>3. Consistent(w, l, thread'[w], logOwner')
        BY <1>c, <3>1, <3>2, <4>1, Zenon DEF Consistent, BatchUnits
      <4>4. OthersKept(w) /\ Continues(w, l)
        BY <3>1, <3>2 DEF OthersKept, Continues
      <4> QED
        BY <1>0, <3>2, <4>1, <4>2, <4>3, <4>4, QueueMoves, Zenon
    <3> QED
      BY <2>1, <3>3, <3>4 DEF SenderDrains
  <2>2. CASE AwaitLogs
    <3>1. /\ sink' = <<>> /\ logger' = [w \in Workers |-> consumeAll(logger[w])]
          /\ UNCHANGED <<thread, logOwner>>
      BY <2>2 DEF AwaitLogs
    <3>2. LoggerType'
      BY <1>c, <1>t, <3>1, ConsumeAllKeeps DEF LoggerType
    <3>3. ASSUME NEW w \in Workers PROVE Consistent(w, logger'[w], thread[w], logOwner)
      <4>1. /\ logger'[w].at % Unit = 0 /\ logger'[w].batch = logger[w].batch
            /\ logger'[w].op = logger[w].op
        BY <1>c, <3>1, ConsumeAllKeeps
      <4>2. BatchUnits(logger[w]) <= BatchUnits(logger'[w])
        <5>1. logger[w].at \in Nat /\ logger[w].batch \in Nat
          BY <1>c, Zenon DEF Queue
        <5> QED
          BY <4>1, <5>1 DEF BatchUnits, Unit
      <4>3. config.log = "pipe" => BatchUnits(logger'[w]) = BatchUnits(logger[w])
        BY <1>c, <4>1, Zenon DEF BatchUnits, Consistent
      <4>4. logger[w].op \in Int /\ BatchUnits(logger[w]) \in Int /\ BatchUnits(logger'[w]) \in Int
        <5>1. logger[w].at \in Nat /\ logger[w].batch \in Nat /\ logger[w].op \in Int
          BY <1>c DEF Queue
        <5> QED
          BY <4>1, <5>1 DEF BatchUnits, Unit
      <4>5. Consistent(w, logger[w], thread[w], logOwner)
        BY <1>c
      <4>6. logger'[w].op # Idle =>
              thread[w] \in {"loop", "quiesce"} /\ logOwner = w /\ logger'[w].batch > 0 /\ config.log # "none"
        BY <4>1, <4>5, Zenon DEF Consistent
      <4>7. logger'[w].op > 0 => logger'[w].op <= BatchUnits(logger'[w])
        <5>1. logger[w].op > 0 => logger[w].op <= BatchUnits(logger[w])
          BY <4>5, Zenon DEF Consistent
        <5> QED
          BY <4>1, <4>2, <4>4, <5>1
      <4>8. config.log = "pipe" /\ logger'[w].op > 0 => logger'[w].op = BatchUnits(logger'[w])
        <5>1. config.log = "pipe" /\ logger[w].op > 0 => logger[w].op = BatchUnits(logger[w])
          BY <4>5, Zenon DEF Consistent
        <5> QED
          BY <4>1, <4>3, <5>1, Zenon
      <4> QED
        BY <4>1, <4>6, <4>7, <4>8, Zenon DEF Consistent
    <3>4. WriterOwns'
      BY <1>0, <1>t, <3>1, <3>3, Zenon DEF WriterOwns, Consistent
    <3>5. SinkInv'
      BY <3>1 DEF SinkInv, LastRecord
    <3> QED
      BY <3>2, <3>4, <3>5 DEF LoggingInv
  <2> QED
    BY <1>11, <2>1, <2>2
<1>12. CASE SenderReads
  <2>1. UNCHANGED <<logger, logOwner, thread>> /\ (UNCHANGED sink \/ sink' = <<>>)
    BY <1>12 DEF SenderReads, lifecycle
  <2>2. CASE UNCHANGED sink
    BY <1>1, <2>1, <2>2, Zenon
  <2>3. CASE sink' = <<>>
    <3>1. LoggerType' /\ WriterOwns'
      BY <1>0, <1>t, <2>1, <2>3 DEF LoggingInv, LoggerType, WriterOwns, Consistent
    <3>2. SinkInv'
      BY <2>3 DEF SinkInv, LastRecord
    <3> QED
      BY <3>1, <3>2 DEF LoggingInv
  <2> QED
    BY <2>1, <2>2, <2>3
<1>13. ASSUME NEW w \in Workers, Pin(w) \/ Ready(w) \/ Barrier(w) \/ Restore(w) PROVE LoggingInv'
  <2>1. /\ UNCHANGED <<logger, logOwner, sink>> /\ thread[w] \notin {"loop", "quiesce"}
        /\ \E where : thread' = [thread EXCEPT ![w] = where]
    BY <1>13 DEF Pin, Ready, Barrier, Restore, Go, logging, delivery
  <2>2. \A v \in Workers : thread[v] \in {"loop", "quiesce"} => thread'[v] = thread[v]
    BY <1>t, <2>1
  <2> QED
    BY <1>1, <2>1, <2>2, Zenon
<1>14. CASE SpawnOrRun
  <2>1. UNCHANGED <<logger, logOwner, sink>>
    BY <1>14 DEF SpawnOrRun, logging, delivery
  <2>2. \A w \in Workers : w \in 1 .. serve.started \/ thread[w] = "none"
    BY <1>14, Zenon DEF SpawnOrRun, LifecycleInv, ThreadsCounted
  <2>3. serve.started \in Nat /\ config.workers \in Nat
    BY SomeWorker DEF LifecycleInv, LifecycleType
  <2>4. PICK x \in {0, serve.started + 1} : UNCHANGED thread \/ thread' = [thread EXCEPT ![x] = "pin"]
    BY <1>14 DEF SpawnOrRun
  <2>5. x \notin 1 .. serve.started
    BY <2>3, <2>4
  <2>6. \A v \in Workers : thread[v] \in {"loop", "quiesce"} => thread'[v] = thread[v]
    BY <1>t, <2>2, <2>4, <2>5, Zenon
  <2> QED
    BY <1>1, <2>1, <2>6
<1>15. ASSUME NEW w \in Workers, CompleteTick(w) PROVE LoggingInv'
  BY <1>1, <1>15 DEF CompleteTick, lifecycle, logging, delivery
<1>16. CASE \/ StartMetrics \/ StartLogs \/ StartApplications \/ Join \/ AbortAndJoin \/ StopApplications
            \/ FinishLogs \/ FinishMetrics
  BY <1>1, <1>16 DEF StartMetrics, StartLogs, StartApplications, Join, AbortAndJoin, StopApplications,
                    FinishLogs, FinishMetrics, logging, delivery
<1>17. CASE SenderFlushes \/ SenderStops \/ CompleteAdmin \/ RequestStop \/ Returned \/ UNCHANGED vars
  BY <1>1, <1>17, Zenon DEF SenderFlushes, SenderStops, CompleteAdmin, RequestStop, Returned, vars, lifecycle, logging, delivery
<1> QED
  BY <1>3, <1>4, <1>5, <1>6, <1>7, <1>8, <1>9, <1>10, <1>11, <1>12, <1>13, <1>14, <1>15, <1>16, <1>17
     DEF Next, Serve, Sender, Startup, Exit

(***************************************************************************)
(* The theorems.                                                           *)
(***************************************************************************)
\* The life cycle and the log together are inductive.
LEMMA ServerInvariant == Spec => [](LifecycleInv /\ LoggingInv)
<1>1. Init => LifecycleInv /\ LoggingInv
  BY LifecycleInit, LoggingInit
<1>2. LifecycleInv /\ LoggingInv /\ [Next]_vars => (LifecycleInv /\ LoggingInv)'
  BY LifecycleStep, LoggingStep
<1> QED
  BY <1>1, <1>2, PTL DEF Spec

\* However serve ends, whichever of its steps fails, no worker outlives what it
\* borrows: executors and the log sender are stopped after the last join, no
\* write is left to a worker that has gone, and a failure is reported.
THEOREM BorrowCorrect == Spec => []BorrowedOutlives
<1>1. LifecycleInv /\ LoggingInv => BorrowedOutlives
  <2> SUFFICES ASSUME LifecycleInv, LoggingInv PROVE BorrowedOutlives
    OBVIOUS
  <2>1. ASSUME NEW w \in Workers, thread[w] \in Active
        PROVE  /\ serve.step \in {"spawn", "main", "abort", "joinStarted"}
               /\ "executor" \in running
               /\ ~sender.finishing
    <3>1. serve.step \in {"spawn", "main", "abort", "joinStarted"}
      BY <2>1 DEF LifecycleInv, ThreadsCounted, Joining
    <3> QED
      BY <3>1 DEF LifecycleInv, RunningExact, SenderOwned, Joining, Ended
  <2>2. \A w \in Workers : logger[w].op # Idle => thread[w] \in {"loop", "quiesce"}
    BY DEF LoggingInv, WriterOwns, Consistent
  <2>3. ASSUME serve.step = "finished"
        PROVE  /\ running = {}
               /\ sender.step \in {"off", "stopped"}
               /\ mask = "original" \/ failure[0]
               /\ (\E w \in Workers : failure[w]) => serve.result = "error"
    <3>1. running = {} /\ sender.step \in {"off", "stopped"}
      BY <2>3 DEF LifecycleInv, RunningExact, SenderOwned
    <3>2. 0 \in Workers /\ \A w \in Workers : thread[w] \notin Active
      BY <2>3, SomeWorker DEF LifecycleInv, ThreadsCounted, Joining
    <3>3. mask = "original" \/ failure[0]
      BY <3>2 DEF LifecycleInv, ResultExact
    <3>4. (\E w \in Workers : failure[w]) => serve.result = "error"
      BY <2>3, Zenon DEF LifecycleInv, ResultExact, Ended
    <3> QED
      BY <3>1, <3>3, <3>4
  <2> QED
    BY <2>1, <2>2, <2>3 DEF BorrowedOutlives
<1> QED
  BY <1>1, ServerInvariant, PTL

\* Whatever the number of workers and the lengths of their queues, one write at
\* a time is in flight on the shared descriptor, and a record on it is whole
\* unless its worker lost the descriptor or left its loop.
THEOREM RecordsWhole == Spec => []WholeRecords
<1>1. LifecycleInv /\ LoggingInv => WholeRecords
  <2> SUFFICES ASSUME LoggingInv PROVE WholeRecords
    OBVIOUS
  <2>1. \A v, w \in Workers : logger[v].op # Idle /\ logger[w].op # Idle => v = w
    BY Zenon DEF LoggingInv, WriterOwns, Consistent
  <2>2. \A k \in 1 .. Len(sink) - 1 :
          \/ sink[k][2] % Unit = Unit - 1
          \/ sink[k + 1] = <<sink[k][1], sink[k][2] + 1>>
          \/ config.log = "file" /\ (logger[sink[k][1]].disabled \/ thread[sink[k][1]] # "loop")
    BY DEF LoggingInv, SinkInv, Excused
  <2> QED
    BY <2>1, <2>2 DEF WholeRecords
<1> QED
  BY <1>1, ServerInvariant, PTL

=============================================================================

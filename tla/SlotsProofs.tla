---------------------------- MODULE SlotsProofs ----------------------------
(***************************************************************************)
(* Slots, for any number of public and admin slots, any completion budget  *)
(* and any descriptors: the steps of the loop between two batches, its     *)
(* failure and its end, and the theorems.                                  *)
(***************************************************************************)
EXTENDS SlotStepProofs, FiniteSetTheorems

(***************************************************************************)
(* Between two batches                                                     *)
(***************************************************************************)
\* One slot of the table is swept, when shutdown begins or operations stop.
LEMMA SweepVisitStep ==
  ASSUME IInv, SweepVisit
  PROVE  IInv' /\ NoReclaim
<1> DEFINE X == Held(batch)
           u == IF \/ conn[position].fd = NoDescriptor
                   \/ pc = "shutdown" /\ Finishes(Table, position)
                THEN Table ELSE forceClose(Table, position)
<1>1. /\ Runs /\ Running /\ TableInv(Table, X) /\ Receives(Table) /\ BatchInv /\ WaitingInv /\ Table \in Tables
  BY RunningFacts DEF SweepVisit
<1>2. /\ pc \in {"shutdown", "stop"} /\ position \in Slot /\ position' = position + 1 /\ ticking' = ticking
      /\ batch' = batch /\ pc' = pc /\ stop' = stop /\ draining' = draining /\ stopping' = stopping
      /\ Becomes(u)
  BY DEF SweepVisit
<1>3. Handled(Table, u, X)
  <2>1. CASE u = Table
    <3>1. Len(active) \in Nat
      BY <1>1, TableFields DEF Tables
    <3> QED
      BY <1>1, <3>1, <2>1, TableFields DEF Handled, Effect, Keeps
  <2>2. CASE u = forceClose(Table, position)
    <3>1. OthersReceive(Table, position)
      BY <1>1 DEF Receives, OthersReceive
    <3> HIDE DEF u, X
    <3> QED
      BY <1>1, <1>2, <2>2, <3>1, ForceCloseInv
  <2> QED
    BY <2>1, <2>2, Zenon
<1> HIDE DEF u, X
<1>4. Table' = u
  BY <1>2, <1>3, TableNext DEF Handled, TableInv
<1>5. TableInv(Table', X) /\ Receives(Table') /\ Keeps(Table, Table')
  BY <1>3, <1>4 DEF Handled, Effect
<1>6. accepting' = accepting /\ waiting' = waiting
  BY <1>3, <1>4, TableFields, TableFieldsNext DEF Handled, Effect
<1>7. BatchInv'
  BY <1>1, <1>2, <1>5, <1>6, BatchHandled
<1>8. WaitingInv'
  BY <1>1, <1>2, <1>6 DEF WaitingInv
<1>9. Running'
  BY <1>1, <1>2, <1>5, <1>7, <1>8 DEF Running, X
<1>10. position' \in Nat
  BY <1>2, SlotFacts
<1> QED
  BY <1>1, <1>2, <1>6, <1>9, <1>10, RunsOn DEF Runs, NoReclaim

\* Steps that leave the table alone.
LEMMA SameTableStep ==
  ASSUME IInv, pc # "freed", UNCHANGED table, batch' = batch, ticking => ticking', Runs',
         draining' = draining,
         pc' = "tick" => pc = "tick" /\ position' <= position,
         pc' = "collect" => pc = "collect" \/ draining,
         pc' \in {"shutdown", "stop"} => draining,
         pc' = "exited" => batch = {}
  PROVE  IInv' /\ NoReclaim
<1>1. /\ Runs /\ Running /\ TableInv(Table, Held(batch)) /\ Receives(Table) /\ BatchInv /\ WaitingInv
  BY RunningFacts
<1>2. Table' = Table /\ waiting' = waiting /\ accepting' = accepting /\ active' = active /\ free' = free
  BY TableSame DEF table
<1>3. Keeps(Table, Table')
  BY <1>2 DEF Keeps
<1>4. BatchInv'
  BY <1>1, <1>2, <1>3, BatchHandled
<1>5. WaitingInv'
  BY <1>1, <1>2 DEF WaitingInv
<1>6. pc' = "tick" => position' <= Len(active')
  <2>1. Len(active) \in Nat
    BY <1>1, TableFields DEF TableInv, Tables
  <2> QED
    BY <1>1, <1>2, <2>1 DEF Running, Runs
<1>7. pc' = "collect" /\ waiting'.fd # NoDescriptor => free'.public = <<>>
  BY <1>1, <1>2 DEF Running, WaitingInv
<1>8. TableInv(Table', Held(batch')) /\ Receives(Table')
  BY <1>1, <1>2
<1>9. Running'
  BY <1>4, <1>5, <1>6, <1>7, <1>8 DEF Running
<1> QED
  BY <1>2, <1>9, RunsOn DEF NoReclaim

\* The batch is dispatched, and the listeners are looked at.
LEMMA ListenStep ==
  ASSUME IInv, pc = "dispatch", batch = {}, batch' = batch, ~stop,
         NEW t \in queueAccept(Table, "public"), NEW u \in queueAccept(t, "redirect"),
         NEW v \in queueAccept(u, "admin"), Becomes(v),
         ticking' = TRUE, pc' = "collect", UNCHANGED <<draining, stopping, position, stop>>
  PROVE  IInv' /\ Looked(Table, Table')
<1> DEFINE X == Held(batch)
<1>1. /\ Runs /\ Running /\ TableInv(Table, X) /\ Receives(Table) /\ BatchInv /\ WaitingInv /\ Table \in Tables
  BY RunningFacts
<1>2. NoDescriptor \notin X
  BY HeldFacts
<1>3. Table.waiting.fd # NoDescriptor => "public" \in Listening /\ "public" \notin Table.accepting
  BY <1>1, TableFields DEF WaitingInv
<1> HIDE DEF X
<1>4. /\ Queued(Table, t, "public", X) /\ Looked(Table, t)
      /\ t.waiting.fd # NoDescriptor => "public" \notin t.accepting
  BY <1>1, <1>2, <1>3, QueuePublicInv
<1>5. Queued(t, u, "redirect", X) /\ u.conn = t.conn /\ u.waiting = t.waiting /\ u.free = t.free
  <2>1. TableInv(t, X) /\ Receives(t) /\ "redirect" \in Listener /\ "redirect" # "public"
    BY <1>4 DEF Queued, Listener
  <2> QED
    BY <2>1, QueueListenerInv, Zenon
<1>6. Queued(u, v, "admin", X) /\ v.conn = u.conn /\ v.waiting = u.waiting /\ v.free = u.free
  <2>1. TableInv(u, X) /\ Receives(u) /\ "admin" \in Listener /\ "admin" # "public"
    BY <1>5 DEF Queued, Listener
  <2> QED
    BY <2>1, QueueListenerInv
<1>7. Table' = v
  <2>1. v \in Tables
    BY <1>6, Zenon DEF Queued, TableInv
  <2> QED
    BY <2>1, TableNext
<1>8. TableInv(Table', X) /\ Receives(Table') /\ Looked(Table, Table')
  BY <1>4, <1>5, <1>6, <1>7 DEF Queued, Looked
<1>9. /\ accepting' \subseteq Listening
      /\ waiting'.fd # NoDescriptor => "public" \notin accepting'
  <2>1. accepting' = v.accepting /\ waiting' = v.waiting /\ accepting \subseteq Listening /\ Table.accepting = accepting
    BY <1>1, <1>7, TableFields, TableFieldsNext, Zenon DEF WaitingInv
  <2>2. /\ t.accepting \subseteq Table.accepting \cup (Listening \cap {"public"})
        /\ u.accepting \subseteq t.accepting \cup (Listening \cap {"redirect"})
        /\ v.accepting \subseteq u.accepting \cup (Listening \cap {"admin"})
    BY <1>4, <1>5, <1>6 DEF Queued
  <2> QED
    BY <2>1, <2>2, <1>4, <1>5, <1>6
<1>10. waiting'.fd # NoDescriptor => waiting'.fd = waiting.fd /\ free'.public = <<>>
  BY <1>8, TableFields, TableFieldsNext DEF Looked
<1>11. WaitingInv'
  BY <1>1, <1>9, <1>10 DEF WaitingInv
<1>12. BatchInv'
  BY DEF BatchInv
<1>13. Running'
  BY <1>8, <1>10, <1>11, <1>12 DEF Running, X
<1> QED
  BY <1>1, <1>8, <1>13, RunsOn DEF Runs

\* The batch is dispatched.
LEMMA RoundStep ==
  ASSUME IInv, Round
  PROVE  IInv' /\ (NoReclaim \/ (batch = {} /\ Looked(Table, Table')))
<1>1. /\ Runs /\ Running /\ TableInv(Table, Held(batch)) /\ Receives(Table) /\ BatchInv /\ WaitingInv
      /\ pc = "dispatch" /\ batch = {} /\ batch' = batch /\ stop' = stop
  BY RunningFacts DEF Round
<1>2. CASE /\ draining /\ ~stopping
           /\ stopping' = TRUE /\ pc' = "stop" /\ position' = 0
           /\ UNCHANGED <<table, draining, ticking>>
  <2>1. Runs'
    BY <1>1, <1>2 DEF Runs
  <2> QED
    BY <1>1, <1>2, <2>1, SameTableStep
<1>3. CASE /\ draining /\ (stopping \/ active # <<>>)
           /\ ticking' = (ticking \/ ~stopping) /\ pc' = "collect"
           /\ UNCHANGED <<table, draining, stopping, position>>
  <2>1. Runs' /\ (ticking => ticking')
    BY <1>1, <1>3 DEF Runs
  <2> QED
    BY <1>1, <1>3, <2>1, SameTableStep
<1>4. CASE /\ stop /\ ~draining
           /\ draining' = TRUE /\ pc' = "shutdown" /\ position' = 0
           /\ Becomes(beginShutdown(Table))
           /\ UNCHANGED <<stopping, ticking>>
  <2> DEFINE X == Held(batch)
             u == beginShutdown(Table)
  <2>1. NoDescriptor \notin X
    BY HeldFacts
  <2> HIDE DEF X
  <2>2. TableInv(Table, X) /\ Receives(Table)
    BY <1>1 DEF X
  <2>3. /\ TableInv(u, X) /\ u.conn = Table.conn /\ u.accepting = Table.accepting
        /\ u.waiting.fd = NoDescriptor
        /\ u.waiting.reclaimed => waiting.reclaimed
    BY <2>1, <2>2, BeginShutdownInv, TableFields
  <2>4. Becomes(u)
    BY <1>4
  <2> HIDE DEF u
  <2>5. Table' = u
    BY <2>3, <2>4, TableNext DEF TableInv
  <2>6. TableInv(Table', X) /\ Receives(Table') /\ waiting'.fd = NoDescriptor /\ accepting' = accepting
    BY <2>2, <2>3, <2>5, TableFields, TableFieldsNext DEF Receives
  <2>7. WaitingInv' /\ BatchInv'
    BY <1>1, <2>6 DEF WaitingInv, BatchInv
  <2>8. Running'
    BY <1>1, <1>4, <2>6, <2>7 DEF Running, X
  <2> QED
    BY <1>1, <1>4, <2>3, <2>5, <2>8, RunsOn, TableFieldsNext DEF Runs, NoReclaim
<1>5. CASE /\ ~stop
           /\ \E t \in queueAccept(Table, "public"): \E u \in queueAccept(t, "redirect"):
                \E v \in queueAccept(u, "admin"): Becomes(v)
           /\ ticking' = TRUE /\ pc' = "collect"
           /\ UNCHANGED <<draining, stopping, position>>
  <2>1. PICK t \in queueAccept(Table, "public") :
          \E u \in queueAccept(t, "redirect"): \E v \in queueAccept(u, "admin"): Becomes(v)
    BY <1>5
  <2>2. PICK u \in queueAccept(t, "redirect") : \E v \in queueAccept(u, "admin"): Becomes(v)
    BY <2>1
  <2>3. PICK v \in queueAccept(u, "admin") : Becomes(v)
    BY <2>2
  <2> QED
    BY <1>1, <1>5, <2>3, ListenStep
<1> QED
  BY <1>2, <1>3, <1>4, <1>5, Zenon DEF Round

\* The waiting descriptor's deadline passes.
LEMMA DeadlineStep ==
  ASSUME IInv, DeadlinePasses
  PROVE  IInv' /\ NoReclaim
<1> DEFINE w == [waiting EXCEPT !.late = TRUE]
<1>1. pc # "freed"
  BY DEF IInv, Torn, DeadlinePasses
<1>2. /\ Runs /\ Running /\ TableInv(Table, Held(batch)) /\ Receives(Table) /\ BatchInv /\ WaitingInv
      /\ Table \in Tables
  BY <1>1, RunningFacts
<1>3. /\ waiting' = w /\ conn' = conn /\ free' = free /\ active' = active /\ idle' = idle /\ open' = open
      /\ retry' = retry /\ accepting' = accepting /\ ticking' = ticking /\ batch' = batch /\ pc' = pc
      /\ position' = position /\ stop' = stop /\ draining' = draining /\ stopping' = stopping
  BY DEF DeadlinePasses
<1>4. /\ waiting \in [fd: Descriptor \cup {NoDescriptor}, reclaimed: BOOLEAN, late: BOOLEAN]
      /\ w \in [fd: Descriptor \cup {NoDescriptor}, reclaimed: BOOLEAN, late: BOOLEAN]
      /\ w.fd = waiting.fd /\ w.reclaimed = waiting.reclaimed
  BY <1>2, TableFields, Zenon DEF Tables
<1> HIDE DEF w
<1>5. Table' \in Tables
  BY <1>2, <1>3, <1>4, Zenon DEF Table, Tables
<1>6. Owned(Table', Held(batch'))
  <2>1. /\ Table'.conn = Table.conn /\ Table'.open = Table.open
        /\ Table'.waiting.fd = Table.waiting.fd /\ Held(batch') = Held(batch)
    BY <1>3, <1>4, TableFields, TableFieldsNext
  <2>2. Owned(Table, Held(batch))
    BY <1>2, Zenon DEF TableInv
  <2> QED
    BY <2>1, <2>2 DEF Owned
<1>7. TableInv(Table', Held(batch'))
  BY <1>2, <1>3, <1>5, <1>6, OwnedInv, TableFields, TableFieldsNext, Zenon
<1>8. Receives(Table') /\ Keeps(Table, Table')
  BY <1>2, <1>3, TableFields, TableFieldsNext DEF Receives, Keeps
<1>9. BatchInv'
  BY <1>2, <1>3, <1>8, BatchHandled
<1>10. WaitingInv'
  BY <1>2, <1>3, <1>4, Zenon DEF WaitingInv
<1>11. Running'
  BY <1>2, <1>3, <1>4, <1>7, <1>8, <1>9, <1>10 DEF Running
<1> QED
  BY <1>2, <1>3, <1>4, <1>11, RunsOn DEF Runs, NoReclaim

(***************************************************************************)
(* Counting                                                                *)
(***************************************************************************)
\* The slots of the table, counted.
LEMMA SlotCount == IsFiniteSet(Slot) /\ Cardinality(Slot) = Public + Admin
<1>1. Public \in Nat /\ Admin \in Nat
  BY SlotsAssumption
<1> QED
  BY <1>1, FS_Interval DEF Slot

\* An idle list is no longer than the table.
LEMMA ListBound ==
  ASSUME NEW n \in Nat, NEW q \in [1 .. n -> Slot],
         \A k, m \in 1 .. n : q[k] = q[m] => k = m
  PROVE  n \in 0 .. Public + Admin
<1>1. q \in Injection(1 .. n, Slot)
  BY DEF Injection, IsInjective
<1>2. Cardinality(1 .. n) <= Cardinality(Slot)
  BY <1>1, SlotCount, FS_Injection
<1>3. Cardinality(1 .. n) = n
  BY FS_Interval
<1> QED
  BY <1>2, <1>3, SlotCount, SlotsAssumption

\* A set of at most one element.
LEMMA AtMostOne ==
  ASSUME NEW S, \A x, y \in S : x = y
  PROVE  Cardinality(S) = IF S = {} THEN 0 ELSE 1
<1>1. CASE S = {}
  BY <1>1, FS_EmptySet
<1>2. CASE S # {}
  <2>1. PICK x \in S : S = {x}
    BY <1>2, Zenon
  <2> QED
    BY <2>1, <1>2, FS_Singleton
<1> QED
  BY <1>1, <1>2

\* The owners of a descriptor, counted.
LEMMA Counts ==
  ASSUME TableInv(Table, Held(batch)), BatchInv, NEW fd \in Descriptor
  PROVE  /\ Cardinality({i \in Slot : conn[i].fd = fd}) = IF \E i \in Slot : conn[i].fd = fd THEN 1 ELSE 0
         /\ Cardinality({e \in batch : e.fd = fd}) = IF fd \in Held(batch) THEN 1 ELSE 0
         /\ open[fd] = Cardinality({i \in Slot : conn[i].fd = fd})
              + Cardinality({e \in batch : e.fd = fd}) + (IF waiting.fd = fd THEN 1 ELSE 0)
<1> DEFINE I == {i \in Slot : conn[i].fd = fd}
           E == {e \in batch : e.fd = fd}
<1>1. fd # NoDescriptor
  BY SlotsAssumption, Zenon
<1>2. /\ \A i, j \in Slot : conn[i].fd = conn[j].fd => i = j \/ conn[i].fd = NoDescriptor
      /\ \A i \in Slot : conn[i].fd # NoDescriptor => conn[i].fd \notin Held(batch) /\ conn[i].fd # waiting.fd
      /\ waiting.fd \notin Held(batch)
      /\ open[fd] = IF \/ fd \in Held(batch) \/ waiting.fd = fd
                       \/ \E i \in Slot : conn[i].fd = fd THEN 1 ELSE 0
  BY TableFields, Zenon DEF TableInv, Owned
<1>3. \A i, j \in I : i = j
  BY <1>1, <1>2
<1>4. \A d, e \in E : d = e
  BY <1>1 DEF BatchInv
<1>5. (I # {} <=> \E i \in Slot : conn[i].fd = fd) /\ (E # {} <=> fd \in Held(batch))
  BY <1>1 DEF Held
<1> HIDE DEF I, E
<1>6. Cardinality(I) = IF I = {} THEN 0 ELSE 1
  BY <1>3, AtMostOne
<1>7. Cardinality(E) = IF E = {} THEN 0 ELSE 1
  BY <1>4, AtMostOne
<1>8. /\ Cardinality(I) = IF \E i \in Slot : conn[i].fd = fd THEN 1 ELSE 0
      /\ Cardinality(E) = IF fd \in Held(batch) THEN 1 ELSE 0
  BY <1>5, <1>6, <1>7, Zenon
<1>9. open[fd] = Cardinality(I) + Cardinality(E) + (IF waiting.fd = fd THEN 1 ELSE 0)
  BY <1>1, <1>2, <1>8
<1> QED
  BY <1>8, <1>9 DEF I, E

\* The rest of the batch is discarded, its descriptors closed.
LEMMA LoopFailsStep ==
  ASSUME IInv, LoopFails
  PROVE  IInv' /\ NoReclaim
<1> DEFINE u == discardCompletions(Table, batch)
           o == [fd \in Descriptor |-> open[fd] - Cardinality({e \in batch : e.fd = fd})]
<1>1. /\ Runs /\ Running /\ TableInv(Table, Held(batch)) /\ Receives(Table) /\ BatchInv /\ WaitingInv
      /\ Table \in Tables
  BY RunningFacts DEF LoopFails
<1>2. /\ pc' = "exited" /\ batch' = {} /\ Becomes(u) /\ ticking' = ticking /\ position' = position
      /\ stop' = stop /\ draining' = draining /\ stopping' = stopping
  BY DEF LoopFails
<1>3. u = [Table EXCEPT !.open = o]
  BY TableFields DEF discardCompletions
<1>4. open \in [Descriptor -> Int]
  BY <1>1, TableFields DEF Tables
<1>5. \A fd \in Descriptor :
        /\ o[fd] \in Int
        /\ o[fd] = IF waiting.fd = fd \/ \E i \in Slot : conn[i].fd = fd THEN 1 ELSE 0
  <2> TAKE fd \in Descriptor
  <2>1. o[fd] = open[fd] - Cardinality({e \in batch : e.fd = fd})
    BY Zenon
  <2>2. /\ Cardinality({e \in batch : e.fd = fd}) = IF fd \in Held(batch) THEN 1 ELSE 0
        /\ open[fd] = IF \/ fd \in Held(batch) \/ waiting.fd = fd
                         \/ \E i \in Slot : conn[i].fd = fd THEN 1 ELSE 0
        /\ fd \in Held(batch) => waiting.fd # fd /\ \A i \in Slot : conn[i].fd # fd
    <3>1. Cardinality({e \in batch : e.fd = fd}) = IF fd \in Held(batch) THEN 1 ELSE 0
      BY <1>1, Counts, Zenon
    <3>2. fd # NoDescriptor
      BY SlotsAssumption
    <3> QED
      BY <1>1, <3>1, <3>2, TableFields DEF TableInv, Owned
  <2> QED
    BY <2>1, <2>2
<1>6. o \in [Descriptor -> Int]
  BY <1>5
<1> HIDE DEF o, u
<1>7. /\ u \in Tables /\ u.conn = conn /\ u.free = free /\ u.active = active /\ u.idle = idle
      /\ u.open = o /\ u.waiting = waiting /\ u.accepting = accepting
  BY <1>1, <1>3, <1>6, TableFields, Zenon DEF Tables
<1>8. Owned(u, {})
  BY <1>1, <1>5, <1>7, TableFields DEF TableInv, Owned
<1>9. TableInv(u, {})
  BY <1>1, <1>7, <1>8, OwnedInv, TableFields
<1>10. Table' = u
  BY <1>2, <1>7, TableNext
<1>11. Receives(Table')
  BY <1>1, <1>7, <1>10, TableFields, Zenon DEF Receives
<1>12. WaitingInv' /\ BatchInv'
  BY <1>1, <1>2, <1>7, Zenon DEF WaitingInv, BatchInv, Becomes
<1>13. Running'
  BY <1>2, <1>9, <1>10, <1>11, <1>12, HeldFacts, Zenon DEF Running
<1> QED
  BY <1>1, <1>2, <1>7, <1>13, RunsOn DEF Runs, NoReclaim, Becomes

\* deinit closes what is left.
LEMMA DeinitStep ==
  ASSUME IInv, deinit
  PROVE  IInv' /\ NoReclaim
<1>1. /\ Runs /\ Running /\ TableInv(Table, Held(batch)) /\ BatchInv /\ Table \in Tables
      /\ pc = "exited" /\ batch = {}
  BY RunningFacts DEF deinit, Running
<1>2. /\ pc' = "freed" /\ waiting' = NotWaiting
      /\ open' = [fd \in Descriptor |->
           open[fd] - Cardinality({i \in Slot : conn[i].fd = fd}) - (IF waiting.fd = fd THEN 1 ELSE 0)]
      /\ conn' = [i \in Slot |-> [conn[i] EXCEPT !.fd = NoDescriptor]]
      /\ free' = free /\ active' = active /\ idle' = idle /\ retry' = retry /\ accepting' = accepting
      /\ ticking' = ticking /\ batch' = batch /\ position' = position /\ stop' = stop
      /\ draining' = draining /\ stopping' = stopping
  BY DEF deinit
<1>3. \A fd \in Descriptor : open'[fd] = 0
  <2> TAKE fd \in Descriptor
  <2> DEFINE I == {i \in Slot : conn[i].fd = fd}
             E == {e \in batch : e.fd = fd}
  <2>1. /\ open[fd] = Cardinality(I) + Cardinality(E) + (IF waiting.fd = fd THEN 1 ELSE 0)
        /\ Cardinality(I) = IF \E i \in Slot : conn[i].fd = fd THEN 1 ELSE 0
    BY <1>1, Counts
  <2>2. Cardinality(E) = 0
    <3>1. E = {}
      BY <1>1
    <3> QED
      BY <3>1, FS_EmptySet
  <2>3. open'[fd] = open[fd] - Cardinality(I) - (IF waiting.fd = fd THEN 1 ELSE 0)
    BY <1>2
  <2> HIDE DEF I, E
  <2> QED
    BY <2>1, <2>2, <2>3
<1>4. open' \in [Descriptor -> Int]
  <2>1. open' = [fd \in Descriptor |-> open'[fd]]
    BY <1>2
  <2> QED
    BY <2>1, <1>3
<1>5. conn' \in [Slot -> Connection] /\ \A i \in Slot : conn'[i].fd = NoDescriptor
  <2>1. \A i \in Slot : conn[i] \in Connection
    BY <1>1, ConnTyped, TableFields
  <2>2. \A i \in Slot : [conn[i] EXCEPT !.fd = NoDescriptor] \in Connection
                        /\ [conn[i] EXCEPT !.fd = NoDescriptor].fd = NoDescriptor
    BY <2>1 DEF Connection
  <2> QED
    BY <2>2, <1>2, Zenon
<1>6. /\ waiting' \in [fd: Descriptor \cup {NoDescriptor}, reclaimed: BOOLEAN, late: BOOLEAN]
      /\ waiting'.fd = NoDescriptor
  BY <1>2 DEF NotWaiting
<1>7. Table' \in Tables
  <2>1. /\ free \in [public: Seq(Slot), admin: Seq(Slot)] /\ active \in Seq(Slot)
        /\ idle \in [first: Slot \cup {None}, last: Slot \cup {None}]
        /\ retry \in SUBSET Listener /\ accepting \in SUBSET Listener
    BY <1>1, TableFields DEF Tables
  <2> QED
    BY <2>1, <1>2, <1>4, <1>5, <1>6 DEF Table, Tables
<1>8. TypeOK'
  BY <1>1, <1>2, <1>7 DEF TypeOK, Runs
<1>9. Torn'
  BY <1>1, <1>2, <1>3, <1>5, <1>6, Zenon DEF Torn
<1> QED
  BY <1>2, <1>8, <1>9 DEF IInv, NoReclaim, NotWaiting

\* Every step preserves the invariant.
LEMMA StepInv ==
  ASSUME IInv, [Next]_vars
  PROVE  IInv' /\ (NoReclaim \/ (batch = {} /\ Looked(Table, Table')))
<1>1. CASE Dispatch
  BY <1>1, DispatchStep
<1>2. CASE TickVisit
  BY <1>2, TickVisitStep
<1>3. CASE TickDone
  <2>1. Runs
    BY <1>3, RunningFacts DEF TickDone
  <2>2. Runs'
    BY <1>3, <2>1 DEF TickDone, Runs
  <2> QED
    BY <1>3, <2>2, SameTableStep DEF TickDone
<1>4. CASE Round
  BY <1>4, RoundStep
<1>5. CASE SweepVisit
  BY <1>5, SweepVisitStep
<1>6. CASE SweepDone
  <2>1. Runs /\ draining
    BY <1>6, RunningFacts DEF SweepDone, Running
  <2>2. Runs' /\ (ticking => ticking')
    BY <1>6, <2>1 DEF SweepDone, Runs
  <2> QED
    BY <1>6, <2>1, <2>2, SameTableStep DEF SweepDone
<1>7. CASE LoopExits
  <2>1. Runs /\ BatchInv
    BY <1>7, RunningFacts, Zenon DEF LoopExits
  <2>2. batch = {}
    <3> SUFFICES ASSUME NEW e \in batch PROVE FALSE
      OBVIOUS
    <3>1. Expected(e, Table) /\ (e.kind = "tick" => ticking)
      BY <2>1 DEF BatchInv
    <3>2. ~ticking /\ accepting = {} /\ \A i \in Slot : conn[i].ops = {}
      BY <1>7 DEF LoopExits, Pending
    <3> QED
      BY <3>1, <3>2, TableFields DEF Expected
  <2>3. Runs'
    BY <1>7, <2>1 DEF LoopExits, Runs
  <2> QED
    BY <1>7, <2>2, <2>3, SameTableStep DEF LoopExits
<1>8. CASE deinit
  BY <1>8, DeinitStep
<1>9. CASE Copy
  BY <1>9, CopyStep, Zenon DEF Copy, NoReclaim
<1>10. CASE LoopFails
  BY <1>10, LoopFailsStep
<1>11. CASE RequestStop
  <2>1. Runs /\ Running
    BY <1>11, RunningFacts DEF RequestStop
  <2>2. Runs'
    BY <1>11, <2>1 DEF RequestStop, Runs
  <2>3. position \in Nat
    BY <2>1 DEF Runs
  <2> QED
    BY <1>11, <2>1, <2>2, <2>3, SameTableStep DEF RequestStop, Running
<1>12. CASE DeadlinePasses
  BY <1>12, DeadlineStep
<1>13. CASE UNCHANGED vars
  <2>1. /\ Table' = Table /\ batch' = batch /\ ticking' = ticking /\ pc' = pc /\ position' = position
        /\ stop' = stop /\ draining' = draining /\ stopping' = stopping
        /\ waiting' = waiting /\ conn' = conn /\ open' = open /\ active' = active /\ free' = free
        /\ accepting' = accepting
    BY <1>13, TableSame DEF vars, table
  <2>2. TypeOK'
    BY <2>1, Zenon DEF IInv, TypeOK
  <2>3. BatchInv = BatchInv' /\ WaitingInv = WaitingInv' /\ Torn = Torn'
    BY <2>1, Zenon DEF BatchInv, WaitingInv, Torn, Same
  <2>4. Running = Running'
    BY <2>1, <2>3 DEF Running
  <2> QED
    BY <2>1, <2>2, <2>3, <2>4 DEF IInv, NoReclaim
<1>14. Freed => UNCHANGED vars
  BY DEF Freed
<1> QED
  BY <1>1, <1>2, <1>3, <1>4, <1>5, <1>6, <1>7, <1>8, <1>9, <1>10, <1>11, <1>12, <1>13, <1>14 DEF Next, Loop

\* The inductive invariant holds in every state.
LEMMA Invariant == Spec => []IInv
<1>1. IInv /\ [Next]_vars => IInv'
  BY StepInv
<1> QED
  BY <1>1, InitInv, PTL DEF Spec

(***************************************************************************)
(* Theorems                                                                *)
(***************************************************************************)
\* The variables of the loop keep their types.
THEOREM TypeCorrect == Spec => []TypeOK
<1>1. IInv => TypeOK
  BY Zenon DEF IInv
<1> QED
  BY <1>1, Invariant, PTL

\* The lists of slots stay exact: free, active and idle.
THEOREM SlotsAreExact == Spec => []SlotsExact
<1>1. IInv => SlotsExact
  <2> SUFFICES ASSUME IInv, pc # "freed"
               PROVE  /\ ActiveExact(Table) /\ FreeExact(Table) /\ IdleExact(Table)
                      /\ \A i \in Slot : conn[i].idle_queued =>
                           /\ conn[i].fd # NoDescriptor /\ ~IsAdmin(i) /\ conn[i].phase = "reading"
                           /\ ~conn[i].started /\ "receive" \in conn[i].ops
    BY DEF SlotsExact
  <2>1. TableInv(Table, Held(batch)) /\ Receives(Table)
    BY RunningFacts
  <2>2. IdleExact(Table)
    <3>1. PICK n \in Nat : \E q \in [1 .. n -> Slot] : Linked(Table, q, n)
      BY <2>1 DEF TableInv, IdleChain
    <3>2. PICK q \in [1 .. n -> Slot] : Linked(Table, q, n)
      BY <3>1, Zenon
    <3>3. n \in 0 .. Public + Admin
      BY <3>2, ListBound DEF Linked
    <3> QED
      BY <3>2, <3>3 DEF IdleExact
  <2> QED
    BY <2>1, <2>2, TableFields, Zenon DEF TableInv, Receives, Settled
<1> QED
  BY <1>1, Invariant, PTL

\* Every descriptor that accept returned has one owner until it is closed,
\* and is closed once; none is left when the loop is freed.
THEOREM DescriptorsAreOwned == Spec => []DescriptorsOwned
<1>1. IInv => DescriptorsOwned
  <2> SUFFICES ASSUME IInv PROVE DescriptorsOwned
    BY Zenon
  <2>1. CASE pc # "freed"
    <3>1. TableInv(Table, Held(batch)) /\ BatchInv /\ WaitingInv
      BY <2>1, RunningFacts, Zenon
    <3>2. \A fd \in Descriptor :
            open[fd] = Cardinality({i \in Slot : conn[i].fd = fd})
              + Cardinality({e \in batch : e.fd = fd}) + (IF waiting.fd = fd THEN 1 ELSE 0)
      BY <3>1, Counts, Zenon
    <3> QED
      BY <2>1, <3>1, <3>2 DEF DescriptorsOwned, WaitingInv
  <2>2. CASE pc = "freed"
    <3>1. /\ batch = {} /\ waiting.fd = NoDescriptor
          /\ \A i \in Slot : conn[i].fd = NoDescriptor
          /\ \A fd \in Descriptor : open[fd] = 0
      BY <2>2 DEF IInv, Torn
    <3>2. ASSUME NEW fd \in Descriptor
          PROVE  open[fd] = Cardinality({i \in Slot : conn[i].fd = fd})
                   + Cardinality({e \in batch : e.fd = fd}) + (IF waiting.fd = fd THEN 1 ELSE 0)
      <4>1. fd # NoDescriptor
        BY SlotsAssumption
      <4>2. {i \in Slot : conn[i].fd = fd} = {} /\ {e \in batch : e.fd = fd} = {} /\ waiting.fd # fd
        BY <3>1, <4>1, Zenon
      <4> QED
        BY <3>1, <4>2, FS_EmptySet
    <3> QED
      BY <3>1, <3>2 DEF DescriptorsOwned
  <2> QED
    BY <2>1, <2>2
<1> QED
  BY <1>1, Invariant, PTL

\* While the loop waits for completions, a descriptor waits only because
\* every public slot is taken.
THEOREM WaitingIsServed == Spec => []WaitingServed
<1>1. IInv => WaitingServed
  BY DEF IInv, Running, WaitingInv, WaitingServed
<1> QED
  BY <1>1, Invariant, PTL

\* The connection reclaimed for a waiting descriptor is the oldest idle one,
\* and no completion with bytes of its next request is left in the batch.
THEOREM ReclaimIsSafe == Spec => ReclaimProtects
<1>1. ASSUME IInv, [Next]_vars, waiting'.reclaimed, ~waiting.reclaimed,
             NEW i \in {j \in Slot : conn[j].phase # "canceling" /\ conn'[j].phase = "canceling"}
      PROVE  /\ i = idle.first /\ conn[i].served /\ ~conn[i].started
             /\ \A e \in batch : ~(e.slot = i /\ e.kind = "receive" /\ e.result = "data")
  <2>1. batch = {} /\ Looked(Table, Table')
    BY <1>1, StepInv, Zenon DEF NoReclaim
  <2>2. /\ idle.first \in Slot /\ conn[idle.first].idle_queued
        /\ \A j \in Slot \ {idle.first} : conn'[j].phase = conn[j].phase
    BY <1>1, <2>1, TableFields, TableFieldsNext DEF Looked
  <2>3. i = idle.first
    BY <2>2, Zenon
  <2>4. pc # "freed"
    <3> SUFFICES ASSUME pc = "freed" PROVE FALSE
      OBVIOUS
    <3>1. waiting.fd = NoDescriptor
      BY <1>1, Zenon DEF IInv, Torn
    <3> QED
      BY <1>1, <3>1 DEF Next, Loop, vars, table, Dispatch, TickVisit, TickDone, Round, SweepVisit, SweepDone,
           LoopExits, deinit, Copy, LoopFails, RequestStop, DeadlinePasses, Freed
  <2>5. Settled(conn[i], i)
    BY <1>1, <2>3, <2>4, <2>2, RunningFacts, TableFields DEF TableInv
  <2> QED
    BY <2>1, <2>2, <2>3, <2>5 DEF Settled
<1>2. IInv /\ [Next]_vars =>
        [waiting'.reclaimed /\ ~waiting.reclaimed =>
           \A i \in {j \in Slot : conn[j].phase # "canceling" /\ conn'[j].phase = "canceling"} :
             /\ i = idle.first /\ conn[i].served /\ ~conn[i].started
             /\ \A e \in batch : ~(e.slot = i /\ e.kind = "receive" /\ e.result = "data") ]_vars
  BY <1>1
<1> QED
  BY <1>2, Invariant, PTL DEF Spec, ReclaimProtects
=============================================================================

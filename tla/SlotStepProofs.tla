---------------------------- MODULE SlotStepProofs ----------------------------
(***************************************************************************)
(* The inductive invariant of Slots, and the steps of the loop that copy   *)
(* and dispatch completions: each preserves it.                            *)
(***************************************************************************)
EXTENDS Slots, SlotTableProofs

(***************************************************************************)
(* The inductive invariant                                                 *)
(***************************************************************************)
\* The descriptors of completions.
Held(completions) == {e.fd : e \in completions} \ {NoDescriptor}

\* A completion is of an operation still in the ring.
Expected(e, t) ==
  \/ /\ e.kind = "accept" /\ e.slot = None /\ e.listener \in t.accepting
     /\ \/ e.result = "accepted" /\ e.fd \in Descriptor
        \/ e.result \in {"error", "canceled"} /\ e.fd = NoDescriptor
  \/ /\ e.slot \in Slot /\ e.listener = "public"
     /\ e.kind \in Operation /\ e.kind \in t.conn[e.slot].ops
     /\ e.kind = "receive" => e.result \in {"data", "eof", "canceled"}
     /\ e.kind = "send" =>
          e.result \in {"all", "part", "error"} \/ t.conn[e.slot].phase = "canceling"
     /\ e.fd = NoDescriptor
  \/ e.kind = "tick" /\ e.slot = None /\ e.listener = "public" /\ e.fd = NoDescriptor

BatchInv ==
  /\ \A e \in batch : Expected(e, Table) /\ (e.kind = "tick" => ticking)
  /\ \A d, e \in batch : d # e => ~Same(d, e) /\ (d.fd = e.fd => d.fd = NoDescriptor)

WaitingInv ==
  /\ accepting \subseteq Listening
  /\ waiting.fd # NoDescriptor => "public" \in Listening /\ "public" \notin accepting /\ ~draining

Running ==
  /\ TableInv(Table, Held(batch)) /\ Receives(Table) /\ BatchInv /\ WaitingInv
  /\ pc = "tick" => position <= Len(active)
  /\ pc = "collect" /\ waiting.fd # NoDescriptor => free.public = <<>>
  /\ pc \in {"shutdown", "stop"} => draining
  /\ pc = "exited" => batch = {}

Torn ==
  /\ batch = {} /\ waiting.fd = NoDescriptor
  /\ \A i \in Slot : conn[i].fd = NoDescriptor
  /\ \A fd \in Descriptor : open[fd] = 0

IInv ==
  /\ TypeOK
  /\ pc # "freed" => Running
  /\ pc = "freed" => Torn

(***************************************************************************)
(* The steps of the loop                                                   *)
(***************************************************************************)
\* The table after a handler.
LEMMA TableNext ==
  ASSUME NEW u \in Tables, Becomes(u)
  PROVE  Table' = u
BY DEF Tables, Table, Becomes

\* The table after a step that leaves it alone.
LEMMA TableSame ==
  ASSUME UNCHANGED table
  PROVE  Table' = Table
BY DEF Table, table

\* The fields of Table are the variables.
LEMMA TableFields ==
  /\ Table.conn = conn /\ Table.free = free /\ Table.active = active /\ Table.idle = idle
  /\ Table.open = open /\ Table.waiting = waiting /\ Table.retry = retry /\ Table.accepting = accepting
BY DEF Table

\* So they are after a step.
LEMMA TableFieldsNext ==
  /\ Table'.conn = conn' /\ Table'.free = free' /\ Table'.active = active' /\ Table'.idle = idle'
  /\ Table'.open = open' /\ Table'.waiting = waiting' /\ Table'.retry = retry'
  /\ Table'.accepting = accepting'
BY Zenon DEF Table

\* A completion stays expected while its operation is in the ring.
LEMMA ExpectedKept ==
  ASSUME NEW t, NEW u, NEW e, Keeps(t, u), Expected(e, t),
         e.kind = "accept" => e.listener \in u.accepting
  PROVE  Expected(e, u)
<1>1. CASE e.kind = "accept" /\ e.slot = None
  BY <1>1, SlotFacts DEF Expected
<1>2. CASE e.slot \in Slot
  <2>1. e.slot # None
    BY <1>2, SlotFacts
  <2>2. e.kind \in t.conn[e.slot].ops
    BY <2>1 DEF Expected
  <2>3. /\ e.kind \in u.conn[e.slot].ops
        /\ t.conn[e.slot].phase = "canceling" => u.conn[e.slot].phase = "canceling"
    BY <1>2, <2>2 DEF Keeps
  <2> QED
    BY <1>2, <2>1, <2>3 DEF Expected
<1>3. CASE e.kind = "tick" /\ e.slot = None
  BY <1>3, SlotFacts DEF Expected
<1> QED
  BY <1>1, <1>2, <1>3 DEF Expected

\* The descriptors of a batch.
LEMMA HeldFacts ==
  /\ Held({}) = {}
  /\ \A S : NoDescriptor \notin Held(S)
BY DEF Held

\* A completion leaves the batch with its descriptor.
LEMMA HeldLess ==
  ASSUME BatchInv, NEW e \in batch
  PROVE  Held(batch \ {e}) = Held(batch) \ {e.fd}
BY DEF BatchInv, Held

\* The batch after a step that adds nothing to it.
LEMMA BatchKept ==
  ASSUME BatchInv, batch' \subseteq batch,
         \A e \in batch' : Expected(e, Table') /\ (e.kind = "tick" => ticking')
  PROVE  BatchInv'
BY DEF BatchInv, Same

\* The batch after a step of a handler.
LEMMA BatchHandled ==
  ASSUME BatchInv, batch' = batch, ticking => ticking', Keeps(Table, Table'), accepting \subseteq accepting'
  PROVE  BatchInv'
<1> SUFFICES ASSUME NEW e \in batch
             PROVE  Expected(e, Table') /\ (e.kind = "tick" => ticking')
  BY BatchKept
<1>1. Expected(e, Table) /\ (e.kind = "tick" => ticking)
  BY DEF BatchInv
<1>2. e.kind = "accept" => e.listener \in accepting
  BY <1>1, TableFields DEF Expected, Operation
<1>3. e.kind = "accept" => e.listener \in Table'.accepting
  BY <1>2, TableFieldsNext
<1> QED
  BY <1>1, <1>3, ExpectedKept

\* The loop starts with every slot on its free list.
LEMMA InitInv == Init => IInv
<1> SUFFICES ASSUME Init PROVE IInv
  OBVIOUS
<1> DEFINE p == [n \in 1 .. Public |-> n - 1]
           a == [n \in 1 .. Admin |-> Public + n - 1]
<1>1. /\ Public \in Nat \ {0} /\ Admin \in Nat /\ NoDescriptor \notin Descriptor
  BY SlotsAssumption
<1>2. Vacant \in Connection /\ Vacant.fd = NoDescriptor /\ Vacant.ops = {} /\ ~Vacant.idle_queued
      /\ Vacant.phase = "canceling"
  BY DEF Vacant, Connection
<1>3. conn \in [Slot -> Connection] /\ \A i \in Slot : conn[i] = Vacant
  BY <1>2 DEF Init
<1>4. p \in Seq(Slot) /\ a \in Seq(Slot) /\ Len(p) = Public /\ Len(a) = Admin
  <2>1. \A n \in 1 .. Public : n - 1 \in Slot
    BY <1>1 DEF Slot
  <2>2. \A n \in 1 .. Admin : Public + n - 1 \in Slot
    BY <1>1 DEF Slot
  <2>3. p \in [1 .. Public -> Slot] /\ a \in [1 .. Admin -> Slot]
    BY <2>1, <2>2
  <2> QED
    BY <2>3, <1>1
<1>5. free.public = p /\ free.admin = a /\ free \in [public: Seq(Slot), admin: Seq(Slot)]
  BY <1>4 DEF Init
<1>6. Table \in Tables
  <2>1. /\ active \in Seq(Slot) /\ idle \in [first: Slot \cup {None}, last: Slot \cup {None}]
        /\ open \in [Descriptor -> Int] /\ retry \in SUBSET Listener /\ accepting \in SUBSET Listener
    BY DEF Init
  <2>2. waiting \in [fd: Descriptor \cup {NoDescriptor}, reclaimed: BOOLEAN, late: BOOLEAN]
    BY DEF Init, NotWaiting
  <2> QED
    BY <1>3, <1>5, <2>1, <2>2 DEF Table, Tables
<1>7. TypeOK
  BY <1>6, Zenon DEF TypeOK, Init
<1>8. ActiveExact(Table)
  <2>1. Len(active) = 0
    BY Zenon DEF Init
  <2> QED
    BY <2>1, <1>2, <1>3, TableFields DEF ActiveExact
<1>9. FreeExact(Table)
  <2> SUFFICES ASSUME NEW l \in {"public", "admin"}
               PROVE  /\ \A n \in 1 .. Len(free[l]) :
                           List(free[l][n]) = l /\ conn[free[l][n]].fd = NoDescriptor
                      /\ \A m, n \in 1 .. Len(free[l]) : free[l][m] = free[l][n] => m = n
                      /\ \A i \in Slot : List(i) = l /\ conn[i].fd = NoDescriptor =>
                           \E n \in 1 .. Len(free[l]) : free[l][n] = i
    BY TableFields DEF FreeExact
  <2>1. CASE l = "public"
    <3>1. Len(free[l]) = Public /\ \A n \in 1 .. Public : free[l][n] = n - 1 /\ n - 1 \in Slot
      BY <1>1, <1>4, <1>5, <2>1 DEF Slot
    <3>2. \A n \in 1 .. Public : List(n - 1) = "public"
      BY <1>1 DEF List, IsAdmin
    <3>3. ASSUME NEW i \in Slot, List(i) = l PROVE \E n \in 1 .. Public : n - 1 = i
      <4>1. i + 1 \in 1 .. Public /\ (i + 1) - 1 = i
        BY <1>1, <2>1, <3>3 DEF List, IsAdmin, Slot
      <4> QED
        BY <4>1
    <3>4. \A n \in 1 .. Len(free[l]) : List(free[l][n]) = l /\ conn[free[l][n]].fd = NoDescriptor
      BY <1>2, <1>3, <2>1, <3>1, <3>2
    <3>5. \A m, n \in 1 .. Len(free[l]) : free[l][m] = free[l][n] => m = n
      BY <1>1, <3>1
    <3>6. \A i \in Slot : List(i) = l /\ conn[i].fd = NoDescriptor => \E n \in 1 .. Len(free[l]) : free[l][n] = i
      BY <3>1, <3>3
    <3> QED
      BY <3>4, <3>5, <3>6, Zenon
  <2>2. CASE l = "admin"
    <3>1. Len(free[l]) = Admin /\ \A n \in 1 .. Admin : free[l][n] = Public + n - 1 /\ Public + n - 1 \in Slot
      BY <1>1, <1>4, <1>5, <2>2 DEF Slot
    <3>2. \A n \in 1 .. Admin : List(Public + n - 1) = "admin"
      BY <1>1 DEF List, IsAdmin
    <3>3. ASSUME NEW i \in Slot, List(i) = l PROVE \E n \in 1 .. Admin : Public + n - 1 = i
      <4>1. i - Public + 1 \in 1 .. Admin /\ Public + (i - Public + 1) - 1 = i
        BY <1>1, <2>2, <3>3 DEF List, IsAdmin, Slot
      <4> QED
        BY <4>1
    <3>4. \A m, n \in 1 .. Admin : Public + m - 1 = Public + n - 1 => m = n
      BY <1>1
    <3>5. \A n \in 1 .. Len(free[l]) : List(free[l][n]) = l /\ conn[free[l][n]].fd = NoDescriptor
      BY <1>2, <1>3, <2>2, <3>1, <3>2
    <3>6. \A m, n \in 1 .. Len(free[l]) : free[l][m] = free[l][n] => m = n
      BY <3>1, <3>4
    <3>7. \A i \in Slot : List(i) = l /\ conn[i].fd = NoDescriptor => \E n \in 1 .. Len(free[l]) : free[l][n] = i
      BY <3>1, <3>3
    <3> QED
      BY <3>5, <3>6, <3>7, Zenon
  <2> QED
    BY <2>1, <2>2
<1>10. IdleChain(Table)
  <2> DEFINE q == [k \in 1 .. 0 |-> 0]
  <2>1. q \in [1 .. 0 -> Slot]
    BY <1>1
  <2>2. Table.idle.first = None /\ Table.idle.last = None
    BY TableFields DEF Init
  <2>3. \A i \in Slot : ~Table.conn[i].idle_queued
    BY <1>2, <1>3, TableFields
  <2> HIDE DEF q
  <2>4. Linked(Table, q, 0)
    BY <2>2, <2>3 DEF Linked
  <2> QED
    BY <2>1, <2>4, Zenon DEF IdleChain
<1>11. \A i \in Slot : Settled(Table.conn[i], i)
  BY <1>2, <1>3, TableFields DEF Settled
<1>12. waiting.fd = NoDescriptor /\ batch = {} /\ accepting = {}
  BY Zenon DEF Init, NotWaiting
<1>13. Owned(Table, {})
  BY <1>1, <1>2, <1>3, <1>12, TableFields DEF Owned, Init
<1>14. TableInv(Table, Held(batch))
  BY <1>6, <1>8, <1>9, <1>10, <1>11, <1>12, <1>13, HeldFacts DEF TableInv
<1>15. Receives(Table) /\ BatchInv /\ WaitingInv
  BY <1>2, <1>3, <1>12, TableFields DEF Receives, BatchInv, WaitingInv
<1>16. Running
  BY <1>14, <1>15, <1>12 DEF Running, Init
<1> QED
  BY <1>7, <1>16 DEF IInv, Init

\* A completion is copied from the ring. A descriptor that accept returns was
\* not open.
LEMMA CopyStep ==
  ASSUME IInv, Copy
  PROVE  IInv'
<1>1. /\ Running /\ TypeOK /\ pc = "collect" /\ TableInv(Table, Held(batch)) /\ Receives(Table)
      /\ BatchInv /\ WaitingInv /\ Table \in Tables
  BY DEF IInv, Running, Copy, TypeOK
<1>2. PICK e \in Completions :
        /\ \A d \in batch : ~Same(d, e)
        /\ batch' = batch \cup {e}
        /\ open' = IF e.fd = NoDescriptor THEN open ELSE [open EXCEPT ![e.fd] = 1]
  BY DEF Copy
<1>3. /\ conn' = conn /\ free' = free /\ active' = active /\ idle' = idle /\ waiting' = waiting
      /\ retry' = retry /\ accepting' = accepting /\ ticking' = ticking /\ pc' = pc
      /\ position' = position /\ stop' = stop /\ draining' = draining /\ stopping' = stopping
  BY DEF Copy
<1>4. /\ Expected(e, Table) /\ (e.kind = "tick" => ticking)
      /\ e.fd # NoDescriptor => e.fd \in Descriptor /\ open[e.fd] = 0
  <2>1. CASE \E l \in accepting : e \in AcceptCompletions(l)
    <3>1. PICK l \in accepting : e \in AcceptCompletions(l)
      BY <2>1
    <3>2. e.kind = "accept" /\ e.slot = None /\ e.listener = l
      BY <3>1, Zenon DEF AcceptCompletions, NoCompletion
    <3>3. \/ e.result = "accepted" /\ e.fd \in Descriptor /\ open[e.fd] = 0
          \/ e.result \in {"error", "canceled"} /\ e.fd = NoDescriptor
      BY <3>1, Zenon DEF AcceptCompletions, NoCompletion
    <3> QED
      BY <3>2, <3>3, TableFields DEF Expected
  <2>2. CASE \E i \in Slot : \E o \in conn[i].ops : e \in OperationCompletions(i, o)
    <3>1. PICK i \in Slot : \E o \in conn[i].ops : e \in OperationCompletions(i, o)
      BY <2>2
    <3>2. PICK o \in conn[i].ops : e \in OperationCompletions(i, o)
      BY <3>1
    <3>3. o \in Operation /\ conn[i].phase \in {"reading", "writing", "drain", "canceling"}
      BY <1>1, TableFields, ConnTyped DEF Connection
    <3>4. e.kind = o /\ e.slot = i /\ e.listener = "public" /\ e.fd = NoDescriptor
      BY <3>2, Zenon DEF OperationCompletions, NoCompletion
    <3>5. e.result \in CASE conn[i].phase = "canceling" -> {"canceled"}
            [] conn[i].phase # "canceling" /\ o = "receive" ->
                 {"data", "eof"} \cup (IF conn[i].phase = "reading" THEN {} ELSE {"canceled"})
            [] conn[i].phase # "canceling" /\ o = "send" -> {"all", "part", "error"}
      BY <3>2, Zenon DEF OperationCompletions, NoCompletion
    <3>6. /\ o = "receive" => e.result \in {"data", "eof", "canceled"}
          /\ o = "send" => e.result \in {"all", "part", "error"} \/ conn[i].phase = "canceling"
      <4>1. CASE conn[i].phase = "canceling"
        BY <4>1, <3>5
      <4>2. CASE conn[i].phase # "canceling" /\ o = "receive"
        BY <4>2, <3>5
      <4>3. CASE conn[i].phase # "canceling" /\ o = "send"
        BY <4>3, <3>5
      <4> QED
        BY <4>1, <4>2, <4>3, <3>3 DEF Operation
    <3>7. o # "tick"
      BY <3>3 DEF Operation
    <3> QED
      BY <3>3, <3>4, <3>6, <3>7, TableFields DEF Expected
  <2>3. CASE ticking /\ e = [NoCompletion EXCEPT !.kind = "tick"]
    BY <2>3 DEF NoCompletion, Expected
  <2>4. \/ e \in UNION {AcceptCompletions(l) : l \in accepting}
        \/ e \in UNION {UNION {OperationCompletions(i, o) : o \in conn[i].ops} : i \in Slot}
        \/ ticking /\ e = [NoCompletion EXCEPT !.kind = "tick"]
    BY Zenon DEF Completions
  <2> QED
    BY <2>1, <2>2, <2>3, <2>4
<1>5. Keeps(Table, Table') /\ Receives(Table')
  BY <1>1, <1>3, TableFields, TableFieldsNext DEF Keeps, Receives
<1>6. \A d \in batch' : Expected(d, Table') /\ (d.kind = "tick" => ticking')
  <2> SUFFICES ASSUME NEW d \in batch \cup {e}
               PROVE  Expected(d, Table') /\ (d.kind = "tick" => ticking')
    BY <1>2
  <2>1. Expected(d, Table) /\ (d.kind = "tick" => ticking)
    BY <1>1, <1>4 DEF BatchInv
  <2>2. d.kind = "accept" => d.listener \in Table'.accepting
    BY <2>1, <1>3, TableFields, TableFieldsNext, Zenon DEF Expected, Operation
  <2> QED
    BY <2>1, <2>2, <1>3, <1>5, ExpectedKept
<1>7. \A f \in Descriptor : open[f] = IF \/ f \in Held(batch) \/ waiting.fd = f
                                         \/ \E i \in Slot : conn[i].fd = f THEN 1 ELSE 0
  BY <1>1, TableFields DEF TableInv, Owned
<1>8. \A d \in batch : d.fd = e.fd => d.fd = NoDescriptor
  <2> SUFFICES ASSUME NEW d \in batch, d.fd = e.fd, d.fd # NoDescriptor PROVE FALSE
    OBVIOUS
  <2>1. d.fd \in Held(batch)
    BY DEF Held
  <2> QED
    BY <2>1, <1>4, <1>7
<1>9. BatchInv'
  <2>1. \A c, d \in batch : c # d => ~Same(c, d) /\ (c.fd = d.fd => c.fd = NoDescriptor)
    BY <1>1 DEF BatchInv
  <2>2. \A d \in batch : ~Same(e, d)
    BY <1>2 DEF Same
  <2>3. \A c, d \in batch \cup {e} : c # d => ~Same(c, d) /\ (c.fd = d.fd => c.fd = NoDescriptor)
    BY <1>2, <1>8, <2>1, <2>2
  <2> QED
    BY <1>2, <1>6, <2>3 DEF BatchInv, Same
<1>10. TableInv(Table', Held(batch'))
  <2>1. Table' \in Tables /\ open' \in [Descriptor -> Int]
    <3>1. open' \in [Descriptor -> Int]
      BY <1>1, <1>2, <1>4, TableFields DEF Tables
    <3> QED
      BY <3>1, <1>1, <1>3, Zenon DEF Tables, Table
  <2>2. CASE e.fd = NoDescriptor
    <3>1. Held(batch') = Held(batch) /\ open' = open
      BY <2>2, <1>2 DEF Held
    <3>2. Table' = Table
      BY <3>1, <1>3 DEF Table
    <3> QED
      BY <3>1, <3>2, <1>1
  <2>3. CASE e.fd # NoDescriptor
    <3> DEFINE fd == e.fd
    <3>1. Held(batch') = Held(batch) \cup {fd}
      BY <2>3, <1>2 DEF Held
    <3>2. fd \notin Held(batch) /\ waiting.fd # fd /\ \A i \in Slot : conn[i].fd # fd
      BY <2>3, <1>4, <1>7
    <3>3. open' = [open EXCEPT ![fd] = 1] /\ fd \in Descriptor /\ open \in [Descriptor -> Int]
      BY <2>3, <1>1, <1>2, <1>4, TableFields, Zenon DEF Tables
    <3> HIDE DEF fd
    <3>4. /\ \A i, j \in Slot : conn[i].fd = conn[j].fd => i = j \/ conn[i].fd = NoDescriptor
          /\ \A i \in Slot : conn[i].fd # NoDescriptor => conn[i].fd \notin Held(batch) /\ conn[i].fd # waiting.fd
          /\ waiting.fd \notin Held(batch)
      BY <1>1, TableFields DEF TableInv, Owned
    <3>5. \A f \in Descriptor : open'[f] = IF \/ f \in Held(batch) \cup {fd} \/ waiting.fd = f
                                              \/ \E i \in Slot : conn[i].fd = f THEN 1 ELSE 0
      BY <1>7, <3>2, <3>3, Zenon
    <3>6. Owned(Table', Held(batch'))
      BY <3>1, <3>2, <3>4, <3>5, <1>3, TableFieldsNext DEF Owned
    <3>7. /\ Table'.conn = Table.conn /\ Table'.free = Table.free /\ Table'.active = Table.active
          /\ Table'.idle = Table.idle
      BY <1>3, TableFields, TableFieldsNext
    <3> QED
      BY <1>1, <2>1, <3>6, <3>7, OwnedInv
  <2> QED
    BY <2>2, <2>3, Zenon
<1>11. WaitingInv'
  BY <1>1, <1>3, Zenon DEF WaitingInv
<1>12. Running'
  BY <1>1, <1>3, <1>5, <1>9, <1>10, <1>11 DEF Running
<1>13. TypeOK'
  BY <1>1, <1>3, <1>10, Zenon DEF TypeOK, TableInv
<1> QED
  BY <1>1, <1>3, <1>12, <1>13 DEF IInv

\* What a step has to show, while the loop runs.
Runs ==
  /\ pc \in {"collect", "dispatch", "tick", "shutdown", "stop", "exited"} /\ position \in Nat
  /\ ticking \in BOOLEAN /\ stop \in BOOLEAN /\ draining \in BOOLEAN /\ stopping \in BOOLEAN

\* While the loop runs, its invariant is Running.
LEMMA RunsOn ==
  ASSUME Runs', Running'
  PROVE  IInv'
BY DEF Runs, Running, IInv, TypeOK, TableInv

\* While the loop runs, the invariant is Running.
LEMMA RunningFacts ==
  ASSUME IInv, pc # "freed"
  PROVE  /\ Runs /\ Running /\ Table \in Tables
         /\ TableInv(Table, Held(batch)) /\ Receives(Table) /\ BatchInv /\ WaitingInv
BY Zenon DEF Runs, Running, IInv, TypeOK

\* A step that does not reclaim a connection.
NoReclaim == waiting'.reclaimed => waiting.reclaimed

\* An accept completes.
LEMMA AcceptStep ==
  ASSUME IInv, pc \in {"collect", "dispatch"}, NEW e \in batch, batch' = batch \ {e}, CompleteAccept(e),
         UNCHANGED <<stop, draining, stopping>>
  PROVE  IInv' /\ NoReclaim
<1> DEFINE X == Held(batch)
           l == e.listener
           A == accepting \ {l}
           t == [Table EXCEPT !.accepting = A]
<1>1. /\ Runs /\ TableInv(Table, X) /\ Receives(Table) /\ BatchInv /\ WaitingInv /\ Table \in Tables
  BY RunningFacts
<1>2. /\ e.kind = "accept" /\ pc' = "dispatch" /\ ticking' = ticking /\ position' = position
      /\ stop' = stop /\ draining' = draining /\ stopping' = stopping
  BY Zenon DEF CompleteAccept
<1>3. /\ e.slot = None /\ l \in accepting
      /\ \/ e.result = "accepted" /\ e.fd \in Descriptor
         \/ e.result \in {"error", "canceled"} /\ e.fd = NoDescriptor
  BY <1>1, <1>2, TableFields DEF BatchInv, Expected, Operation
<1>4. Held(batch') = X \ {e.fd}
  BY <1>1, HeldLess, Zenon
<1>5. A \in SUBSET Listener /\ accepting \in SUBSET Listener /\ retry \in SUBSET Listener
  BY <1>1, TableFields DEF Tables
<1>6. t = [Table EXCEPT !.accepting = @ \ {l}]
  BY TableFields
<1> HIDE DEF A, t
<1>7. /\ TableInv(t, X) /\ t.conn = conn /\ t.accepting = A /\ t.waiting = waiting
      /\ t.retry = retry
  BY <1>1, <1>5, AcceptingInv, TableFields DEF t
<1>8. Receives(t)
  BY <1>1, <1>7, TableFields DEF Receives
<1>9. PICK u : /\ Becomes(u) /\ TableInv(u, X \ {e.fd}) /\ Receives(u) /\ Keeps(Table, u)
               /\ u.accepting = A
               /\ \/ u.waiting = waiting
                  \/ /\ u.waiting.fd = e.fd /\ e.fd \in Descriptor /\ l = "public" /\ ~draining
                     /\ u.waiting.reclaimed = FALSE
  <2>1. CASE /\ e.result = "accepted"
             /\ \E u \in acceptConnection([t EXCEPT !.retry = @ \ {l}], e.fd, l) : Becomes(u)
    <3> DEFINE R == retry \ {l}
               r == [t EXCEPT !.retry = R]
    <3>1. r = [t EXCEPT !.retry = @ \ {l}] /\ R \in SUBSET Listener
      BY <1>5, <1>7
    <3>2. PICK u \in acceptConnection(r, e.fd, l) : Becomes(u)
      BY <2>1, <3>1
    <3> HIDE DEF R
    <3>3. TableInv(r, X) /\ r.conn = conn /\ r.accepting = A /\ r.waiting = waiting
      BY <1>7, <3>1, RetryInv
    <3> HIDE DEF r
    <3>4. Receives(r)
      BY <1>7, <1>8, <3>3 DEF Receives
    <3>5. e.fd \in Descriptor \cap X /\ e.fd # NoDescriptor
      BY <1>3, <2>1, SlotsAssumption, Zenon DEF Held
    <3>6. Accepted(r, u, X \ {e.fd}) /\ Admitted(r, u, e.fd, l)
      <4> HIDE DEF X, l
      <4> QED
        BY <3>2, <3>3, <3>4, <3>5, AcceptConnectionInv, Zenon
    <3>7. Keeps(Table, u)
      BY <3>3, <3>6, TableFields DEF Accepted, Keeps
    <3>8. \/ u.waiting = waiting
          \/ u.waiting.fd = e.fd /\ l = "public" /\ ~draining /\ u.waiting.reclaimed = FALSE
      <4>1. /\ [NotWaiting EXCEPT !.fd = e.fd].fd = e.fd
            /\ [NotWaiting EXCEPT !.fd = e.fd].reclaimed = FALSE
        BY Zenon DEF NotWaiting
      <4> QED
        BY <3>3, <3>6, <4>1, Zenon DEF Admitted
    <3> QED
      BY <3>2, <3>3, <3>5, <3>6, <3>7, <3>8 DEF Accepted
  <2>2. CASE e.result = "error" /\ Becomes([t EXCEPT !.retry = @ \cup {l}])
    <3> DEFINE R == retry \cup {l}
               r == [t EXCEPT !.retry = R]
    <3>1. r = [t EXCEPT !.retry = @ \cup {l}] /\ R \in SUBSET Listener
      BY <1>3, <1>5, <1>7
    <3> HIDE DEF R
    <3>2. TableInv(r, X) /\ r.conn = conn /\ r.accepting = A /\ r.waiting = waiting
      BY <1>7, <3>1, RetryInv
    <3>3. Becomes(r)
      BY <2>2, <3>1
    <3> HIDE DEF r
    <3>4. X = X \ {e.fd}
      BY <1>3, <2>2, HeldFacts, Zenon
    <3>5. Receives(r) /\ Keeps(Table, r)
      BY <1>7, <1>8, <3>2, TableFields, Zenon DEF Receives, Keeps
    <3> QED
      BY <3>2, <3>3, <3>4, <3>5
  <2>3. CASE e.result = "canceled" /\ Becomes(t)
    <3>1. X = X \ {e.fd}
      BY <1>3, <2>3, HeldFacts
    <3>2. Keeps(Table, t)
      BY <1>7, TableFields, Zenon DEF Keeps
    <3> QED
      BY <1>7, <1>8, <2>3, <3>1, <3>2
  <2> QED
    BY <1>6, <2>1, <2>2, <2>3, Zenon DEF CompleteAccept
<1>10. Table' = u /\ accepting' = A /\ waiting' = u.waiting
  BY <1>9, TableNext, Zenon DEF TableInv, Becomes
<1>11. BatchInv'
  <2> SUFFICES ASSUME NEW d \in batch \ {e}
               PROVE  Expected(d, Table') /\ (d.kind = "tick" => ticking')
    BY <1>1, BatchKept
  <2>1. Expected(d, Table) /\ (d.kind = "tick" => ticking) /\ ~Same(d, e)
    BY <1>1, Zenon DEF BatchInv
  <2>2. d.kind = "accept" => d.listener \in A
    BY <2>1, <1>2, <1>3, TableFields DEF Expected, Operation, Same, A
  <2>3. d.kind = "accept" => d.listener \in u.accepting
    BY <2>2, <1>9, Zenon
  <2> QED
    BY <2>1, <2>3, <1>2, <1>9, <1>10, ExpectedKept
<1>12. WaitingInv'
  <2>1. A \subseteq accepting /\ l \notin A /\ accepting \subseteq Listening
    BY <1>1, Zenon DEF A, WaitingInv
  <2>2. accepting' \subseteq Listening /\ draining' = draining
    BY <2>1, <1>2, <1>10, Zenon
  <2>3. waiting'.fd # NoDescriptor => "public" \in Listening /\ "public" \notin A /\ ~draining
    BY <2>1, <1>1, <1>3, <1>9, <1>10, Zenon DEF WaitingInv
  <2> QED
    BY <2>2, <2>3, <1>10 DEF WaitingInv
<1>13. Running'
  BY <1>2, <1>4, <1>9, <1>10, <1>11, <1>12 DEF Running
<1> QED
  BY <1>1, <1>2, <1>9, <1>10, <1>13, RunsOn DEF Runs, NoReclaim

\* An operation of a connection completes.
LEMMA OperationStep ==
  ASSUME IInv, pc \in {"collect", "dispatch"}, NEW e \in batch, batch' = batch \ {e}, CompleteOperation(e),
         UNCHANGED <<stop, draining, stopping>>
  PROVE  IInv' /\ NoReclaim
<1> DEFINE X == Held(batch)
           i == e.slot
           c == conn[i]
           d == [c EXCEPT !.ops = c.ops \ {e.kind}]
           t == WithConn(Table, i, d)
<1>1. /\ Runs /\ TableInv(Table, X) /\ Receives(Table) /\ BatchInv /\ WaitingInv /\ Table \in Tables
  BY RunningFacts
<1>2. /\ e.kind \in Operation /\ pc' = "dispatch" /\ ticking' = ticking /\ position' = position
      /\ stop' = stop /\ draining' = draining /\ stopping' = stopping
  BY Zenon DEF CompleteOperation
<1>3. /\ i \in Slot /\ e.listener = "public" /\ e.kind \in c.ops /\ e.fd = NoDescriptor
      /\ e.kind = "receive" => e.result \in {"data", "eof", "canceled"}
      /\ e.kind = "send" => e.result \in {"all", "part", "error"} \/ c.phase = "canceling"
  BY <1>1, <1>2, TableFields DEF BatchInv, Expected, Operation
<1>4. Held(batch') = X
  BY <1>1, <1>3, HeldLess, HeldFacts, Zenon
<1>5. c \in Connection /\ Settled(c, i) /\ c.fd # NoDescriptor
  BY <1>1, <1>3, ConnTyped, TableFields DEF TableInv, Settled
<1>6. /\ d \in Connection /\ SamePlace(c, d) /\ d.ops = c.ops \ {e.kind}
      /\ d.phase = c.phase /\ d.started = c.started /\ d.served = c.served
  BY <1>5 DEF Connection, SamePlace
<1>7. t = [Table EXCEPT !.conn[i].ops = @ \ {e.kind}]
  BY TableFields DEF WithConn
<1> HIDE DEF c, d, i
<1>8. Settled(d, i)
  BY <1>5, <1>6, Zenon DEF Settled, SamePlace
<1>9. /\ TableInv(t, X) /\ SameTable(Table, t)
      /\ \A j \in Slot : t.conn[j] = IF j = i THEN d ELSE conn[j]
  <2>1. d \in Connection /\ Settled(d, i) /\ SamePlace(Table.conn[i], d)
    BY <1>6, <1>8, TableFields DEF c
  <2>2. \A j \in Slot : Table.conn[j] = conn[j]
    BY TableFields, Zenon
  <2> HIDE DEF X
  <2> QED
    BY <1>1, <1>3, <2>1, <2>2, UpdateInv
<1> HIDE DEF t
<1>10. OthersReceive(t, i) /\ t.conn[i].fd # NoDescriptor /\ t.conn[i].phase = c.phase
  BY <1>1, <1>3, <1>5, <1>6, <1>9, TableFields DEF OthersReceive, Receives, SamePlace
<1>11. PICK v : Handled(t, v, X) /\ Becomes(IF v.conn[i].phase = "canceling" THEN finishClose(v, i) ELSE v)
  <2> DEFINE handled == IF c.phase = "canceling" THEN {t}
                        ELSE CASE e.kind = "receive" -> received(t, i, e.result)
                               [] e.kind = "send" -> sent(t, i, e.result)
  <2>1. \E v \in handled : Becomes(IF v.conn[i].phase = "canceling" THEN finishClose(v, i) ELSE v)
    BY <1>7, Zenon DEF CompleteOperation, c, i
  <2>2. \A v \in handled : Handled(t, v, X)
    <3>1. CASE c.phase = "canceling"
      <4>1. Receives(t)
        BY <3>1, <1>3, <1>5, <1>6, <1>9, <1>10, Zenon DEF Settled, Receives, OthersReceive, SamePlace
      <4>2. Keeps(t, t)
        BY Zenon DEF Keeps
      <4>3. Len(t.active) \in Nat
        BY <1>9 DEF TableInv, Tables
      <4>4. Effect(t, t)
        BY <4>2, <4>3 DEF Effect
      <4> QED
        BY <3>1, <4>1, <4>4, <1>9, Zenon DEF Handled
    <3>2. CASE c.phase # "canceling" /\ e.kind = "receive"
      <4>1. Served(t, X, i) /\ handled = received(t, i, e.result) /\ e.result \in {"data", "eof", "canceled"}
        BY <3>2, <1>3, <1>9, <1>10, Zenon DEF Served
      <4>2. t.conn[i].phase = "writing" => ~t.conn[i].idle_queued
        BY <1>3, <1>8, <1>9, Zenon DEF Settled
      <4> HIDE DEF handled, X
      <4> QED
        BY <1>3, <4>1, <4>2, ReceivedInv
    <3>3. CASE c.phase # "canceling" /\ e.kind = "send"
      <4>1. Served(t, X, i) /\ handled = sent(t, i, e.result) /\ e.result \in {"all", "part", "error"}
        BY <3>3, <1>3, <1>9, <1>10 DEF Served
      <4>2. "send" \notin t.conn[i].ops /\ t.conn[i].phase = "writing"
        BY <3>3, <1>3, <1>5, <1>6, <1>9, Zenon DEF Settled
      <4> HIDE DEF handled, X
      <4> QED
        BY <1>3, <4>1, <4>2, SentInv
    <3> QED
      BY <3>1, <3>2, <3>3, <1>2 DEF Operation
  <2> QED
    BY <2>1, <2>2, Zenon
<1> DEFINE u == IF v.conn[i].phase = "canceling" THEN finishClose(v, i) ELSE v
<1>12. TableInv(u, X) /\ Receives(u) /\ Keeps(t, u) /\ u.waiting = waiting /\ u.accepting = accepting
  <2>1. TableInv(v, X) /\ Receives(v) /\ Keeps(t, v) /\ v.waiting = waiting /\ v.accepting = accepting
    BY <1>9, <1>11, TableFields, Zenon DEF Handled, Effect, SameTable
  <2>2. CASE v.conn[i].phase = "canceling"
    <3>1. u = finishClose(v, i)
      BY <2>2, Zenon
    <3>2. i \in Slot /\ TableInv(v, X) /\ ~v.conn[i].idle_queued
      BY <2>1, <2>2, <1>3 DEF TableInv, Settled
    <3> HIDE DEF u, X
    <3>3. TableInv(u, X) /\ Finished(v, u, i)
      BY <3>1, <3>2, FinishCloseInv, Zenon
    <3>4. Receives(u)
      BY <2>1, <3>3, Zenon DEF Receives, Finished
    <3>5. Keeps(v, u)
      BY <2>2, <3>3 DEF Keeps, Finished
    <3>6. Keeps(t, u)
      BY <2>1, <3>5, Zenon DEF Keeps
    <3> QED
      BY <2>1, <3>3, <3>4, <3>6 DEF Finished
  <2>3. CASE v.conn[i].phase # "canceling"
    <3>1. u = v
      BY <2>3
    <3> QED
      BY <2>1, <3>1
  <2> QED
    BY <2>2, <2>3, Zenon
<1>13. Table' = u /\ accepting' = accepting /\ waiting' = waiting
  <2>1. Becomes(u) /\ u \in Tables
    BY <1>11, <1>12, Zenon DEF TableInv
  <2> HIDE DEF u
  <2> QED
    BY <2>1, <1>12, TableNext DEF Becomes
<1> HIDE DEF u
<1>14. BatchInv'
  <2> SUFFICES ASSUME NEW b \in batch \ {e}
               PROVE  Expected(b, Table') /\ (b.kind = "tick" => ticking')
    BY <1>1, BatchKept
  <2>1. Expected(b, Table) /\ (b.kind = "tick" => ticking) /\ ~Same(b, e)
    BY <1>1 DEF BatchInv
  <2>2. Expected(b, t)
    <3>1. CASE b.slot = i
      <4>1. b.slot \in Slot /\ b.slot # None
        BY <3>1, <1>3, SlotFacts, Zenon
      <4>2. /\ b.listener = "public" /\ b.kind \in Operation /\ b.kind \in conn[b.slot].ops
            /\ b.fd = NoDescriptor
            /\ b.kind = "receive" => b.result \in {"data", "eof", "canceled"}
            /\ b.kind = "send" =>
                 b.result \in {"all", "part", "error"} \/ conn[b.slot].phase = "canceling"
        BY <2>1, <4>1, TableFields DEF Expected
      <4>3. b.kind # e.kind
        BY <2>1, <3>1, <4>2, <1>3, Zenon DEF Same, i
      <4>4. b.kind \in t.conn[b.slot].ops /\ t.conn[b.slot].phase = conn[b.slot].phase
        BY <3>1, <4>1, <4>2, <4>3, <1>6, <1>9, Zenon DEF c
      <4> QED
        BY <4>1, <4>2, <4>4 DEF Expected
    <3>2. CASE b.slot # i
      <4>1. t.accepting = Table.accepting /\ (b.slot \in Slot => t.conn[b.slot] = Table.conn[b.slot])
        BY <3>2, <1>9, TableFields, Zenon DEF SameTable
      <4> QED
        BY <2>1, <4>1 DEF Expected
    <3> QED
      BY <3>1, <3>2, Zenon
  <2>3. b.kind = "accept" => b.listener \in u.accepting
    BY <2>1, <1>12, TableFields DEF Expected, Operation
  <2> QED
    BY <2>1, <2>2, <2>3, <1>2, <1>12, <1>13, ExpectedKept
<1>15. WaitingInv'
  BY <1>1, <1>2, <1>13 DEF WaitingInv
<1>16. Running'
  BY <1>2, <1>4, <1>12, <1>13, <1>14, <1>15 DEF Running
<1> QED
  BY <1>1, <1>2, <1>13, <1>16, RunsOn DEF Runs, NoReclaim

\* The timer completes, and the walk over the active slots begins.
LEMMA TickStep ==
  ASSUME IInv, pc \in {"collect", "dispatch"}, NEW e \in batch, batch' = batch \ {e}, CompleteTick(e),
         UNCHANGED <<stop, draining, stopping>>
  PROVE  IInv' /\ NoReclaim
<1>1. /\ Runs /\ TableInv(Table, Held(batch)) /\ Receives(Table) /\ BatchInv /\ WaitingInv /\ Table \in Tables
  BY RunningFacts
<1>2. /\ e.kind = "tick" /\ ticking' = FALSE /\ pc' \in {"tick", "dispatch"}
      /\ pc' = "tick" => position' = Len(active)
      /\ pc' = "dispatch" => position' = position
      /\ UNCHANGED table /\ stop' = stop /\ draining' = draining /\ stopping' = stopping
  BY Zenon DEF CompleteTick
<1>3. e.fd = NoDescriptor /\ e.slot = None /\ e.listener = "public"
  BY <1>1, <1>2 DEF BatchInv, Expected, Operation
<1>4. Held(batch') = Held(batch)
  BY <1>1, <1>3, HeldLess, HeldFacts
<1>5. Table' = Table /\ waiting' = waiting /\ accepting' = accepting /\ active' = active
  BY <1>2, TableSame DEF table
<1>6. BatchInv'
  <2> SUFFICES ASSUME NEW d \in batch \ {e}
               PROVE  Expected(d, Table') /\ (d.kind = "tick" => ticking')
    BY <1>1, BatchKept
  <2>1. Expected(d, Table) /\ ~Same(d, e)
    BY <1>1, Zenon DEF BatchInv
  <2>2. d.kind # "tick"
    BY <2>1, <1>2, <1>3 DEF Expected, Operation, Same
  <2> QED
    BY <2>1, <2>2, <1>5
<1>7. WaitingInv'
  BY <1>1, <1>2, <1>5 DEF WaitingInv
<1>8. Len(active) \in Nat
  BY <1>1, TableFields DEF Tables
<1>9. Running'
  <2>1. TableInv(Table, Held(batch))' /\ Receives(Table)'
    BY <1>1, <1>4, <1>5, Zenon
  <2>2. pc' = "tick" => position' <= Len(active')
    BY <1>2, <1>5, <1>8
  <2> QED
    BY <1>2, <1>6, <1>7, <2>1, <2>2 DEF Running
<1>10. Runs'
  BY <1>1, <1>2, <1>8, Zenon DEF Runs
<1> QED
  BY <1>5, <1>9, <1>10, RunsOn DEF NoReclaim

\* A completion is dispatched.
LEMMA DispatchStep ==
  ASSUME IInv, Dispatch
  PROVE  IInv' /\ NoReclaim
<1>1. PICK e \in batch :
        /\ batch' = batch \ {e}
        /\ CompleteAccept(e) \/ CompleteOperation(e) \/ CompleteTick(e)
  BY DEF Dispatch
<1>2. pc \in {"collect", "dispatch"} /\ UNCHANGED <<stop, draining, stopping>>
  BY DEF Dispatch
<1> QED
  BY <1>1, <1>2, AcceptStep, OperationStep, TickStep

\* tick visits an active slot. Closing it moves a slot that was visited
\* before, so the slots below the position stay active.
LEMMA TickVisitStep ==
  ASSUME IInv, TickVisit
  PROVE  IInv' /\ NoReclaim
<1> DEFINE X == Held(batch)
           i == active[position]
<1>1. /\ Runs /\ Running /\ TableInv(Table, X) /\ Receives(Table) /\ BatchInv /\ WaitingInv /\ Table \in Tables
  BY RunningFacts DEF TickVisit
<1>2. /\ pc = "tick" /\ position > 0 /\ position' = position - 1 /\ ticking' = ticking /\ batch' = batch
      /\ pc' = pc /\ stop' = stop /\ draining' = draining /\ stopping' = stopping
  BY Zenon DEF TickVisit
<1>3. position \in Nat /\ position <= Len(active) /\ Len(active) \in Nat
  BY <1>1, <1>2, TableFields DEF Running, Runs, Tables
<1>4. i \in Slot /\ conn[i].fd # NoDescriptor
  <2>1. position \in 1 .. Len(active) /\ active \in Seq(Slot) /\ ActiveExact(Table)
    <3>1. active \in Seq(Slot)
      BY <1>1, TableFields, Zenon DEF Tables
    <3>2. ActiveExact(Table)
      BY <1>1, Zenon DEF TableInv
    <3> QED
      BY <1>2, <1>3, <3>1, <3>2
  <2> QED
    BY <2>1, TableFields DEF ActiveExact
<1>5. PICK u \in {Table} \cup Expired(Table, i) : Becomes(u)
  BY DEF TickVisit
<1> HIDE DEF i, X
<1>6. Handled(Table, u, X)
  <2>1. CASE u = Table
    BY <1>1, <1>3, <2>1, TableFields DEF Handled, Effect, Keeps
  <2>2. CASE u \in Expired(Table, i)
    <3>1. Table.conn[i].fd # NoDescriptor
      BY <1>4, TableFields
    <3> QED
      BY <1>1, <1>4, <2>2, <3>1, ExpiredInv
  <2> QED
    BY <1>5, <2>1, <2>2, Zenon
<1>7. Table' = u
  <2>1. u \in Tables
    BY <1>6, Zenon DEF Handled, TableInv
  <2> QED
    BY <1>5, <2>1, TableNext
<1>8. TableInv(Table', X) /\ Receives(Table') /\ Keeps(Table, Table')
  BY <1>6, <1>7 DEF Handled, Effect
<1>9. accepting' = accepting /\ waiting' = waiting /\ Len(active') >= Len(active) - 1 /\ Len(active') \in Nat
  <2>1. Effect(Table, Table')
    BY <1>6, <1>7, Zenon DEF Handled
  <2>2. accepting' = accepting /\ waiting' = waiting /\ Len(active') >= Len(active) - 1
    BY <2>1, TableFields, TableFieldsNext DEF Effect
  <2>3. Table' \in Tables
    BY <1>8 DEF TableInv
  <2>4. active' \in Seq(Slot)
    BY <2>3, TableFieldsNext, Zenon DEF Tables
  <2> QED
    BY <2>2, <2>4
<1>10. BatchInv'
  BY <1>1, <1>2, <1>8, <1>9, BatchHandled
<1>11. WaitingInv'
  BY <1>1, <1>2, <1>9 DEF WaitingInv
<1>12. position' <= Len(active') /\ position' \in Nat
  BY <1>2, <1>3, <1>9
<1>13. Running'
  BY <1>2, <1>8, <1>10, <1>11, <1>12 DEF Running, X
<1> QED
  BY <1>1, <1>2, <1>9, <1>12, <1>13, RunsOn DEF Runs, NoReclaim

=============================================================================

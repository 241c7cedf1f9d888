------------------------------- MODULE Slots -------------------------------
(***************************************************************************)
(* One event loop (server/worker.zig) at work on its slot table            *)
(* (SlotTable): it copies completions from the ring in batches, dispatches *)
(* them, visits the active slots when the timer fires, looks at its three  *)
(* listeners once the batch is done, and shuts down.                       *)
(***************************************************************************)
EXTENDS SlotTable, FiniteSets

VARIABLES
  conn,         \* the connection table
  free,         \* public_free and admin_free, as the slots they link
  active,       \* active_slots[0 .. active_connections)
  idle,         \* idle_first and idle_last
  open,         \* per descriptor, accepts that returned it less its closes
  waiting,      \* waiting_accept, waiting_reclaim_started, and its deadline's passing
  retry,        \* listeners whose retry time is set
  accepting,    \* listeners with an accept in the ring
  ticking,      \* the timer is in the ring
  batch,        \* completions copied from the ring and not yet dispatched
  pc,           \* where the loop is
  position,     \* tick: active slots still to visit; a sweep of the table: its next slot
  stopping      \* its operations are being stopped

table == <<conn, free, active, idle, open, waiting, retry, accepting>>
vars == <<table, ticking, batch, pc, position, stop, draining, stopping>>

\* The table that the handlers change.
Table == [conn |-> conn, free |-> free, active |-> active, idle |-> idle, open |-> open,
          waiting |-> waiting, retry |-> retry, accepting |-> accepting]
Becomes(t) ==
  /\ conn' = t.conn /\ free' = t.free /\ active' = t.active /\ idle' = t.idle
  /\ open' = t.open /\ waiting' = t.waiting /\ retry' = t.retry
  /\ accepting' = t.accepting

(***************************************************************************)
(* Completions                                                             *)
(***************************************************************************)
\* external: io_uring. A completion of each operation in the ring, with the
\* results it may have.
NoCompletion == [kind |-> "none", listener |-> "public", slot |-> None, result |-> "none", fd |-> NoDescriptor]
AcceptCompletions(l) ==
  LET e == [NoCompletion EXCEPT !.kind = "accept", !.listener = l]
  IN  {[e EXCEPT !.result = "accepted", !.fd = fd] : fd \in {d \in Descriptor : open[d] = 0}}
        \cup {[e EXCEPT !.result = r] : r \in (IF Faults THEN {"error"} ELSE {})
                                              \cup (IF draining THEN {"canceled"} ELSE {})}
\* (The result of an operation of a canceled connection is not looked at.)
OperationCompletions(i, o) ==
  {[NoCompletion EXCEPT !.kind = o, !.slot = i, !.result = r] : r \in
     CASE conn[i].phase = "canceling" -> {"canceled"}
       [] conn[i].phase # "canceling" /\ o = "receive" ->
            {"data", "eof"} \cup (IF conn[i].phase = "reading" THEN {} ELSE {"canceled"})
       [] conn[i].phase # "canceling" /\ o = "send" -> {"all", "part", "error"}}
Completions ==
  (UNION {AcceptCompletions(l) : l \in accepting})
  \cup (UNION {UNION {OperationCompletions(i, o) : o \in conn[i].ops} : i \in Slot})
  \cup (IF ticking THEN {[NoCompletion EXCEPT !.kind = "tick"]} ELSE {})

Same(d, e) == d.kind = e.kind /\ d.listener = e.listener /\ d.slot = e.slot

\* copy_cqes, one completion at a time.
Copy ==
  /\ pc = "collect" /\ Cardinality(batch) < Budget
  /\ \E e \in Completions:
       /\ \A d \in batch : ~Same(d, e)
       /\ batch' = batch \cup {e}
       /\ open' = IF e.fd = NoDescriptor THEN open ELSE [open EXCEPT ![e.fd] = 1]
  /\ UNCHANGED <<conn, free, active, idle, waiting, retry, accepting, ticking, pc, position, stop, draining, stopping>>

\* complete, for an accept.
CompleteAccept(e) ==
  LET t == [Table EXCEPT !.accepting = @ \ {e.listener}]
  IN  /\ e.kind = "accept"
      /\ \/ /\ e.result = "accepted"
            /\ \E u \in acceptConnection([t EXCEPT !.retry = @ \ {e.listener}], e.fd, e.listener):
                 Becomes(u)
         \/ e.result = "error" /\ Becomes([t EXCEPT !.retry = @ \cup {e.listener}])
         \/ e.result = "canceled" /\ Becomes(t)
      /\ pc' = "dispatch"
      /\ UNCHANGED <<ticking, position>>

\* complete, for an operation of a connection.
CompleteOperation(e) ==
  LET i == e.slot
      t == [Table EXCEPT !.conn[i].ops = @ \ {e.kind}]
      handled == IF conn[i].phase = "canceling" THEN {t}
                 ELSE CASE e.kind = "receive" -> received(t, i, e.result)
                        [] e.kind = "send" -> sent(t, i, e.result)
  IN  /\ e.kind \in Operation
      /\ \E u \in handled:
           Becomes(IF u.conn[i].phase = "canceling" THEN finishClose(u, i) ELSE u)
      /\ pc' = "dispatch"
      /\ UNCHANGED <<ticking, position>>

\* complete, for the timer: tick walks the active slots from the last down.
CompleteTick(e) ==
  /\ e.kind = "tick"
  /\ ticking' = FALSE
  /\ \/ /\ ~stopping
        /\ pc' = "tick" /\ position' = Len(active)
     \/ stopping /\ pc' = "dispatch" /\ UNCHANGED position
  /\ UNCHANGED table

Dispatch ==
  /\ pc \in {"collect", "dispatch"}
  /\ \E e \in batch :
       /\ batch' = batch \ {e}
       /\ CompleteAccept(e) \/ CompleteOperation(e) \/ CompleteTick(e)
  /\ UNCHANGED <<stop, draining, stopping>>

TickVisit ==
  /\ pc = "tick" /\ position > 0
  /\ position' = position - 1
  /\ \E t \in {Table} \cup Expired(Table, active[position]): Becomes(t)
  /\ UNCHANGED <<ticking, batch, pc, stop, draining, stopping>>

TickDone ==
  /\ pc = "tick" /\ position = 0
  /\ pc' = "dispatch"
  /\ UNCHANGED <<table, ticking, batch, position, stop, draining, stopping>>

(***************************************************************************)
(* The loop                                                                *)
(***************************************************************************)
\* The batch is dispatched: stop the operations if no connection is left or
\* the deadline has passed, begin to shut down if the flag is set, and
\* otherwise look at the listeners; the timer is armed unless stopping.
Round ==
  /\ pc = "dispatch" /\ batch = {}
  /\ \/ /\ draining /\ ~stopping
        /\ stopping' = TRUE /\ pc' = "stop" /\ position' = 0
        /\ UNCHANGED <<table, draining, ticking>>
     \/ /\ draining /\ (stopping \/ active # <<>>)
        /\ ticking' = (ticking \/ ~stopping) /\ pc' = "collect"
        /\ UNCHANGED <<table, draining, stopping, position>>
     \/ /\ stop /\ ~draining
        /\ draining' = TRUE /\ pc' = "shutdown" /\ position' = 0
        /\ Becomes(beginShutdown(Table))
        /\ UNCHANGED <<stopping, ticking>>
     \/ /\ ~stop
        /\ \E t \in queueAccept(Table, "public"): \E u \in queueAccept(t, "redirect"):
             \E v \in queueAccept(u, "admin"): Becomes(v)
        /\ ticking' = TRUE /\ pc' = "collect"
        /\ UNCHANGED <<draining, stopping, position>>
  /\ UNCHANGED <<batch, stop>>

\* One turn of the loop over the table, of beginShutdown or of stopOperations.
SweepVisit ==
  /\ pc \in {"shutdown", "stop"} /\ position \in Slot
  /\ position' = position + 1
  /\ Becomes(IF \/ conn[position].fd = NoDescriptor
                \/ pc = "shutdown" /\ Finishes(Table, position)
             THEN Table ELSE forceClose(Table, position))
  /\ UNCHANGED <<ticking, batch, pc, stop, draining, stopping>>

\* The table is walked; the timer is armed, unless stopping.
SweepDone ==
  /\ pc \in {"shutdown", "stop"} /\ position \notin Slot
  /\ pc' = "collect" /\ position' = 0 /\ ticking' = (ticking \/ ~stopping)
  /\ UNCHANGED <<table, batch, stop, draining, stopping>>

Pending == accepting # {} \/ ticking \/ \E i \in Slot : conn[i].ops # {}

LoopExits ==
  /\ pc = "collect" /\ ~Pending
  /\ pc' = "exited"
  /\ UNCHANGED <<table, ticking, batch, position, stop, draining, stopping>>

\* Mutant: the rest of the batch is dropped without looking at it.
discardDrops(t, completions) == t

discardCompletions(t, completions) ==
  [t EXCEPT !.open =
     [fd \in Descriptor |-> @[fd] - Cardinality({e \in completions : e.fd = fd})]]

\* A handler fails, or the ring: what was copied is discarded, and quiesce
\* discards what was in the ring (a descriptor accepted there is closed in
\* the same step).
LoopFails ==
  /\ Faults /\ pc \notin {"exited", "freed"}
  /\ pc' = "exited" /\ batch' = {}
  /\ Becomes(discardCompletions(Table, batch))
  /\ UNCHANGED <<ticking, position, stop, draining, stopping>>

deinit ==
  /\ pc = "exited" /\ pc' = "freed"
  /\ open' = [fd \in Descriptor |->
       open[fd] - Cardinality({i \in Slot : conn[i].fd = fd}) - (IF waiting.fd = fd THEN 1 ELSE 0)]
  /\ waiting' = NotWaiting
  /\ conn' = [i \in Slot |-> [conn[i] EXCEPT !.fd = NoDescriptor]]
  /\ UNCHANGED <<free, active, idle, retry, accepting, ticking, batch, position,
                 stop, draining, stopping>>

\* The environment: the process is told to stop; the waiting descriptor's
\* deadline passes.
RequestStop ==
  /\ ~stop /\ pc \notin {"exited", "freed"} /\ stop' = TRUE
  /\ UNCHANGED <<table, ticking, batch, pc, position, draining, stopping>>

DeadlinePasses ==
  /\ waiting.fd # NoDescriptor /\ ~waiting.late
  /\ waiting' = [waiting EXCEPT !.late = TRUE]
  /\ UNCHANGED <<conn, free, active, idle, open, retry, accepting, ticking, batch, pc,
                 position, stop, draining, stopping>>

Freed == pc = "freed" /\ UNCHANGED vars

Init ==
  /\ conn = [i \in Slot |-> Vacant]
  /\ free = [public |-> [n \in 1 .. Public |-> n - 1], admin |-> [n \in 1 .. Admin |-> Public + n - 1]]
  /\ active = <<>> /\ idle = [first |-> None, last |-> None]
  /\ open = [fd \in Descriptor |-> 0]
  /\ waiting = NotWaiting /\ retry = {} /\ accepting = {}
  /\ ticking = FALSE /\ batch = {} /\ pc = "dispatch"
  /\ position = 0
  /\ stop = FALSE /\ draining = FALSE /\ stopping = FALSE

Loop == Dispatch \/ TickVisit \/ TickDone \/ Round \/ SweepVisit \/ SweepDone \/ LoopExits \/ deinit
Next == Loop \/ Copy \/ LoopFails \/ RequestStop \/ DeadlinePasses \/ Freed

Spec == Init /\ [][Next]_vars

(***************************************************************************)
(* Properties                                                              *)
(***************************************************************************)
\* The types of the variables.
TypeOK ==
  /\ Table \in Tables
  /\ pc \in {"collect", "dispatch", "tick", "shutdown", "stop", "exited", "freed"}
  /\ position \in Nat
  /\ ticking \in BOOLEAN /\ stop \in BOOLEAN /\ draining \in BOOLEAN /\ stopping \in BOOLEAN

\* The three lists of slots (freeSlot, active_slots, idle_first) stay exact
\* whatever order connections come, close and are reclaimed in: every slot is
\* open and at its active_position, or once on its own free list, never both;
\* and the idle list, followed in either direction, holds just the connections
\* marked idle_queued, which are public, between requests, and reading.
SlotsExact ==
  pc # "freed" =>
    /\ ActiveExact(Table) /\ FreeExact(Table) /\ IdleExact(Table)
    /\ \A i \in Slot : conn[i].idle_queued =>
         /\ conn[i].fd # NoDescriptor /\ ~IsAdmin(i) /\ conn[i].phase = "reading"
         /\ ~conn[i].started /\ "receive" \in conn[i].ops

\* Every descriptor that accept returned has exactly one owner (a completion
\* not yet dispatched, a slot, or waiting_accept) until it is closed, and is
\* closed once, so that none leaks and none is closed after the kernel gave
\* its number to another connection: also when it is refused, when the
\* waiting one times out or shutdown overtakes it, and when the loop fails
\* with accepted descriptors in the rest of the batch. While one waits, no
\* public accept is in the ring that would overwrite the peer address it will
\* be logged with.
DescriptorsOwned ==
  /\ \A fd \in Descriptor :
       open[fd] = Cardinality({i \in Slot : conn[i].fd = fd})
             + Cardinality({e \in batch : e.fd = fd}) + (IF waiting.fd = fd THEN 1 ELSE 0)
  /\ pc = "freed" => \A fd \in Descriptor : open[fd] = 0
  /\ waiting.fd # NoDescriptor => "public" \notin accepting

\* The connection reclaimed for a waiting descriptor is idle and no bytes of
\* a next request of its have been copied from the ring: queueAccept decides
\* only after the whole batch has been dispatched.
ReclaimProtects ==
  [][ waiting'.reclaimed /\ ~waiting.reclaimed =>
        \A i \in {j \in Slot : conn[j].phase # "canceling" /\ conn'[j].phase = "canceling"} :
          /\ i = idle.first /\ conn[i].served /\ ~conn[i].started
          /\ \A e \in batch : ~(e.slot = i /\ e.kind = "receive" /\ e.result = "data") ]_vars

\* Whenever the loop waits for completions, a descriptor waits only because
\* every public slot is taken: no slot that was freed, by the reclaimed
\* connection or by any other, is left unused until the deadline closes it.
WaitingServed ==
  pc = "collect" /\ waiting.fd # NoDescriptor => free.public = <<>> /\ ~draining
=============================================================================

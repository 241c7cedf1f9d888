----------------------------- MODULE SlotTable -----------------------------
(***************************************************************************)
(* The slot table of one event loop (server/worker.zig) and what the       *)
(* handlers of completions do to it: free lists, the array of active slots *)
(* and its removal by swapping, the list of idle keepalive connections,    *)
(* the accepted descriptor that waits for an idle connection to be         *)
(* reclaimed, and the listeners. A handler changes the table several times *)
(* in one step: it is an operator on a record, or gives the set of tables  *)
(* it may leave.                                                           *)
(*                                                                         *)
(* What a connection does with its requests is the subject of Connections  *)
(* and is reduced here to the calls it makes on the table: it reads,       *)
(* writes, drains or is being canceled, with a receive and a send in the   *)
(* ring; the cancellation of either is part of its operation. Clock        *)
(* readings are nondeterministic, except that the deadline of the waiting  *)
(* descriptor stays passed.                                                *)
(***************************************************************************)
EXTENDS Integers, Sequences

CONSTANTS
  Public,      \* max_connections
  Admin,       \* admin_connections
  Listening,   \* the listeners that are configured
  Budget,      \* completion_budget
  Descriptor,  \* descriptors the process may have open for connections
  NoDescriptor,
  Reclaim,     \* idle_reclaim_ms # 0
  Keepalive,   \* shutdown_keepalive_ms # 0
  Faults       \* accepts may fail, fatally or for a while

ASSUME SlotsAssumption ==
  /\ Public \in Nat \ {0} /\ Admin \in Nat
  /\ Listening \subseteq {"public", "redirect", "admin"}
  /\ Budget \in Nat \ {0} /\ NoDescriptor \notin Descriptor
  /\ {Reclaim, Keepalive, Faults} \subseteq BOOLEAN

Slot == 0 .. Public + Admin - 1
None == -1   \* a null index
Listener == {"public", "redirect", "admin"}
IsAdmin(i) == i >= Public

VARIABLES stop, draining   \* the loop is told to stop, and shuts down

Operation == {"receive", "send"}
Connection ==
  [fd: Descriptor \cup {NoDescriptor},
   phase: {"reading", "writing", "drain", "canceling"},
   started: BOOLEAN,          \* request_started
   served: BOOLEAN,           \* requests > 0
   ops: SUBSET Operation,     \* operations in the ring, which pending counts
   active_position: Nat,
   idle_queued: BOOLEAN,
   idle_next: Slot \cup {None},
   idle_previous: Slot \cup {None}]

Vacant ==
  [fd |-> NoDescriptor, phase |-> "canceling", started |-> FALSE, served |-> FALSE,
   ops |-> {}, active_position |-> 0, idle_queued |-> FALSE,
   idle_next |-> None, idle_previous |-> None]

Tables ==
  [conn: [Slot -> Connection], free: [public: Seq(Slot), admin: Seq(Slot)], active: Seq(Slot),
   idle: [first: Slot \cup {None}, last: Slot \cup {None}], open: [Descriptor -> Int],
   waiting: [fd: Descriptor \cup {NoDescriptor}, reclaimed: BOOLEAN, late: BOOLEAN],
   retry: SUBSET Listener, accepting: SUBSET Listener]

close(t, fd) == [t EXCEPT !.open[fd] = @ - 1]
List(i) == IF IsAdmin(i) THEN "admin" ELSE "public"

(***************************************************************************)
(* The idle list                                                           *)
(***************************************************************************)
queueIdle(t, i) ==
  LET c == t.conn[i]
      last == t.idle.last
      linked == [t EXCEPT !.conn[i] = [@ EXCEPT !.idle_previous = last, !.idle_next = None,
                                                !.idle_queued = TRUE],
                          !.idle.last = i]
  IN  IF ~Reclaim \/ IsAdmin(i) \/ c.idle_queued \/ c.phase # "reading" \/ c.started \/ ~c.served
      THEN t
      ELSE IF last = None THEN [linked EXCEPT !.idle.first = i]
      ELSE [linked EXCEPT !.conn[last].idle_next = i]

removeIdle(t, i) ==
  LET c == t.conn[i]
      before == IF c.idle_previous = None THEN [t EXCEPT !.idle.first = c.idle_next]
                ELSE [t EXCEPT !.conn[c.idle_previous].idle_next = c.idle_next]
      after == IF c.idle_next = None THEN [before EXCEPT !.idle.last = c.idle_previous]
               ELSE [before EXCEPT !.conn[c.idle_next].idle_previous = c.idle_previous]
  IN  IF ~c.idle_queued THEN t
      ELSE [after EXCEPT !.conn[i] = [@ EXCEPT !.idle_queued = FALSE, !.idle_next = None,
                                               !.idle_previous = None]]

(***************************************************************************)
(* Ring operations and closing                                             *)
(***************************************************************************)
queueReceive(t, i) ==
  IF "receive" \in t.conn[i].ops THEN t
  ELSE [queueIdle(t, i) EXCEPT !.conn[i].ops = @ \cup {"receive"}]

queueSend(t, i) ==
  LET c == t.conn[i]
  IN  [t EXCEPT !.conn[i] = [c EXCEPT !.phase = "writing", !.ops = c.ops \cup {"send"}]]

\* Mutant: the slot moved into the gap is not told its new position.
MovedForgets(t, moved, p) == t

Moved(t, moved, p) == [t EXCEPT !.conn[moved].active_position = p]

\* What a closed slot still holds is overwritten when it is taken again.
finishClose(t, i) ==
  LET c == t.conn[i]
      last == Len(t.active)
      moved == t.active[last]
      u == [close(t, c.fd) EXCEPT
              !.free[List(i)] = <<i>> \o @,
              !.active = SubSeq([@ EXCEPT ![c.active_position + 1] = moved], 1, last - 1)]
  IN  IF c.ops # {} \/ c.fd = NoDescriptor THEN t
      ELSE [Moved(u, moved, c.active_position) EXCEPT !.conn[i] = Vacant]

\* Once a connection drains or is canceled, started and served are not read.
Ends(t, i, phase) ==
  [t EXCEPT !.conn[i] = [@ EXCEPT !.phase = phase, !.started = FALSE, !.served = FALSE]]

forceClose(t, i) == finishClose(Ends(removeIdle(t, i), i, "canceling"), i)

drainConnection(t, i) == queueReceive(Ends(removeIdle(t, i), i, "drain"), i)

(***************************************************************************)
(* Requests: the tables a handler may leave                                *)
(***************************************************************************)
\* processInput found the beginning or more of a request. It waits for the
\* rest, answers, or gives the connection up.
Parse(t, i) ==
  LET begun == [removeIdle(t, i) EXCEPT !.conn[i].started = TRUE]
  IN  {queueReceive(begun, i), queueSend(begun, i), forceClose(begun, i)}
        \cup (IF draining /\ ~t.conn[i].started THEN {drainConnection(t, i)} ELSE {})

received(t, i, result) ==
  LET c == t.conn[i]
  IN  CASE c.phase = "reading" /\ result = "data" -> Parse(t, i)
        [] c.phase = "reading" /\ result # "data" ->
             {forceClose(t, i)} \cup (IF c.started /\ result = "eof" THEN {queueSend(t, i)} ELSE {})
        [] c.phase = "writing" -> IF result = "eof" THEN {forceClose(t, i)} ELSE {t}
        [] c.phase = "drain" ->
             CASE result = "data" -> {queueReceive(t, i), forceClose(t, i)}
               [] result = "eof" -> {forceClose(t, i)}
               [] result = "canceled" -> {queueReceive(t, i)}

\* The whole response is out: the connection drains, or reads on, with or
\* without input that is already there.
finishResponse(t, i) ==
  LET d == [t EXCEPT !.conn[i].served = TRUE]
      e == [d EXCEPT !.conn[i] = [@ EXCEPT !.phase = "reading", !.started = FALSE]]
  IN  {drainConnection(d, i)} \cup
      (IF draining THEN {} ELSE {queueReceive(e, i)} \cup Parse(e, i))

sent(t, i, result) ==
  CASE result = "all" -> finishResponse(t, i)
    [] result = "part" -> {queueSend(t, i)}
    [] result = "error" -> {forceClose(t, i)}

\* What tick does with a connection whose deadline has passed.
Expired(t, i) ==
  LET c == t.conn[i]
  IN  IF c.phase = "canceling" THEN {t}
      ELSE IF c.phase # "drain" /\ ~c.started /\ draining /\ ~IsAdmin(i) /\ c.served
           THEN {drainConnection(t, i)}
      ELSE IF c.phase = "reading" /\ c.started
           THEN {queueSend(t, i), forceClose(t, i)}
      ELSE {forceClose(t, i)}

(***************************************************************************)
(* Accepting                                                               *)
(***************************************************************************)
NotWaiting == [fd |-> NoDescriptor, reclaimed |-> FALSE, late |-> FALSE]

\* The slot leaves its free list and joins the active ones.
Open(t, fd, i) ==
  [t EXCEPT !.free[List(i)] = Tail(@),
            !.active = Append(@, i),
            !.conn[i] = [Vacant EXCEPT !.fd = fd, !.phase = "reading",
                                       !.active_position = Len(t.active)]]

freeSlot(t, l) == t.free[IF l = "admin" THEN "admin" ELSE "public"]

\* Setting the socket's options or taking its buffers may fail; the second
\* also delays the next accepts of the public listeners. A session that
\* cannot be created closes the connection it was for.
Refused(t, fd, l, i) ==
  {close(t, fd), [close(t, fd) EXCEPT !.retry = @ \cup {"public", "redirect"}]}
    \cup (IF l = "public" THEN {forceClose(Open(t, fd, i), i)} ELSE {})

\* Mutant: the idle connection is reclaimed as soon as the descriptor waits.
WaitReclaims(t, fd) ==
  LET w == [t EXCEPT !.waiting = [NotWaiting EXCEPT !.fd = fd]]
  IN  IF t.idle.first = None THEN w
      ELSE forceClose([w EXCEPT !.waiting.reclaimed = TRUE], t.idle.first)

Wait(t, fd) == [t EXCEPT !.waiting = [NotWaiting EXCEPT !.fd = fd]]

acceptConnection(t, fd, l) ==
  IF draining \/ stop THEN {close(t, fd)}
  ELSE IF freeSlot(t, l) # <<>>
       THEN LET i == Head(freeSlot(t, l))
            IN  {queueReceive(Open(t, fd, i), i)} \cup (IF Faults THEN Refused(t, fd, l, i) ELSE {})
  ELSE IF l = "public" /\ Reclaim /\ t.waiting.fd = NoDescriptor
       THEN {Wait(t, fd)}
  ELSE {close(t, fd)}

\* Mutant: a slot is taken only in the round that reclaims a connection.
AcceptWaitingOnce(t, old) ==
  LET reclaim == t.free.public = <<>> /\ ~t.waiting.reclaimed /\ t.idle.first # None /\ old
      u == IF reclaim THEN forceClose([t EXCEPT !.waiting.reclaimed = TRUE], t.idle.first) ELSE t
  IN  IF t.waiting.late THEN {[close(t, t.waiting.fd) EXCEPT !.waiting = NotWaiting]}
      ELSE IF reclaim /\ u.free.public # <<>>
           THEN acceptConnection([u EXCEPT !.waiting = NotWaiting], u.waiting.fd, "public")
      ELSE {u}

\* queueAccept(.public) with a descriptor waiting: once the deadline has
\* passed it is closed; before, one idle connection may be reclaimed for it,
\* and a free slot is taken. old: the oldest idle connection is old enough.
AcceptWaiting(t, old) ==
  LET reclaim == t.free.public = <<>> /\ ~t.waiting.reclaimed /\ t.idle.first # None /\ old
      u == IF reclaim THEN forceClose([t EXCEPT !.waiting.reclaimed = TRUE], t.idle.first) ELSE t
  IN  IF t.waiting.late THEN {[close(t, t.waiting.fd) EXCEPT !.waiting = NotWaiting]}
      ELSE IF u.free.public # <<>>
           THEN acceptConnection([u EXCEPT !.waiting = NotWaiting], u.waiting.fd, "public")
      ELSE {u}

\* elapsed: the listener's retry time, if it is set, has passed.
queueAccept(t, l) ==
  IF stop \/ l \notin Listening \/ l \in t.accepting \/ (l = "redirect" /\ t.waiting.fd # NoDescriptor)
  THEN {t}
  ELSE IF l = "public" /\ t.waiting.fd # NoDescriptor
  THEN UNION {AcceptWaiting(t, old) : old \in BOOLEAN}
  ELSE {IF /\ l \in t.retry => elapsed
           /\ freeSlot(t, l) # <<>> \/ (l = "public" /\ Reclaim /\ t.idle.first # None /\ old)
        THEN [t EXCEPT !.accepting = @ \cup {l}] ELSE t : old, elapsed \in BOOLEAN}

(***************************************************************************)
(* Shutting down                                                           *)
(***************************************************************************)
\* beginShutdown, up to its loop over the table.
beginShutdown(t) ==
  IF t.waiting.fd = NoDescriptor THEN t
  ELSE [close(t, t.waiting.fd) EXCEPT !.waiting = NotWaiting]

\* The connections that beginShutdown leaves to finish, or to serve one more
\* request.
Finishes(t, i) ==
  \/ t.conn[i].phase # "reading" \/ t.conn[i].started
  \/ ~IsAdmin(i) /\ t.conn[i].served /\ Keepalive

(***************************************************************************)
(* The lists of slots                                                      *)
(***************************************************************************)
\* The two arrays of slots: an open slot is in active_slots at its
\* active_position, and a closed one is once on its own free list.
ActiveExact(t) ==
  /\ \A i \in Slot : t.conn[i].fd # NoDescriptor =>
       t.conn[i].active_position < Len(t.active) /\ t.active[t.conn[i].active_position + 1] = i
  /\ \A n \in 1 .. Len(t.active) :
       t.conn[t.active[n]].fd # NoDescriptor /\ t.conn[t.active[n]].active_position = n - 1
FreeExact(t) ==
  \A l \in {"public", "admin"} :
    /\ \A n \in 1 .. Len(t.free[l]) :
         List(t.free[l][n]) = l /\ t.conn[t.free[l][n]].fd = NoDescriptor
    /\ \A m, n \in 1 .. Len(t.free[l]) : t.free[l][m] = t.free[l][n] => m = n
    /\ \A i \in Slot : List(i) = l /\ t.conn[i].fd = NoDescriptor =>
         \E n \in 1 .. Len(t.free[l]) : t.free[l][n] = i

\* The idle list is q, followed in either direction.
Linked(t, q, n) ==
  /\ \A k, m \in 1 .. n : q[k] = q[m] => k = m
  /\ \A i \in Slot : t.conn[i].idle_queued <=> \E k \in 1 .. n : q[k] = i
  /\ t.idle.first = IF n = 0 THEN None ELSE q[1]
  /\ t.idle.last = IF n = 0 THEN None ELSE q[n]
  /\ \A k \in 1 .. n :
       /\ t.conn[q[k]].idle_next = IF k = n THEN None ELSE q[k + 1]
       /\ t.conn[q[k]].idle_previous = IF k = 1 THEN None ELSE q[k - 1]
IdleExact(t) == \E n \in 0 .. Public + Admin : \E q \in [1 .. n -> Slot] : Linked(t, q, n)
=============================================================================

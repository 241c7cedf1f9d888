-------------------------- MODULE SlotTableProofs ---------------------------
(***************************************************************************)
(* The invariant of an event loop's slot table (SlotTable), for any number *)
(* of public and admin slots and any descriptors, and what its operations  *)
(* do to it: the operations and the handlers of one connection, accepting, *)
(* reclaiming an idle connection, beginning to shut down.                  *)
(***************************************************************************)
EXTENDS SlotTable, TLAPS

(***************************************************************************)
(* The invariant of the table                                              *)
(***************************************************************************)
\* What one slot says of itself.
Settled(c, i) ==
  /\ c.ops # {} => c.fd # NoDescriptor
  /\ c.idle_queued => /\ c.fd # NoDescriptor /\ ~IsAdmin(i) /\ c.phase = "reading"
                      /\ ~c.started /\ c.served
  /\ "send" \in c.ops => c.phase \in {"writing", "canceling"}
  /\ c.phase = "writing" => c.started

\* Each descriptor has at most one owner, and is open if it has one. X are
\* the descriptors that completions, or the handler, own.
Owned(t, X) ==
  /\ \A i, j \in Slot : t.conn[i].fd = t.conn[j].fd => i = j \/ t.conn[i].fd = NoDescriptor
  /\ \A i \in Slot : t.conn[i].fd # NoDescriptor => t.conn[i].fd \notin X /\ t.conn[i].fd # t.waiting.fd
  /\ t.waiting.fd \notin X
  /\ \A fd \in Descriptor :
       t.open[fd] = IF \/ fd \in X \/ t.waiting.fd = fd
                       \/ \E i \in Slot : t.conn[i].fd = fd
                    THEN 1 ELSE 0

\* The idle slots form one list. IdleExact also bounds its length, which
\* follows (ListBound).
IdleChain(t) == \E n \in Nat : \E q \in [1 .. n -> Slot] : Linked(t, q, n)

TableInv(t, X) ==
  /\ t \in Tables /\ ActiveExact(t) /\ FreeExact(t) /\ IdleChain(t)
  /\ \A i \in Slot : Settled(t.conn[i], i)
  /\ Owned(t, X)

\* An idle connection has its receive in the ring.
Receives(t) == \A i \in Slot : t.conn[i].idle_queued => "receive" \in t.conn[i].ops

\* Slots are numbers, and null is none of them.
LEMMA SlotFacts == Slot \subseteq Nat /\ None \notin Slot
BY SlotsAssumption DEF Slot, None

(***************************************************************************)
(* Free lists                                                              *)
(***************************************************************************)
\* q holds the closed slots of the list l, once each.
FreeList(t, l, q) ==
  /\ \A n \in 1 .. Len(q) : q[n] \in Slot /\ List(q[n]) = l /\ t.conn[q[n]].fd = NoDescriptor
  /\ \A m, n \in 1 .. Len(q) : q[m] = q[n] => m = n
  /\ \A j \in Slot : List(j) = l /\ t.conn[j].fd = NoDescriptor => \E n \in 1 .. Len(q) : q[n] = j

\* FreeExact, one list at a time.
LEMMA FreeLists ==
  ASSUME NEW t \in Tables
  PROVE  FreeExact(t) <=> \A l \in {"public", "admin"} : FreeList(t, l, t.free[l])
<1>1. \A l \in {"public", "admin"} : t.free[l] \in Seq(Slot)
  BY DEF Tables
<1>2. \A l \in {"public", "admin"} : \A n \in 1 .. Len(t.free[l]) : t.free[l][n] \in Slot
  BY <1>1
<1> QED
  BY <1>2, Zenon DEF FreeExact, FreeList

\* A list is not affected by slots of the other one.
LEMMA FreeOther ==
  ASSUME NEW t, NEW u, NEW l, NEW q, FreeList(t, l, q),
         \A j \in Slot : List(j) = l => u.conn[j].fd = t.conn[j].fd
  PROVE  FreeList(u, l, q)
BY DEF FreeList

\* A slot that is closed goes to the front of its list.
LEMMA FreePush ==
  ASSUME NEW t, NEW u, NEW l, NEW q \in Seq(Slot), NEW i \in Slot, FreeList(t, l, q), List(i) = l,
         t.conn[i].fd # NoDescriptor, u.conn[i].fd = NoDescriptor,
         \A j \in Slot \ {i} : u.conn[j].fd = t.conn[j].fd
  PROVE  FreeList(u, l, <<i>> \o q)
<1> DEFINE w == <<i>> \o q
<1>1. /\ Len(w) = Len(q) + 1 /\ Len(q) \in Nat /\ w[1] = i
      /\ \A n \in 1 .. Len(q) : w[n + 1] = q[n]
  OBVIOUS
<1> HIDE DEF w
<1>2. /\ \A n \in 1 .. Len(q) : q[n] \in Slot \ {i} /\ List(q[n]) = l /\ t.conn[q[n]].fd = NoDescriptor
      /\ \A m, n \in 1 .. Len(q) : q[m] = q[n] => m = n
      /\ \A j \in Slot : List(j) = l /\ t.conn[j].fd = NoDescriptor => \E n \in 1 .. Len(q) : q[n] = j
  BY DEF FreeList
<1>3. \A n \in 1 .. Len(w) : n = 1 \/ (n - 1 \in 1 .. Len(q) /\ w[n] = q[n - 1])
  <2> TAKE n \in 1 .. Len(w)
  <2>1. n # 1 => n - 1 \in 1 .. Len(q) /\ (n - 1) + 1 = n
    BY <1>1
  <2> QED
    BY <2>1, <1>1
<1>4. \A n \in 1 .. Len(w) : w[n] \in Slot /\ List(w[n]) = l /\ u.conn[w[n]].fd = NoDescriptor
  <2> TAKE n \in 1 .. Len(w)
  <2>1. CASE n = 1
    BY <2>1, <1>1
  <2>2. CASE n # 1
    <3>1. n - 1 \in 1 .. Len(q) /\ w[n] = q[n - 1]
      BY <2>2, <1>3
    <3>2. w[n] \in Slot \ {i} /\ List(w[n]) = l
      BY <3>1, <1>2
    <3> QED
      BY <3>1, <3>2, <1>2
  <2> QED
    BY <2>1, <2>2
<1>5. ASSUME NEW m \in 1 .. Len(w), NEW n \in 1 .. Len(w), w[m] = w[n] PROVE m = n
  <2>1. m = 1 \/ (m - 1 \in 1 .. Len(q) /\ w[m] = q[m - 1] /\ q[m - 1] # i)
    BY <1>2, <1>3
  <2>2. n = 1 \/ (n - 1 \in 1 .. Len(q) /\ w[n] = q[n - 1] /\ q[n - 1] # i)
    BY <1>2, <1>3
  <2>3. m # 1 /\ n # 1 => m - 1 = n - 1
    BY <1>5, <2>1, <2>2, <1>2
  <2> QED
    BY <1>1, <1>5, <2>1, <2>2, <2>3
<1>6. ASSUME NEW j \in Slot, List(j) = l, u.conn[j].fd = NoDescriptor
      PROVE  \E n \in 1 .. Len(w) : w[n] = j
  <2>1. CASE j = i
    BY <2>1, <1>1
  <2>2. CASE j # i
    <3>1. PICK n \in 1 .. Len(q) : q[n] = j
      BY <2>2, <1>2, <1>6
    <3>2. n + 1 \in 1 .. Len(w) /\ w[n + 1] = j
      BY <3>1, <1>1
    <3> QED
      BY <3>2
  <2> QED
    BY <2>1, <2>2
<1>7. FreeList(u, l, w)
  BY <1>4, <1>5, <1>6, Zenon DEF FreeList
<1> QED
  BY <1>7 DEF w

\* The first slot of a list is taken.
LEMMA FreePop ==
  ASSUME NEW t, NEW u, NEW l, NEW q \in Seq(Slot), q # <<>>, FreeList(t, l, q),
         u.conn[Head(q)].fd # NoDescriptor, \A j \in Slot \ {Head(q)} : u.conn[j].fd = t.conn[j].fd
  PROVE  FreeList(u, l, Tail(q))
<1> DEFINE w == Tail(q)
           i == Head(q)
<1>1. /\ Len(w) = Len(q) - 1 /\ Len(q) \in Nat \ {0} /\ i = q[1]
      /\ \A n \in 1 .. Len(w) : w[n] = q[n + 1]
  OBVIOUS
<1>2. u.conn[i].fd # NoDescriptor /\ \A j \in Slot \ {i} : u.conn[j].fd = t.conn[j].fd
  OBVIOUS
<1>3. /\ \A n \in 1 .. Len(q) : q[n] \in Slot /\ List(q[n]) = l /\ t.conn[q[n]].fd = NoDescriptor
      /\ \A m, n \in 1 .. Len(q) : q[m] = q[n] => m = n
      /\ \A j \in Slot : List(j) = l /\ t.conn[j].fd = NoDescriptor => \E n \in 1 .. Len(q) : q[n] = j
  BY Zenon DEF FreeList
<1> HIDE DEF w, i
<1>4. \A n \in 1 .. Len(w) : n + 1 \in 1 .. Len(q) /\ w[n] = q[n + 1] /\ q[n + 1] # i
  <2> TAKE n \in 1 .. Len(w)
  <2>1. n + 1 \in 1 .. Len(q) /\ n + 1 # 1 /\ 1 \in 1 .. Len(q)
    BY <1>1
  <2> QED
    BY <2>1, <1>1, <1>3
<1>5. \A n \in 1 .. Len(w) : w[n] \in Slot /\ List(w[n]) = l /\ u.conn[w[n]].fd = NoDescriptor
  <2> TAKE n \in 1 .. Len(w)
  <2>1. w[n] \in Slot \ {i} /\ List(w[n]) = l /\ t.conn[w[n]].fd = NoDescriptor
    BY <1>3, <1>4
  <2> QED
    BY <2>1, <1>2
<1>6. ASSUME NEW m \in 1 .. Len(w), NEW n \in 1 .. Len(w), w[m] = w[n] PROVE m = n
  <2>1. m + 1 = n + 1
    BY <1>3, <1>4, <1>6
  <2> QED
    BY <2>1
<1>7. ASSUME NEW j \in Slot, List(j) = l, u.conn[j].fd = NoDescriptor
      PROVE  \E n \in 1 .. Len(w) : w[n] = j
  <2>1. j # i
    BY <1>2, <1>7
  <2>2. PICK n \in 1 .. Len(q) : q[n] = j
    BY <2>1, <1>2, <1>3, <1>7
  <2>3. n - 1 \in 1 .. Len(w) /\ (n - 1) + 1 = n
    BY <2>1, <2>2, <1>1
  <2> QED
    BY <2>2, <2>3, <1>4, Zenon
<1>8. FreeList(u, l, w)
  BY <1>5, <1>6, <1>7, Zenon DEF FreeList
<1> QED
  BY <1>8 DEF w

\* The idle list of a table whose idle connections keep their links.
LEMMA ChainKept ==
  ASSUME NEW t, NEW u, IdleChain(t), u.idle = t.idle,
         \A j \in Slot : u.conn[j].idle_queued <=> t.conn[j].idle_queued,
         \A j \in Slot : t.conn[j].idle_queued =>
           u.conn[j].idle_next = t.conn[j].idle_next /\ u.conn[j].idle_previous = t.conn[j].idle_previous
  PROVE  IdleChain(u)
<1>1. PICK n \in Nat : \E q \in [1 .. n -> Slot] : Linked(t, q, n)
  BY DEF IdleChain
<1>2. PICK q \in [1 .. n -> Slot] : Linked(t, q, n)
  BY <1>1
<1>3. /\ \A k, m \in 1 .. n : q[k] = q[m] => k = m
      /\ \A i \in Slot : t.conn[i].idle_queued <=> \E k \in 1 .. n : q[k] = i
      /\ t.idle.first = IF n = 0 THEN None ELSE q[1]
      /\ t.idle.last = IF n = 0 THEN None ELSE q[n]
      /\ \A k \in 1 .. n :
           /\ t.conn[q[k]].idle_next = IF k = n THEN None ELSE q[k + 1]
           /\ t.conn[q[k]].idle_previous = IF k = 1 THEN None ELSE q[k - 1]
  BY <1>2, Zenon DEF Linked
<1>4. \A k \in 1 .. n : /\ u.conn[q[k]].idle_next = t.conn[q[k]].idle_next
                        /\ u.conn[q[k]].idle_previous = t.conn[q[k]].idle_previous
  BY <1>3
<1>5. \A i \in Slot : u.conn[i].idle_queued <=> \E k \in 1 .. n : q[k] = i
  BY <1>3, Zenon
<1>6. u.idle.first = t.idle.first /\ u.idle.last = t.idle.last
  OBVIOUS
<1>7. \A k \in 1 .. n :
        /\ u.conn[q[k]].idle_next = IF k = n THEN None ELSE q[k + 1]
        /\ u.conn[q[k]].idle_previous = IF k = 1 THEN None ELSE q[k - 1]
  BY <1>3, <1>4
<1>8. Linked(u, q, n)
  BY <1>3, <1>5, <1>6, <1>7 DEF Linked
<1> QED
  BY <1>8 DEF IdleChain

(***************************************************************************)
(* The idle list                                                           *)
(***************************************************************************)
\* The fields that queueIdle and removeIdle do not touch.
SameConnection(c, d) ==
  /\ c.fd = d.fd /\ c.phase = d.phase /\ c.started = d.started /\ c.served = d.served
  /\ c.ops = d.ops /\ c.active_position = d.active_position
SameTable(t, u) ==
  /\ u.free = t.free /\ u.active = t.active /\ u.open = t.open
  /\ u.waiting = t.waiting /\ u.retry = t.retry /\ u.accepting = t.accepting

\* Assignments to one connection, and to the ends of the idle list.
WithConn(t, i, d) == [t EXCEPT !.conn[i] = d]
WithIdle(t, x) == [t EXCEPT !.idle = x]

\* Assigning a connection changes that connection of the table and nothing else.
LEMMA WithConnFields ==
  ASSUME NEW t \in Tables, NEW i \in Slot, NEW d \in Connection
  PROVE  LET u == WithConn(t, i, d)
         IN  /\ u \in Tables /\ SameTable(t, u) /\ u.idle = t.idle
             /\ \A j \in Slot : u.conn[j] = IF j = i THEN d ELSE t.conn[j]
BY Zenon DEF Tables, WithConn, SameTable

\* Assigning the ends of the idle list changes nothing else of the table.
LEMMA WithIdleFields ==
  ASSUME NEW t \in Tables, NEW x \in [first: Slot \cup {None}, last: Slot \cup {None}]
  PROVE  LET u == WithIdle(t, x)
         IN  u \in Tables /\ SameTable(t, u) /\ u.idle = x /\ u.conn = t.conn
BY Zenon DEF Tables, WithIdle, SameTable

\* The connections of a table are connections.
LEMMA ConnTyped ==
  ASSUME NEW t \in Tables, NEW i \in Slot
  PROVE  t.conn[i] \in Connection
BY DEF Tables

\* Only the links of a connection change, to next and previous.
Assigns(c, d, next, previous) ==
  /\ d \in Connection /\ SameConnection(c, d) /\ d.idle_queued = c.idle_queued
  /\ d.idle_next = next /\ d.idle_previous = previous

\* Assigning one link of a connection leaves the other link and the rest of it.
LEMMA LinkFields ==
  ASSUME NEW c \in Connection, NEW k \in Slot \cup {None}
  PROVE  /\ Assigns(c, [c EXCEPT !.idle_next = k], k, c.idle_previous)
         /\ Assigns(c, [c EXCEPT !.idle_previous = k], c.idle_next, k)
BY Zenon DEF Assigns, Connection, SameConnection

\* The connection of i leaves the idle list, and its neighbours are linked.
Unlinks(t, i, u) ==
  LET p == t.conn[i].idle_previous
      n == t.conn[i].idle_next
  IN  /\ u \in Tables /\ SameTable(t, u)
      /\ \A j \in Slot : SameConnection(t.conn[j], u.conn[j])
      /\ ~u.conn[i].idle_queued
      /\ \A j \in Slot \ {i} :
           /\ u.conn[j].idle_queued = t.conn[j].idle_queued
           /\ u.conn[j].idle_next = IF j = p THEN n ELSE t.conn[j].idle_next
           /\ u.conn[j].idle_previous = IF j = n THEN p ELSE t.conn[j].idle_previous
      /\ u.idle.first = IF p = None THEN n ELSE t.idle.first
      /\ u.idle.last = IF n = None THEN p ELSE t.idle.last

\* What removeIdle assigns, when the neighbours of i are not i.
LEMMA RemoveIdleFields ==
  ASSUME NEW t \in Tables, NEW i \in Slot, t.conn[i].idle_queued,
         t.conn[i].idle_previous # i, t.conn[i].idle_next # i
  PROVE  Unlinks(t, i, removeIdle(t, i))
<1> DEFINE p == t.conn[i].idle_previous
           n == t.conn[i].idle_next
           before == IF p = None THEN [t EXCEPT !.idle.first = n]
                     ELSE [t EXCEPT !.conn[p].idle_next = n]
           after == IF n = None THEN [before EXCEPT !.idle.last = p]
                    ELSE [before EXCEPT !.conn[n].idle_previous = p]
           u == [after EXCEPT !.conn[i] = [@ EXCEPT !.idle_queued = FALSE, !.idle_next = None,
                                                    !.idle_previous = None]]
<1>1. removeIdle(t, i) = u
  BY DEF removeIdle
<1>2. p \in Slot \cup {None} /\ n \in Slot \cup {None} /\ p # i /\ n # i
  BY DEF Tables, Connection
<1>3. /\ before \in Tables /\ SameTable(t, before)
      /\ \A j \in Slot :
           /\ SameConnection(t.conn[j], before.conn[j])
           /\ before.conn[j].idle_queued = t.conn[j].idle_queued
           /\ before.conn[j].idle_next = IF j = p THEN n ELSE t.conn[j].idle_next
           /\ before.conn[j].idle_previous = t.conn[j].idle_previous
      /\ before.idle.first = IF p = None THEN n ELSE t.idle.first
      /\ before.idle.last = t.idle.last
  <2>1. CASE p = None
    <3> DEFINE x == [t.idle EXCEPT !.first = n]
    <3>1. x \in [first: Slot \cup {None}, last: Slot \cup {None}] /\ x.first = n /\ x.last = t.idle.last
      BY <1>2, Zenon DEF Tables
    <3>2. before = WithIdle(t, x)
      BY <2>1, Zenon DEF WithIdle
    <3> HIDE DEF x, before
    <3> QED
      BY <1>2, <2>1, <3>1, <3>2, WithIdleFields, SlotFacts DEF SameConnection
  <2>2. CASE p \in Slot
    <3> DEFINE d == [t.conn[p] EXCEPT !.idle_next = n]
    <3>1. /\ d \in Connection /\ SameConnection(t.conn[p], d) /\ d.idle_queued = t.conn[p].idle_queued
          /\ d.idle_next = n /\ d.idle_previous = t.conn[p].idle_previous
      <4> HIDE DEF p, n
      <4>1. t.conn[p] \in Connection
        BY <2>2, ConnTyped
      <4> QED
        BY <1>2, <4>1, LinkFields, Zenon DEF Assigns
    <3>2. before = WithConn(t, p, d)
      BY <2>2, SlotFacts DEF WithConn
    <3> HIDE DEF d, before, p, n
    <3>3. /\ before \in Tables /\ SameTable(t, before) /\ before.idle = t.idle
          /\ \A j \in Slot : before.conn[j] = IF j = p THEN d ELSE t.conn[j]
      BY <2>2, <3>1, <3>2, WithConnFields
    <3>4. p # None
      BY <2>2, SlotFacts
    <3> QED
      BY <2>2, <3>1, <3>3, <3>4 DEF SameConnection
  <2> QED
    BY <1>2, <2>1, <2>2, Zenon
<1> HIDE DEF before
<1>4. /\ after \in Tables /\ SameTable(before, after)
      /\ \A j \in Slot :
           /\ SameConnection(before.conn[j], after.conn[j])
           /\ after.conn[j].idle_queued = before.conn[j].idle_queued
           /\ after.conn[j].idle_next = before.conn[j].idle_next
           /\ after.conn[j].idle_previous = IF j = n THEN p ELSE before.conn[j].idle_previous
      /\ after.idle.first = before.idle.first
      /\ after.idle.last = IF n = None THEN p ELSE before.idle.last
  <2>1. CASE n = None
    <3> DEFINE x == [before.idle EXCEPT !.last = p]
    <3>1. x \in [first: Slot \cup {None}, last: Slot \cup {None}] /\ x.last = p /\ x.first = before.idle.first
      BY <1>2, <1>3, Zenon DEF Tables
    <3>2. after = WithIdle(before, x)
      BY <2>1 DEF WithIdle
    <3> HIDE DEF x, after
    <3> QED
      BY <1>2, <1>3, <2>1, <3>1, <3>2, WithIdleFields, SlotFacts DEF SameConnection
  <2>2. CASE n \in Slot
    <3> DEFINE d == [before.conn[n] EXCEPT !.idle_previous = p]
    <3>1. /\ d \in Connection /\ SameConnection(before.conn[n], d) /\ d.idle_queued = before.conn[n].idle_queued
          /\ d.idle_next = before.conn[n].idle_next /\ d.idle_previous = p
      <4> HIDE DEF p, n
      <4>1. before.conn[n] \in Connection
        BY <1>3, <2>2, ConnTyped
      <4> QED
        BY <1>2, <4>1, LinkFields, Zenon DEF Assigns
    <3>2. after = WithConn(before, n, d)
      BY <2>2, SlotFacts DEF WithConn
    <3> HIDE DEF d, after, p, n
    <3>3. /\ after \in Tables /\ SameTable(before, after) /\ after.idle = before.idle
          /\ \A j \in Slot : after.conn[j] = IF j = n THEN d ELSE before.conn[j]
      BY <1>3, <2>2, <3>1, <3>2, WithConnFields
    <3>4. n # None
      BY <2>2, SlotFacts
    <3> QED
      BY <2>2, <3>1, <3>3, <3>4 DEF SameConnection
  <2> QED
    BY <1>2, <2>1, <2>2, Zenon
<1> HIDE DEF after
<1>5. /\ u \in Tables /\ SameTable(after, u) /\ u.idle = after.idle
      /\ \A j \in Slot : SameConnection(after.conn[j], u.conn[j])
      /\ ~u.conn[i].idle_queued
      /\ \A j \in Slot \ {i} : u.conn[j] = after.conn[j]
  <2> DEFINE d == [after.conn[i] EXCEPT !.idle_queued = FALSE, !.idle_next = None, !.idle_previous = None]
  <2>0. after.conn[i] \in Connection
    BY <1>4, ConnTyped, Zenon
  <2>1. d \in Connection /\ SameConnection(after.conn[i], d) /\ ~d.idle_queued
    BY <2>0, Zenon DEF Connection, SameConnection
  <2>2. u = WithConn(after, i, d)
    BY DEF WithConn
  <2> HIDE DEF d, u
  <2> QED
    BY <1>4, <2>1, <2>2, WithConnFields DEF SameConnection
<1> HIDE DEF u, p, n
<1> QED
  BY <1>1, <1>3, <1>4, <1>5 DEF Unlinks, SameTable, SameConnection, p, n

\* The rest of the invariant does not depend on the links.
LEMMA SameParts ==
  ASSUME NEW t \in Tables, NEW u \in Tables, NEW X, SameTable(t, u),
         \A j \in Slot : /\ u.conn[j].fd = t.conn[j].fd
                         /\ u.conn[j].active_position = t.conn[j].active_position
  PROVE  /\ ActiveExact(t) => ActiveExact(u)
         /\ FreeExact(t) => FreeExact(u)
         /\ Owned(t, X) => Owned(u, X)
<1>1. ASSUME ActiveExact(t) PROVE ActiveExact(u)
  <2>1. \A n \in 1 .. Len(t.active) : t.active[n] \in Slot
    BY DEF Tables
  <2> QED
    <3>1. u.active = t.active
      BY DEF SameTable
    <3> QED
      BY <1>1, <2>1, <3>1, Zenon DEF ActiveExact
<1>2. ASSUME FreeExact(t) PROVE FreeExact(u)
  <2>1. u.free = t.free
    BY DEF SameTable
  <2>2. ASSUME NEW l \in {"public", "admin"} PROVE FreeList(u, l, u.free[l])
    <3>1. FreeList(t, l, t.free[l])
      BY <1>2, FreeLists
    <3> QED
      BY <2>1, <3>1, FreeOther
  <2> QED
    BY <2>2, FreeLists
<1>3. ASSUME Owned(t, X) PROVE Owned(u, X)
  BY <1>3 DEF Owned, SameTable
<1> QED
  BY <1>1, <1>2, <1>3

\* The effect of removeIdle: its connection is off the list, and nothing else
\* changes.
LEMMA RemoveIdleInv ==
  ASSUME NEW t, NEW X, NEW i \in Slot, TableInv(t, X)
  PROVE  LET u == removeIdle(t, i)
         IN  /\ TableInv(u, X) /\ SameTable(t, u)
             /\ \A j \in Slot : SameConnection(t.conn[j], u.conn[j])
             /\ \A j \in Slot \ {i} : u.conn[j].idle_queued = t.conn[j].idle_queued
             /\ ~u.conn[i].idle_queued
<1> DEFINE u == removeIdle(t, i)
<1>0. t \in Tables /\ IdleChain(t)
  BY DEF TableInv
<1>1. CASE ~t.conn[i].idle_queued
  BY <1>1, Zenon DEF removeIdle, SameTable, SameConnection
<1>2. CASE t.conn[i].idle_queued
  <2>0. PICK n \in Nat : \E q \in [1 .. n -> Slot] : Linked(t, q, n)
    BY <1>0 DEF IdleChain
  <2>1. PICK q \in [1 .. n -> Slot] : Linked(t, q, n)
    BY <2>0
  <2>2. PICK k \in 1 .. n : q[k] = i
    BY <1>2, <2>1 DEF Linked
  <2>3. n \in Nat /\ n > 0
    BY <2>1, <2>2, SlotsAssumption
  <2>4. /\ t.conn[i].idle_previous = IF k = 1 THEN None ELSE q[k - 1]
        /\ t.conn[i].idle_next = IF k = n THEN None ELSE q[k + 1]
    BY <2>1, <2>2, Zenon DEF Linked
  <2>5. t.conn[i].idle_previous # i /\ t.conn[i].idle_next # i
    BY <2>1, <2>2, <2>3, <2>4, SlotFacts DEF Linked
  <2>6. /\ u \in Tables /\ SameTable(t, u)
        /\ \A j \in Slot : SameConnection(t.conn[j], u.conn[j])
        /\ ~u.conn[i].idle_queued
        /\ \A j \in Slot \ {i} :
             /\ u.conn[j].idle_queued = t.conn[j].idle_queued
             /\ u.conn[j].idle_next = IF j = t.conn[i].idle_previous THEN t.conn[i].idle_next
                                      ELSE t.conn[j].idle_next
             /\ u.conn[j].idle_previous = IF j = t.conn[i].idle_next THEN t.conn[i].idle_previous
                                          ELSE t.conn[j].idle_previous
        /\ u.idle.first = IF t.conn[i].idle_previous = None THEN t.conn[i].idle_next ELSE t.idle.first
        /\ u.idle.last = IF t.conn[i].idle_next = None THEN t.conn[i].idle_previous ELSE t.idle.last
    BY <1>0, <1>2, <2>5, RemoveIdleFields, Zenon DEF Unlinks
  <2> HIDE DEF u
  <2> DEFINE m == n - 1
             r == [x \in 1 .. m |-> IF x < k THEN q[x] ELSE q[x + 1]]
  <2>7. m \in Nat /\ r \in [1 .. m -> Slot]
    <3>1. m \in Nat
      BY <2>0, <2>3, SlotsAssumption
    <3>2. \A x \in 1 .. m : x \in 1 .. n /\ x + 1 \in 1 .. n
      BY <2>3
    <3> QED
      BY <3>1, <3>2
  <2>8. Linked(u, r, m)
    <3>1. \A x, y \in 1 .. m : r[x] = r[y] => x = y
      BY <2>1, <2>2, <2>3 DEF Linked
    <3>2. \A j \in Slot : u.conn[j].idle_queued <=> \E x \in 1 .. m : r[x] = j
      <4>1. \A x \in 1 .. m : r[x] # i
        BY <2>1, <2>2, <2>3 DEF Linked
      <4>2. ASSUME NEW j \in Slot \ {i}
            PROVE  (\E x \in 1 .. n : q[x] = j) <=> (\E x \in 1 .. m : r[x] = j)
        <5>1. ASSUME NEW x \in 1 .. n, q[x] = j PROVE \E y \in 1 .. m : r[y] = j
          <6>1. CASE x < k
            BY <6>1, <5>1, <2>2, <2>3
          <6>2. CASE x > k
            <7>1. x - 1 \in 1 .. m /\ ~(x - 1 < k) /\ (x - 1) + 1 = x
              BY <6>2, <5>1, <2>2, <2>3
            <7>2. r[x - 1] = j
              BY <7>1, <5>1
            <7> QED BY <7>1, <7>2
          <6> QED
            BY <6>1, <6>2, <5>1, <2>2
        <5>2. ASSUME NEW x \in 1 .. m, r[x] = j PROVE \E y \in 1 .. n : q[y] = j
          BY <5>2, <2>2, <2>3
        <5> QED
          BY <5>1, <5>2, Zenon
      <4>3. \A j \in Slot \ {i} : u.conn[j].idle_queued <=> \E x \in 1 .. m : r[x] = j
        BY <4>2, <2>1, <2>6, Zenon DEF Linked
      <4>4. ~u.conn[i].idle_queued
        BY <2>6, Zenon
      <4> HIDE DEF m, r
      <4> QED
        BY <4>1, <4>3, <4>4, Zenon
    <3>3. u.idle.first = IF m = 0 THEN None ELSE r[1]
      BY <2>1, <2>2, <2>3, <2>4, <2>6, SlotFacts DEF Linked
    <3>4. u.idle.last = IF m = 0 THEN None ELSE r[m]
      BY <2>1, <2>2, <2>3, <2>4, <2>6, SlotFacts DEF Linked
    <3>a. /\ \A x \in 1 .. m : r[x] \in Slot \ {i}
          /\ \A x \in 1 .. n : q[x] \in Slot
          /\ \A x \in 1 .. n : q[x] = i => x = k
          /\ \A x, y \in 1 .. n : q[x] = q[y] => x = y
      <4>1. /\ \A x \in 1 .. n : q[x] \in Slot
            /\ \A x \in 1 .. n : q[x] = i => x = k
            /\ \A x, y \in 1 .. n : q[x] = q[y] => x = y
        BY <2>1, <2>2 DEF Linked
      <4>2. ASSUME NEW x \in 1 .. m PROVE r[x] \in Slot \ {i}
        <5>1. x \in 1 .. n /\ x + 1 \in 1 .. n
          BY <2>3
        <5> QED
          BY <4>1, <5>1, <2>2
      <4> QED
        BY <4>1, <4>2
    <3>b. ASSUME NEW x \in 1 .. n
          PROVE  /\ t.conn[q[x]].idle_next = IF x = n THEN None ELSE q[x + 1]
                 /\ t.conn[q[x]].idle_previous = IF x = 1 THEN None ELSE q[x - 1]
      BY <2>1, Zenon DEF Linked
    <3>5. ASSUME NEW x \in 1 .. m
          PROVE  u.conn[r[x]].idle_next = IF x = m THEN None ELSE r[x + 1]
      <4>1. CASE x < k - 1
        <5>1. r[x] = q[x] /\ r[x + 1] = q[x + 1] /\ x # m /\ x \in 1 .. n /\ x # n
          BY <4>1, <2>2, <2>3
        <5>2. q[x] # t.conn[i].idle_previous
          BY <4>1, <2>2, <2>3, <2>4, <3>a, <5>1, SlotFacts
        <5> HIDE DEF m, r
        <5>3. q[x] \in Slot \ {i} /\ t.conn[q[x]].idle_next = q[x + 1]
          BY <5>1, <3>a, <3>b, Zenon
        <5>4. u.conn[q[x]].idle_next = t.conn[q[x]].idle_next
          BY <5>2, <5>3, <2>6, Zenon
        <5> QED
          BY <5>1, <5>3, <5>4
      <4>2. CASE x = k - 1
        <5>1. r[x] = q[k - 1] /\ k # 1 /\ (x = m <=> k = n) /\ (x # m => r[x + 1] = q[k + 1])
          BY <4>2, <2>2, <2>3
        <5> QED
          BY <5>1, <3>a, <2>4, <2>6
      <4>3. CASE x >= k
        <5>1. /\ r[x] = q[x + 1] /\ x + 1 \in 1 .. n /\ (x = m <=> x + 1 = n)
              /\ x # m => r[x + 1] = q[(x + 1) + 1]
          BY <4>3, <2>2, <2>3
        <5>2. q[x + 1] # t.conn[i].idle_previous
          BY <4>3, <2>2, <2>3, <2>4, <3>a, <5>1, SlotFacts
        <5> HIDE DEF m, r
        <5>3. q[x + 1] \in Slot \ {i}
          BY <5>1, <3>a
        <5>4. t.conn[q[x + 1]].idle_next = IF x + 1 = n THEN None ELSE q[(x + 1) + 1]
          BY <5>1, <3>b, Zenon
        <5>5. u.conn[q[x + 1]].idle_next = t.conn[q[x + 1]].idle_next
          BY <5>2, <5>3, <2>6
        <5> QED
          BY <5>1, <5>4, <5>5
      <4> QED
        BY <4>1, <4>2, <4>3, <2>2, <2>3
    <3>6. ASSUME NEW x \in 1 .. m
          PROVE  u.conn[r[x]].idle_previous = IF x = 1 THEN None ELSE r[x - 1]
      <4>1. CASE x < k
        <5>1. r[x] = q[x] /\ (x # 1 => r[x - 1] = q[x - 1]) /\ x \in 1 .. n
          BY <4>1, <2>2, <2>3
        <5>2. q[x] # t.conn[i].idle_next
          BY <4>1, <2>2, <2>3, <2>4, <3>a, <5>1, SlotFacts
        <5> HIDE DEF m, r
        <5>3. q[x] \in Slot \ {i} /\ t.conn[q[x]].idle_previous = IF x = 1 THEN None ELSE q[x - 1]
          BY <5>1, <3>a, <3>b, Zenon
        <5>4. u.conn[q[x]].idle_previous = t.conn[q[x]].idle_previous
          BY <5>2, <5>3, <2>6, Zenon
        <5> QED
          BY <5>1, <5>3, <5>4
      <4>2. CASE x = k
        <5>1. r[x] = q[k + 1] /\ k # n /\ (x # 1 => r[x - 1] = q[k - 1])
          BY <4>2, <2>2, <2>3
        <5> QED
          BY <4>2, <5>1, <3>a, <2>4, <2>6
      <4>3. CASE x > k
        <5>1. /\ r[x] = q[x + 1] /\ x + 1 \in 1 .. n /\ x # 1 /\ x + 1 # 1
              /\ r[x - 1] = q[(x + 1) - 1]
          BY <4>3, <2>2, <2>3
        <5>2. q[x + 1] # t.conn[i].idle_next
          BY <4>3, <2>2, <2>3, <2>4, <3>a, <5>1, SlotFacts
        <5> HIDE DEF m, r
        <5>3. q[x + 1] \in Slot \ {i}
          BY <5>1, <3>a
        <5>4. t.conn[q[x + 1]].idle_previous = q[(x + 1) - 1]
          BY <5>1, <3>b, Zenon
        <5>5. u.conn[q[x + 1]].idle_previous = t.conn[q[x + 1]].idle_previous
          BY <5>2, <5>3, <2>6
        <5> QED
          BY <5>1, <5>4, <5>5
      <4> QED
        BY <4>1, <4>2, <4>3, <2>2, <2>3
    <3> QED
      BY <3>1, <3>2, <3>3, <3>4, <3>5, <3>6, Zenon DEF Linked
  <2>9. IdleChain(u)
    BY <2>7, <2>8 DEF IdleChain
  <2>10. \A j \in Slot : Settled(u.conn[j], j)
    <3>1. ASSUME NEW j \in Slot PROVE Settled(u.conn[j], j)
      <4>1. Settled(t.conn[j], j) /\ SameConnection(t.conn[j], u.conn[j])
        BY <2>6 DEF TableInv
      <4>2. u.conn[j].idle_queued => t.conn[j].idle_queued
        BY <2>6, Zenon
      <4> QED
        BY <4>1, <4>2, Zenon DEF Settled, SameConnection
    <3> QED
      BY <3>1, Zenon
  <2>11. ActiveExact(u) /\ FreeExact(u) /\ Owned(u, X)
    BY <2>6, <1>0, SameParts, Zenon DEF TableInv, SameConnection
  <2> QED
    BY <2>6, <2>9, <2>10, <2>11 DEF TableInv, u
<1> QED
  BY <1>1, <1>2

\* The connection of i becomes the last of the idle list.
Links(t, i, u) ==
  LET last == t.idle.last
  IN  /\ u \in Tables /\ SameTable(t, u)
      /\ \A j \in Slot : SameConnection(t.conn[j], u.conn[j])
      /\ u.conn[i].idle_queued /\ u.conn[i].idle_next = None /\ u.conn[i].idle_previous = last
      /\ \A j \in Slot \ {i} :
           /\ u.conn[j].idle_queued = t.conn[j].idle_queued
           /\ u.conn[j].idle_next = IF j = last THEN i ELSE t.conn[j].idle_next
           /\ u.conn[j].idle_previous = t.conn[j].idle_previous
      /\ u.idle.first = IF last = None THEN i ELSE t.idle.first
      /\ u.idle.last = i

\* What queueIdle assigns, when it links i.
LEMMA QueueIdleFields ==
  ASSUME NEW t \in Tables, NEW i \in Slot, t.idle.last # i,
         Reclaim, ~IsAdmin(i), ~t.conn[i].idle_queued, t.conn[i].phase = "reading",
         ~t.conn[i].started, t.conn[i].served
  PROVE  Links(t, i, queueIdle(t, i))
<1> DEFINE last == t.idle.last
           d == [t.conn[i] EXCEPT !.idle_previous = last, !.idle_next = None, !.idle_queued = TRUE]
           v == WithConn(t, i, d)
           x == [v.idle EXCEPT !.last = i]
           linked == WithIdle(v, x)
<1>1. last \in Slot \cup {None} /\ last # i /\ t.conn[i] \in Connection
  BY ConnTyped DEF Tables
<1>2. /\ d \in Connection /\ SameConnection(t.conn[i], d) /\ d.idle_queued
      /\ d.idle_next = None /\ d.idle_previous = last
  BY <1>1, Zenon DEF Connection, SameConnection
<1>3. /\ v \in Tables /\ SameTable(t, v) /\ v.idle = t.idle
      /\ \A j \in Slot : v.conn[j] = IF j = i THEN d ELSE t.conn[j]
  <2> HIDE DEF d
  <2> QED
    BY <1>2, WithConnFields
<1>4. queueIdle(t, i) = IF last = None THEN [linked EXCEPT !.idle.first = i]
                        ELSE [linked EXCEPT !.conn[last].idle_next = i]
  BY DEF queueIdle, WithConn, WithIdle
<1> HIDE DEF d, v
<1>5. /\ x \in [first: Slot \cup {None}, last: Slot \cup {None}] /\ x.last = i
      /\ x.first = t.idle.first
  BY <1>3, Zenon DEF Tables
<1> HIDE DEF x
<1>6. /\ linked \in Tables /\ SameTable(v, linked) /\ linked.idle = x /\ linked.conn = v.conn
  BY <1>3, <1>5, WithIdleFields, Zenon
<1> HIDE DEF linked
<1>7. CASE last = None
  <2> DEFINE y == [linked.idle EXCEPT !.first = i]
  <2>1. y \in [first: Slot \cup {None}, last: Slot \cup {None}] /\ y.last = i /\ y.first = i
    BY <1>5, <1>6
  <2>2. queueIdle(t, i) = WithIdle(linked, y)
    BY <1>4, <1>7 DEF WithIdle
  <2> HIDE DEF y
  <2>3. /\ WithIdle(linked, y) \in Tables /\ SameTable(linked, WithIdle(linked, y))
        /\ WithIdle(linked, y).idle = y /\ WithIdle(linked, y).conn = linked.conn
    BY <1>6, <2>1, WithIdleFields
  <2> DEFINE u == queueIdle(t, i)
  <2> HIDE DEF u
  <2>4. /\ u \in Tables /\ u.idle = y
        /\ \A j \in Slot : u.conn[j] = IF j = i THEN d ELSE t.conn[j]
    BY <1>3, <1>6, <2>2, <2>3, Zenon DEF u
  <2>5. SameTable(t, u)
    BY <1>3, <1>6, <2>2, <2>3, Zenon DEF SameTable, u
  <2>6. \A j \in Slot : SameConnection(t.conn[j], u.conn[j])
    BY <1>2, <2>4 DEF SameConnection
  <2>7. u.conn[i].idle_queued /\ u.conn[i].idle_next = None /\ u.conn[i].idle_previous = last
    BY <1>2, <2>4, Zenon
  <2>8. \A j \in Slot \ {i} : u.conn[j] = t.conn[j] /\ j # last
    BY <1>7, <2>4, SlotFacts
  <2> QED
    BY <1>7, <2>1, <2>4, <2>5, <2>6, <2>7, <2>8, Zenon DEF Links, u
<1>8. CASE last \in Slot
  <2> DEFINE e == [linked.conn[last] EXCEPT !.idle_next = i]
  <2>1. linked.conn[last] \in Connection /\ linked.conn[last] = t.conn[last]
    BY <1>1, <1>3, <1>6, <1>8, ConnTyped, Zenon
  <2>2. /\ e \in Connection /\ SameConnection(t.conn[last], e) /\ e.idle_next = i
        /\ e.idle_previous = t.conn[last].idle_previous /\ e.idle_queued = t.conn[last].idle_queued
    BY <2>1 DEF Connection, SameConnection
  <2>3. queueIdle(t, i) = WithConn(linked, last, e)
    BY <1>4, <1>8, SlotFacts, Zenon DEF WithConn
  <2> HIDE DEF e, last
  <2>4. /\ WithConn(linked, last, e) \in Tables /\ SameTable(linked, WithConn(linked, last, e))
        /\ WithConn(linked, last, e).idle = linked.idle
        /\ \A j \in Slot : WithConn(linked, last, e).conn[j] = IF j = last THEN e ELSE linked.conn[j]
    BY <1>6, <1>8, <2>2, WithConnFields
  <2>5. \A j \in Slot : queueIdle(t, i).conn[j] = IF j = last THEN e ELSE IF j = i THEN d ELSE t.conn[j]
    BY <1>3, <1>6, <2>3, <2>4
  <2>6. SameTable(t, queueIdle(t, i))
    BY <1>3, <1>6, <2>3, <2>4 DEF SameTable
  <2>7. queueIdle(t, i).idle = x
    BY <1>6, <2>3, <2>4, Zenon
  <2>8. queueIdle(t, i) \in Tables
    BY <2>3, <2>4
  <2>9. last # i /\ last # None
    BY <1>1, <1>8, SlotFacts
  <2> DEFINE u == queueIdle(t, i)
  <2> HIDE DEF u
  <2>10. /\ \A j \in Slot : u.conn[j] = IF j = last THEN e ELSE IF j = i THEN d ELSE t.conn[j]
         /\ u.idle = x /\ u \in Tables /\ SameTable(t, u)
    BY <2>5, <2>6, <2>7, <2>8, Zenon DEF u
  <2>11. \A j \in Slot : SameConnection(t.conn[j], u.conn[j])
    BY <1>2, <2>2, <2>10 DEF SameConnection
  <2>12. u.conn[i].idle_queued /\ u.conn[i].idle_next = None /\ u.conn[i].idle_previous = last
    BY <1>2, <2>9, <2>10
  <2>13. \A j \in Slot \ {i} :
           /\ u.conn[j].idle_queued = t.conn[j].idle_queued
           /\ u.conn[j].idle_next = IF j = last THEN i ELSE t.conn[j].idle_next
           /\ u.conn[j].idle_previous = t.conn[j].idle_previous
    BY <2>2, <2>10
  <2>14. u.idle.first = (IF last = None THEN i ELSE t.idle.first) /\ u.idle.last = i
    BY <1>5, <2>9, <2>10, Zenon
  <2> QED
    BY <2>10, <2>11, <2>12, <2>13, <2>14, Zenon DEF Links, u, last
<1> QED
  BY <1>1, <1>7, <1>8

\* The effect of queueIdle.
LEMMA QueueIdleInv ==
  ASSUME NEW t, NEW X, NEW i \in Slot, TableInv(t, X), t.conn[i].fd # NoDescriptor
  PROVE  LET u == queueIdle(t, i)
         IN  /\ TableInv(u, X) /\ SameTable(t, u)
             /\ \A j \in Slot : SameConnection(t.conn[j], u.conn[j])
             /\ \A j \in Slot \ {i} : u.conn[j].idle_queued = t.conn[j].idle_queued
<1> DEFINE u == queueIdle(t, i)
<1>0. t \in Tables /\ IdleChain(t)
  BY DEF TableInv
<1>1. CASE \/ ~Reclaim \/ IsAdmin(i) \/ t.conn[i].idle_queued \/ t.conn[i].phase # "reading"
           \/ t.conn[i].started \/ ~t.conn[i].served
  BY <1>1, Zenon DEF queueIdle, SameTable, SameConnection
<1>2. CASE /\ Reclaim /\ ~IsAdmin(i) /\ ~t.conn[i].idle_queued /\ t.conn[i].phase = "reading"
           /\ ~t.conn[i].started /\ t.conn[i].served
  <2>0. PICK n \in Nat : \E q \in [1 .. n -> Slot] : Linked(t, q, n)
    BY <1>0 DEF IdleChain
  <2>1. PICK q \in [1 .. n -> Slot] : Linked(t, q, n)
    BY <2>0
  <2>2. n \in Nat /\ \A k \in 1 .. n : q[k] \in Slot /\ q[k] # i
    BY <1>2, <2>1, SlotsAssumption DEF Linked
  <2>3. t.idle.last = IF n = 0 THEN None ELSE q[n]
    BY <2>1 DEF Linked
  <2>4. t.idle.last # i
    BY <2>2, <2>3, SlotFacts
  <2>5. /\ u \in Tables /\ SameTable(t, u)
        /\ \A j \in Slot : SameConnection(t.conn[j], u.conn[j])
        /\ u.conn[i].idle_queued /\ u.conn[i].idle_next = None /\ u.conn[i].idle_previous = t.idle.last
        /\ \A j \in Slot \ {i} :
             /\ u.conn[j].idle_queued = t.conn[j].idle_queued
             /\ u.conn[j].idle_next = IF j = t.idle.last THEN i ELSE t.conn[j].idle_next
             /\ u.conn[j].idle_previous = t.conn[j].idle_previous
        /\ u.idle.first = IF t.idle.last = None THEN i ELSE t.idle.first
        /\ u.idle.last = i
    BY <1>0, <1>2, <2>4, QueueIdleFields, Zenon DEF Links
  <2> HIDE DEF u
  <2> DEFINE m == n + 1
             r == [x \in 1 .. m |-> IF x = m THEN i ELSE q[x]]
  <2>6. m \in Nat /\ r \in [1 .. m -> Slot] /\ r[m] = i /\ \A x \in 1 .. n : r[x] = q[x] /\ x \in 1 .. m
    BY <2>2
  <2>6a. \A x \in 1 .. m : x \in 1 .. n \/ x = m
    BY <2>2
  <2>6b. n \notin 1 .. n <=> n = 0
    BY <2>2
  <2> HIDE DEF r
  <2>7. Linked(u, r, m)
    <3>1. \A x, y \in 1 .. m : r[x] = r[y] => x = y
      BY <2>1, <2>2, <2>6, <2>6a DEF Linked
    <3>2. \A j \in Slot : u.conn[j].idle_queued <=> \E x \in 1 .. m : r[x] = j
      <4>1. \A j \in Slot \ {i} : t.conn[j].idle_queued <=> \E x \in 1 .. n : q[x] = j
        BY <2>1 DEF Linked
      <4>2. \A j \in Slot \ {i} : (\E x \in 1 .. n : q[x] = j) <=> (\E x \in 1 .. m : r[x] = j)
        BY <2>6, <2>6a
      <4>3. \E x \in 1 .. m : r[x] = i
        BY <2>6
      <4> QED
        BY <4>1, <4>2, <4>3, <2>5
    <3>3. u.idle.first = IF m = 0 THEN None ELSE r[1]
      BY <2>1, <2>2, <2>3, <2>5, <2>6, SlotFacts DEF Linked
    <3>4. u.idle.last = IF m = 0 THEN None ELSE r[m]
      BY <2>2, <2>5, <2>6
    <3>5. ASSUME NEW x \in 1 .. m
          PROVE  u.conn[r[x]].idle_next = IF x = m THEN None ELSE r[x + 1]
      <4>1. CASE x = m
        BY <4>1, <2>5, <2>6, Zenon
      <4>2. CASE x = n /\ n # 0
        BY <4>2, <2>2, <2>3, <2>5, <2>6
      <4>3. CASE x \in 1 .. n /\ x # n
        <5>1. x + 1 \in 1 .. n /\ x # m /\ n \in 1 .. n
          BY <4>3, <2>2
        <5>2. t.conn[q[x]].idle_next = q[x + 1] /\ q[x] # q[n]
          BY <4>3, <5>1, <2>1 DEF Linked
        <5> QED
          BY <4>3, <5>1, <5>2, <2>2, <2>3, <2>5, <2>6
      <4> QED
        BY <4>1, <4>2, <4>3, <2>6a, <2>2
    <3>6. ASSUME NEW x \in 1 .. m
          PROVE  u.conn[r[x]].idle_previous = IF x = 1 THEN None ELSE r[x - 1]
      <4>1. CASE x = m
        BY <4>1, <2>2, <2>3, <2>5, <2>6
      <4>2. CASE x \in 1 .. n
        <5>1. t.conn[q[x]].idle_previous = IF x = 1 THEN None ELSE q[x - 1]
          BY <4>2, <2>1 DEF Linked
        <5>2. x # 1 => x - 1 \in 1 .. n
          BY <4>2, <2>2
        <5> QED
          BY <4>2, <5>1, <5>2, <2>2, <2>5, <2>6
      <4> QED
        BY <4>1, <4>2, <2>6a, Zenon
    <3> QED
      BY <3>1, <3>2, <3>3, <3>4, <3>5, <3>6, Zenon DEF Linked
  <2>9. IdleChain(u)
    BY <2>6, <2>7 DEF IdleChain
  <2>10. \A j \in Slot : Settled(u.conn[j], j)
    <3>1. ASSUME NEW j \in Slot PROVE Settled(u.conn[j], j)
      <4>1. Settled(t.conn[j], j) /\ SameConnection(t.conn[j], u.conn[j])
        BY <2>5 DEF TableInv
      <4>2. j = i \/ u.conn[j].idle_queued = t.conn[j].idle_queued
        BY <2>5, Zenon
      <4> QED
        BY <4>1, <4>2, <1>2, Zenon DEF Settled, SameConnection
    <3> QED
      BY <3>1, Zenon
  <2>11. ActiveExact(u) /\ FreeExact(u) /\ Owned(u, X)
    BY <2>5, <1>0, SameParts DEF TableInv, SameConnection
  <2> QED
    BY <2>5, <2>9, <2>10, <2>11, Zenon DEF TableInv, u
<1> QED
  BY <1>1, <1>2

(***************************************************************************)
(* The operations of one connection                                        *)
(***************************************************************************)
\* The descriptor of a connection, and its place in the lists.
SamePlace(c, d) ==
  /\ d.fd = c.fd /\ d.active_position = c.active_position /\ d.idle_queued = c.idle_queued
  /\ d.idle_next = c.idle_next /\ d.idle_previous = c.idle_previous

\* Assignments to a connection that leave these alone.
LEMMA UpdateInv ==
  ASSUME NEW t, NEW X, NEW i \in Slot, NEW d \in Connection, TableInv(t, X), Settled(d, i),
         SamePlace(t.conn[i], d)
  PROVE  LET u == WithConn(t, i, d)
         IN  /\ TableInv(u, X) /\ SameTable(t, u)
             /\ \A j \in Slot : u.conn[j] = IF j = i THEN d ELSE t.conn[j]
<1> DEFINE u == WithConn(t, i, d)
<1>1. t \in Tables /\ ActiveExact(t) /\ FreeExact(t) /\ IdleChain(t) /\ Owned(t, X)
  BY DEF TableInv
<1>2. /\ u \in Tables /\ SameTable(t, u) /\ u.idle = t.idle
      /\ \A j \in Slot : u.conn[j] = IF j = i THEN d ELSE t.conn[j]
  BY <1>1, WithConnFields
<1> HIDE DEF u
<1>3. \A j \in Slot : /\ u.conn[j].fd = t.conn[j].fd
                      /\ u.conn[j].active_position = t.conn[j].active_position
                      /\ u.conn[j].idle_queued = t.conn[j].idle_queued
                      /\ u.conn[j].idle_next = t.conn[j].idle_next
                      /\ u.conn[j].idle_previous = t.conn[j].idle_previous
  BY <1>2 DEF SamePlace
<1>6. ActiveExact(u) /\ FreeExact(u) /\ Owned(u, X)
  BY <1>1, <1>2, <1>3, SameParts
<1>7. IdleChain(u)
  BY <1>1, <1>2, <1>3, ChainKept
<1>8. \A j \in Slot : Settled(u.conn[j], j)
  BY <1>2, Zenon DEF TableInv
<1> QED
  BY <1>2, <1>6, <1>7, <1>8 DEF TableInv, u

\* What every handler of a connection guarantees: operations in the ring stay
\* there, and a connection that is canceled stays so until they are done.
Keeps(t, u) ==
  \A j \in Slot : /\ t.conn[j].ops \subseteq u.conn[j].ops
                  /\ t.conn[j].phase = "canceling" /\ t.conn[j].ops # {} => u.conn[j].phase = "canceling"
Effect(t, u) ==
  /\ Keeps(t, u)
  /\ u.waiting = t.waiting /\ u.accepting = t.accepting
  /\ Len(u.active) >= Len(t.active) - 1

\* The idle connections but i have their receive in the ring.
OthersReceive(t, i) ==
  \A j \in Slot \ {i} : t.conn[j].idle_queued => "receive" \in t.conn[j].ops

\* A receive keeps the table: an idle connection joins the idle list with its receive in the ring.
LEMMA QueueReceiveInv ==
  ASSUME NEW t, NEW X, NEW i \in Slot, TableInv(t, X), t.conn[i].fd # NoDescriptor, OthersReceive(t, i)
  PROVE  LET u == queueReceive(t, i)
         IN  /\ TableInv(u, X) /\ Receives(u) /\ Keeps(t, u) /\ SameTable(t, u)
             /\ u.conn[i].phase = t.conn[i].phase
<1> DEFINE u == queueReceive(t, i)
           v == queueIdle(t, i)
           d == [v.conn[i] EXCEPT !.ops = @ \cup {"receive"}]
<1>1. CASE "receive" \in t.conn[i].ops
  BY <1>1 DEF queueReceive, Receives, OthersReceive, Keeps, SameTable
<1>2. CASE "receive" \notin t.conn[i].ops
  <2>1. u = WithConn(v, i, d)
    BY <1>2 DEF queueReceive, WithConn
  <2>2. /\ TableInv(v, X) /\ SameTable(t, v)
        /\ \A j \in Slot : SameConnection(t.conn[j], v.conn[j])
        /\ \A j \in Slot \ {i} : v.conn[j].idle_queued = t.conn[j].idle_queued
    BY QueueIdleInv
  <2> HIDE DEF u, v
  <2>3. v.conn[i] \in Connection /\ Settled(v.conn[i], i) /\ v.conn[i].fd # NoDescriptor
    BY <2>2, ConnTyped DEF TableInv, SameConnection
  <2>4. /\ d \in Connection /\ SamePlace(v.conn[i], d) /\ d.ops = v.conn[i].ops \cup {"receive"}
        /\ d.phase = v.conn[i].phase /\ d.started = v.conn[i].started /\ d.served = v.conn[i].served
    BY <2>3, Zenon DEF Connection, Operation, SamePlace
  <2> HIDE DEF d
  <2>5. Settled(d, i)
    BY <2>3, <2>4 DEF Settled, SamePlace
  <2>6. /\ TableInv(u, X) /\ SameTable(v, u)
        /\ \A j \in Slot : u.conn[j] = IF j = i THEN d ELSE v.conn[j]
    <3>1. TableInv(v, X) /\ d \in Connection /\ SamePlace(v.conn[i], d)
      BY <2>2, <2>4
    <3> QED
      BY <3>1, <2>1, <2>5, UpdateInv
  <2>7. SameTable(t, u)
    BY <2>2, <2>6, Zenon DEF SameTable
  <2>8. Receives(u)
    BY <2>2, <2>4, <2>6 DEF Receives, OthersReceive, SameConnection
  <2>9. Keeps(t, u) /\ u.conn[i].phase = t.conn[i].phase
    BY <2>2, <2>4, <2>6, Zenon DEF Keeps, SameConnection
  <2> QED
    BY <2>6, <2>7, <2>8, <2>9 DEF u
<1> QED
  BY <1>1, <1>2

\* queueSend, of a request that has begun.
LEMMA QueueSendInv ==
  ASSUME NEW t, NEW X, NEW i \in Slot, TableInv(t, X), t.conn[i].fd # NoDescriptor, t.conn[i].started,
         OthersReceive(t, i), t.conn[i].phase # "canceling"
  PROVE  LET u == queueSend(t, i)
         IN  TableInv(u, X) /\ Receives(u) /\ Keeps(t, u) /\ SameTable(t, u)
<1> DEFINE u == queueSend(t, i)
           d == [t.conn[i] EXCEPT !.phase = "writing", !.ops = t.conn[i].ops \cup {"send"}]
<1>2. t.conn[i] \in Connection /\ Settled(t.conn[i], i)
  BY ConnTyped DEF TableInv
<1>1. u = WithConn(t, i, d)
  BY DEF queueSend, WithConn
<1>3. /\ d \in Connection /\ SamePlace(t.conn[i], d) /\ d.ops = t.conn[i].ops \cup {"send"}
      /\ d.phase = "writing" /\ d.started = t.conn[i].started /\ d.served = t.conn[i].served
  BY <1>2, Zenon DEF Connection, Operation, SamePlace
<1> HIDE DEF d, u
<1>4. Settled(d, i) /\ ~d.idle_queued
  <2>1. ~t.conn[i].idle_queued
    BY <1>2, Zenon DEF Settled
  <2>2. d.fd # NoDescriptor /\ ~d.idle_queued /\ d.started
    BY <2>1, <1>3, Zenon DEF SamePlace
  <2> QED
    BY <2>2, <1>3, Zenon DEF Settled
<1>5. /\ TableInv(u, X) /\ SameTable(t, u)
      /\ \A j \in Slot : u.conn[j] = IF j = i THEN d ELSE t.conn[j]
  <2>1. d \in Connection /\ SamePlace(t.conn[i], d) /\ Settled(d, i)
    BY <1>3, <1>4
  <2> QED
    BY <1>1, <2>1, UpdateInv
<1>6. Receives(u)
  BY <1>4, <1>5 DEF Receives, OthersReceive
<1>7. Keeps(t, u)
  BY <1>3, <1>5, Zenon DEF Keeps
<1> QED
  BY <1>5, <1>6, <1>7 DEF u

\* Ends, of a connection off the idle list.
LEMMA EndsInv ==
  ASSUME NEW t, NEW X, NEW i \in Slot, NEW phase \in {"drain", "canceling"}, TableInv(t, X),
         ~t.conn[i].idle_queued, phase = "drain" => "send" \notin t.conn[i].ops
  PROVE  LET u == Ends(t, i, phase)
         IN  /\ TableInv(u, X) /\ SameTable(t, u)
             /\ \A j \in Slot \ {i} : u.conn[j] = t.conn[j]
             /\ ~u.conn[i].idle_queued /\ u.conn[i].phase = phase
             /\ u.conn[i].fd = t.conn[i].fd /\ u.conn[i].ops = t.conn[i].ops
<1> DEFINE u == Ends(t, i, phase)
           d == [t.conn[i] EXCEPT !.phase = phase, !.started = FALSE, !.served = FALSE]
<1>1. u = WithConn(t, i, d)
  BY Zenon DEF Ends, WithConn
<1>2. t.conn[i] \in Connection /\ Settled(t.conn[i], i)
  BY ConnTyped DEF TableInv
<1>3. /\ d \in Connection /\ SamePlace(t.conn[i], d) /\ d.ops = t.conn[i].ops
      /\ d.phase = phase
  BY <1>2, Zenon DEF Connection, SamePlace
<1> HIDE DEF d, u
<1>4. Settled(d, i)
  BY <1>2, <1>3, Zenon DEF Settled, SamePlace
<1>5. /\ TableInv(u, X) /\ SameTable(t, u)
      /\ \A j \in Slot : u.conn[j] = IF j = i THEN d ELSE t.conn[j]
  <2>1. d \in Connection /\ SamePlace(t.conn[i], d) /\ Settled(d, i)
    BY <1>3, <1>4
  <2> QED
    BY <1>1, <2>1, UpdateInv
<1> QED
  BY <1>3, <1>5 DEF u, SamePlace

(***************************************************************************)
(* Closing                                                                 *)
(***************************************************************************)
\* The connection of i leaves the table, and the last active one takes its place.
Vacates(t, i, u) ==
  LET p == t.conn[i].active_position
      last == Len(t.active)
      moved == t.active[last]
  IN  /\ u \in Tables
      /\ last > 0 /\ moved \in Slot /\ p \in Nat /\ p < last
      /\ u.active = [n \in 1 .. last - 1 |-> IF n = p + 1 THEN moved ELSE t.active[n]]
      /\ u.free = [t.free EXCEPT ![List(i)] = <<i>> \o @]
      /\ u.open = [t.open EXCEPT ![t.conn[i].fd] = @ - 1]
      /\ u.idle = t.idle /\ u.waiting = t.waiting /\ u.retry = t.retry /\ u.accepting = t.accepting
      /\ u.conn[i] = Vacant
      /\ \A j \in Slot \ {i} :
           u.conn[j] = IF j = moved THEN [t.conn[j] EXCEPT !.active_position = p] ELSE t.conn[j]

\* What finishClose assigns, when the slot is closed.
LEMMA FinishCloseFields ==
  ASSUME NEW t \in Tables, NEW i \in Slot, t.conn[i].ops = {}, t.conn[i].fd \in Descriptor,
         ActiveExact(t)
  PROVE  Vacates(t, i, finishClose(t, i))
<1> DEFINE c == t.conn[i]
           p == c.active_position
           last == Len(t.active)
           moved == t.active[last]
           a == SubSeq([t.active EXCEPT ![p + 1] = moved], 1, last - 1)
           f == [t.free EXCEPT ![List(i)] = <<i>> \o @]
           o == [t.open EXCEPT ![c.fd] = @ - 1]
           u == [close(t, c.fd) EXCEPT !.free[List(i)] = <<i>> \o @, !.active = a]
<1>1. c \in Connection /\ p \in Nat /\ p < last /\ t.active \in Seq(Slot) /\ last \in Nat /\ c.fd # NoDescriptor
  BY SlotsAssumption, ConnTyped DEF ActiveExact, Connection, Tables
<1>2. last > 0 /\ moved \in Slot
  BY <1>1
<1>3. /\ a \in Seq(Slot)
      /\ a = [n \in 1 .. last - 1 |-> IF n = p + 1 THEN moved ELSE t.active[n]]
  <2>1. [t.active EXCEPT ![p + 1] = moved] \in Seq(Slot) /\ Len([t.active EXCEPT ![p + 1] = moved]) = last
    BY <1>1, <1>2
  <2>2. \A n \in 1 .. last : [t.active EXCEPT ![p + 1] = moved][n] = IF n = p + 1 THEN moved ELSE t.active[n]
    BY <1>1, <1>2
  <2> DEFINE s == [t.active EXCEPT ![p + 1] = moved]
  <2> HIDE DEF s, last, moved, p
  <2> QED
    BY <1>1, <1>2, <2>1, <2>2 DEF s
<1>4. f \in [public: Seq(Slot), admin: Seq(Slot)]
  <2>1. t.free \in [public: Seq(Slot), admin: Seq(Slot)] /\ List(i) \in {"public", "admin"}
    BY DEF Tables, List
  <2>2. <<i>> \o t.free[List(i)] \in Seq(Slot)
    BY <2>1
  <2> QED
    BY <2>1, <2>2, Zenon
<1>5. o \in [Descriptor -> Int]
  BY DEF Tables
<1>6. finishClose(t, i) = [Moved(u, moved, p) EXCEPT !.conn[i] = Vacant]
  BY <1>1 DEF finishClose, close
<1>7. /\ u \in Tables /\ u.open = o /\ u.free = f /\ u.active = a /\ u.conn = t.conn
      /\ u.idle = t.idle /\ u.waiting = t.waiting /\ u.retry = t.retry /\ u.accepting = t.accepting
  <2>1. u = [t EXCEPT !.open = o, !.free = f, !.active = a]
    BY DEF close, Tables
  <2> HIDE DEF o, f, a, u
  <2> QED
    BY <1>3, <1>4, <1>5, <2>1, Zenon DEF Tables
<1> HIDE DEF u, a, f, o
<1> DEFINE d == [t.conn[moved] EXCEPT !.active_position = p]
           v == WithConn(u, moved, d)
           w == WithConn(v, i, Vacant)
<1>8. d \in Connection
  <2>1. t.conn[moved] \in Connection /\ p \in Nat
    BY <1>1, <1>2, ConnTyped, Zenon
  <2> HIDE DEF moved, p
  <2> QED
    BY <2>1, Zenon DEF Connection
<1>9. Vacant \in Connection
  BY DEF Vacant, Connection
<1>10. finishClose(t, i) = w
  BY <1>6, <1>7, Zenon DEF Moved, WithConn
<1> HIDE DEF d, p, moved
<1>11. v \in Tables /\ SameTable(u, v) /\ v.idle = u.idle /\ \A j \in Slot : v.conn[j] = IF j = moved THEN d ELSE u.conn[j]
  BY <1>2, <1>7, <1>8, WithConnFields
<1> HIDE DEF v
<1>12. w \in Tables /\ SameTable(v, w) /\ w.idle = v.idle /\ \A j \in Slot : w.conn[j] = IF j = i THEN Vacant ELSE v.conn[j]
  BY <1>9, <1>11, WithConnFields
<1> HIDE DEF w
<1>13. /\ w.conn[i] = Vacant
       /\ \A j \in Slot \ {i} : w.conn[j] = IF j = moved THEN d ELSE t.conn[j]
  BY <1>7, <1>11, <1>12
<1>14. /\ w.active = a /\ w.free = f /\ w.open = o
       /\ w.idle = t.idle /\ w.waiting = t.waiting /\ w.retry = t.retry /\ w.accepting = t.accepting
  BY <1>7, <1>11, <1>12, Zenon DEF SameTable
<1> QED
  BY <1>1, <1>2, <1>3, <1>10, <1>12, <1>13, <1>14, Zenon DEF Vacates, p, moved, d, f, o

\* Whether or not finishClose closes, it changes nothing else of the others.
Finished(t, u, i) ==
  /\ \A j \in Slot : /\ u.conn[j].ops = t.conn[j].ops
                     /\ u.conn[j].idle_queued = t.conn[j].idle_queued
  /\ \A j \in Slot \ {i} : u.conn[j].phase = t.conn[j].phase
  /\ u.conn[i].phase \in {t.conn[i].phase, "canceling"}
  /\ u.waiting = t.waiting /\ u.accepting = t.accepting
  /\ Len(u.active) >= Len(t.active) - 1

\* The effect of finishClose, on a connection off the idle list.
LEMMA FinishCloseInv ==
  ASSUME NEW t, NEW X, NEW i \in Slot, TableInv(t, X), ~t.conn[i].idle_queued
  PROVE  TableInv(finishClose(t, i), X) /\ Finished(t, finishClose(t, i), i)
<1> DEFINE u == finishClose(t, i)
           p == t.conn[i].active_position
           last == Len(t.active)
           moved == t.active[last]
           fd == t.conn[i].fd
<1>0. /\ t \in Tables /\ ActiveExact(t) /\ FreeExact(t) /\ IdleChain(t) /\ Owned(t, X)
      /\ \A j \in Slot : Settled(t.conn[j], j)
      /\ fd \in Descriptor \cup {NoDescriptor} /\ NoDescriptor \notin Descriptor
      /\ t.active \in Seq(Slot) /\ last \in Nat
  <2>1. /\ t \in Tables /\ ActiveExact(t) /\ FreeExact(t) /\ IdleChain(t) /\ Owned(t, X)
        /\ \A j \in Slot : Settled(t.conn[j], j)
    BY Zenon DEF TableInv
  <2>2. t.conn[i] \in Connection
    BY <2>1, ConnTyped
  <2>3. fd \in Descriptor \cup {NoDescriptor}
    BY <2>2, Zenon DEF Connection
  <2>4. t.active \in Seq(Slot)
    BY <2>1, Zenon DEF Tables
  <2>5. last \in Nat
    BY <2>4
  <2>6. NoDescriptor \notin Descriptor
    BY SlotsAssumption, Zenon
  <2> QED
    BY <2>1, <2>3, <2>4, <2>5, <2>6, Zenon
<1>1. CASE t.conn[i].ops # {} \/ fd = NoDescriptor
  <2>1. finishClose(t, i) = t
    BY <1>1, Zenon DEF finishClose
  <2> QED
    BY <1>0, <2>1 DEF Finished
<1>2. CASE t.conn[i].ops = {} /\ fd \in Descriptor
  <2>1. /\ u \in Tables
        /\ last > 0 /\ moved \in Slot /\ p \in Nat /\ p < last
        /\ u.active = [n \in 1 .. last - 1 |-> IF n = p + 1 THEN moved ELSE t.active[n]]
        /\ u.free = [t.free EXCEPT ![List(i)] = <<i>> \o @]
        /\ u.open = [t.open EXCEPT ![fd] = @ - 1]
        /\ u.idle = t.idle /\ u.waiting = t.waiting /\ u.retry = t.retry /\ u.accepting = t.accepting
        /\ u.conn[i] = Vacant
        /\ \A j \in Slot \ {i} :
             u.conn[j] = IF j = moved THEN [t.conn[j] EXCEPT !.active_position = p] ELSE t.conn[j]
    BY <1>0, <1>2, FinishCloseFields, Zenon DEF Vacates
  <2> HIDE DEF u
  <2>2. ASSUME NEW j \in Slot \ {i}
        PROVE  /\ u.conn[j].fd = t.conn[j].fd /\ u.conn[j].phase = t.conn[j].phase
               /\ u.conn[j].started = t.conn[j].started /\ u.conn[j].served = t.conn[j].served
               /\ u.conn[j].ops = t.conn[j].ops /\ u.conn[j].idle_queued = t.conn[j].idle_queued
               /\ u.conn[j].idle_next = t.conn[j].idle_next
               /\ u.conn[j].idle_previous = t.conn[j].idle_previous
               /\ u.conn[j].active_position = IF j = moved THEN p ELSE t.conn[j].active_position
    <3>1. t.conn[j] \in Connection /\ (u.conn[j] = IF j = moved THEN [t.conn[j] EXCEPT !.active_position = p] ELSE t.conn[j])
      BY <1>0, <2>1, ConnTyped
    <3> HIDE DEF p, moved
    <3> QED
      BY <3>1 DEF Connection
  <2>3. /\ u.conn[i].fd = NoDescriptor /\ u.conn[i].phase = "canceling" /\ u.conn[i].ops = {}
        /\ ~u.conn[i].idle_queued /\ u.conn[i].idle_queued = FALSE
    BY <2>1 DEF Vacant
  <2>4. ActiveExact(u)
    <3> HIDE DEF p, moved
    <3>1. /\ Len(u.active) = last - 1
          /\ \A n \in 1 .. last - 1 : u.active[n] = IF n = p + 1 THEN moved ELSE t.active[n]
      BY <2>1
    <3>2. /\ \A n \in 1 .. last : /\ t.active[n] \in Slot /\ t.conn[t.active[n]].fd # NoDescriptor
                                  /\ t.conn[t.active[n]].active_position = n - 1
          /\ t.active[p + 1] = i /\ t.active[last] = moved
          /\ \A j \in Slot : t.conn[j].fd # NoDescriptor =>
               /\ t.conn[j].active_position < last /\ t.active[t.conn[j].active_position + 1] = j
      BY <1>0, <1>2, <2>1 DEF ActiveExact, p, moved
    <3>3. \A j \in Slot : t.conn[j].active_position \in Nat
      BY <1>0, ConnTyped DEF Connection
    <3> HIDE DEF last
    <3>a. last \in Nat /\ last > 0 /\ p \in Nat /\ p < last /\ moved \in Slot
      BY <1>0, <2>1, Zenon
    <3>4. ASSUME NEW j \in Slot, u.conn[j].fd # NoDescriptor
          PROVE  u.conn[j].active_position < last - 1 /\ u.active[u.conn[j].active_position + 1] = j
      <4>1. j # i /\ t.conn[j].fd # NoDescriptor
        BY <2>2, <2>3, <3>4, Zenon
      <4>2. CASE j = moved
        <5>1. u.conn[j].active_position = p
          BY <4>1, <4>2, <2>2
        <5>2. p + 1 # last
          BY <4>1, <4>2, <3>2, <3>a
        <5>3. p + 1 \in 1 .. last - 1
          BY <5>2, <3>a
        <5> QED
          BY <4>2, <5>1, <5>3, <3>1, <3>a
      <4>3. CASE j # moved
        <5> DEFINE k == t.conn[j].active_position
        <5>1. u.conn[j].active_position = k /\ k \in Nat /\ k < last /\ t.active[k + 1] = j
          BY <4>1, <4>3, <2>2, <3>2, <3>3, Zenon
        <5>2. k + 1 # last /\ k # p
          BY <4>1, <4>3, <5>1, <3>2
        <5> HIDE DEF k
        <5>3. k + 1 \in 1 .. last - 1 /\ k + 1 # p + 1
          BY <5>1, <5>2, <3>a
        <5> QED
          BY <5>1, <5>3, <3>1, <3>a
      <4> QED
        BY <4>2, <4>3, Zenon
    <3>5. ASSUME NEW n \in 1 .. last - 1
          PROVE  u.conn[u.active[n]].fd # NoDescriptor /\ u.conn[u.active[n]].active_position = n - 1
      <4>1. n \in 1 .. last /\ last \in 1 .. last /\ n # last
        BY <3>a
      <4>2. CASE n = p + 1
        <5>1. u.active[n] = moved /\ t.conn[moved].active_position = last - 1 /\ t.conn[moved].fd # NoDescriptor
          BY <4>1, <4>2, <3>1, <3>2, Zenon
        <5>2. moved # i
          BY <5>1, <4>1, <4>2, <3>2, <3>a
        <5>3. u.conn[moved].fd # NoDescriptor /\ u.conn[moved].active_position = p
          BY <5>1, <5>2, <3>a, <2>2, Zenon
        <5> QED
          BY <5>1, <5>3, <4>2, <3>a
      <4>3. CASE n # p + 1
        <5> DEFINE j == t.active[n]
        <5>1. u.active[n] = j /\ j \in Slot /\ t.conn[j].active_position = n - 1 /\ t.conn[j].fd # NoDescriptor
          BY <4>1, <4>3, <3>1, <3>2, Zenon
        <5>2. j # i
          BY <5>1, <4>3, <4>1, <3>2, <3>a
        <5>3. t.conn[moved].active_position = last - 1
          BY <4>1, <3>2
        <5>4. j # moved
          BY <5>1, <5>3, <4>1, <3>a
        <5> HIDE DEF j
        <5> QED
          BY <5>1, <5>2, <5>4, <2>2
      <4> QED
        BY <4>2, <4>3
    <3> QED
      BY <3>1, <3>4, <3>5 DEF ActiveExact
  <2>5. FreeExact(u)
    <3> HIDE DEF p, last, moved
    <3> DEFINE L == List(i)
    <3>1. t.free \in [public: Seq(Slot), admin: Seq(Slot)] /\ L \in {"public", "admin"} /\ t.free[L] \in Seq(Slot)
      BY <1>0 DEF Tables, List
    <3>2. /\ u.free[L] = <<i>> \o t.free[L]
          /\ \A l \in {"public", "admin"} : l # L => u.free[l] = t.free[l]
      BY <2>1, <3>1, Zenon
    <3>3. \A l \in {"public", "admin"} : FreeList(t, l, t.free[l])
      BY <1>0, FreeLists, Zenon
    <3>4. t.conn[i].fd # NoDescriptor /\ \A j \in Slot \ {i} : u.conn[j].fd = t.conn[j].fd
      BY <1>0, <1>2, <2>2
    <3>5. FreeList(u, L, <<i>> \o t.free[L])
      BY <3>1, <3>3, <3>4, <2>3, FreePush, Zenon
    <3>6. ASSUME NEW l \in {"public", "admin"}, l # L PROVE FreeList(u, l, t.free[l])
      <4>1. \A j \in Slot : List(j) = l => u.conn[j].fd = t.conn[j].fd
        BY <3>4, <3>6
      <4> QED
        BY <4>1, <3>3, FreeOther, Zenon
    <3>7. ASSUME NEW l \in {"public", "admin"} PROVE FreeList(u, l, u.free[l])
      BY <3>2, <3>5, <3>6, Zenon
    <3> QED
      BY <3>7, <2>1, FreeLists, Zenon
  <2> HIDE DEF p, last, moved
  <2>6. IdleChain(u)
    <3>1. \A j \in Slot : u.conn[j].idle_queued <=> t.conn[j].idle_queued
      BY <2>2, <2>3, Zenon
    <3>2. \A j \in Slot : t.conn[j].idle_queued =>
            u.conn[j].idle_next = t.conn[j].idle_next /\ u.conn[j].idle_previous = t.conn[j].idle_previous
      BY <2>2
    <3>3. IdleChain(t) /\ u.idle = t.idle
      BY <1>0, <2>1
    <3> QED
      BY <3>1, <3>2, <3>3, ChainKept, Zenon
  <2>7. \A j \in Slot : Settled(u.conn[j], j)
    <3>1. Settled(u.conn[i], i)
      BY <2>3, Zenon DEF Settled
    <3>2. ASSUME NEW j \in Slot \ {i} PROVE Settled(u.conn[j], j)
      <4>1. Settled(t.conn[j], j)
        BY <1>0
      <4> QED
        BY <4>1, <2>2, Zenon DEF Settled
    <3> QED
      BY <3>1, <3>2
  <2>8. Owned(u, X)
    <3>1. /\ \A j, k \in Slot : t.conn[j].fd = t.conn[k].fd => j = k \/ t.conn[j].fd = NoDescriptor
          /\ \A j \in Slot : t.conn[j].fd # NoDescriptor => t.conn[j].fd \notin X /\ t.conn[j].fd # t.waiting.fd
          /\ t.waiting.fd \notin X
      BY <1>0 DEF Owned
    <3>2. ASSUME NEW f \in Descriptor
          PROVE  u.open[f] = IF \/ f \in X \/ u.waiting.fd = f
                                \/ \E j \in Slot : u.conn[j].fd = f
                             THEN 1 ELSE 0
      <4>1. t.open[f] = IF \/ f \in X \/ t.waiting.fd = f \/ \E j \in Slot : t.conn[j].fd = f THEN 1 ELSE 0
        BY <1>0, Zenon DEF Owned
      <4>2. t.open \in [Descriptor -> Int]
        BY <1>0 DEF Tables
      <4>3. CASE f = fd
        <5>1. t.open[f] = 1 /\ f \notin X /\ t.waiting.fd # f
          BY <4>1, <4>3, <3>1, <1>0, Zenon
        <5>2. \A j \in Slot : u.conn[j].fd # f
          BY <4>3, <3>1, <2>2, <2>3, <1>0
        <5>3. u.open[f] = 0
          BY <5>1, <4>2, <4>3, <2>1
        <5> QED
          BY <5>1, <5>2, <5>3, <2>1
      <4>4. CASE f # fd
        <5>1. u.open[f] = t.open[f]
          BY <4>4, <4>2, <2>1, Zenon
        <5>2. (\E j \in Slot : t.conn[j].fd = f) <=> (\E j \in Slot : u.conn[j].fd = f)
          BY <4>4, <2>2, <2>3, <1>0, Zenon
        <5> QED
          BY <5>1, <5>2, <4>1, <2>1
      <4> QED
        BY <4>3, <4>4
    <3>3. /\ \A j, k \in Slot : u.conn[j].fd = u.conn[k].fd => j = k \/ u.conn[j].fd = NoDescriptor
          /\ \A j \in Slot : u.conn[j].fd # NoDescriptor => u.conn[j].fd \notin X /\ u.conn[j].fd # u.waiting.fd
          /\ u.waiting.fd \notin X
      BY <3>1, <2>1, <2>2, <2>3
    <3> QED
      BY <3>2, <3>3, Zenon DEF Owned
  <2>9. TableInv(u, X)
    BY <2>1, <2>4, <2>5, <2>6, <2>7, <2>8 DEF TableInv
  <2>10. Len(u.active) = last - 1
    BY <1>0, <2>1
  <2>11. \A j \in Slot : u.conn[j].ops = t.conn[j].ops /\ u.conn[j].idle_queued = t.conn[j].idle_queued
    <3>1. t.conn[i] \in Connection /\ t.conn[i].ops = {} /\ ~t.conn[i].idle_queued
      BY <1>0, <1>2, ConnTyped
    <3>2. t.conn[i].idle_queued = FALSE
      BY <3>1, Zenon DEF Connection
    <3> HIDE DEF fd
    <3> QED
      BY <3>1, <3>2, <2>2, <2>3, Zenon
  <2> QED
    BY <2>1, <2>2, <2>3, <2>9, <2>10, <2>11, <1>0 DEF u, Finished, p, last, moved
<1> QED
  BY <1>0, <1>1, <1>2

\* A handler leaves the invariant, and takes nothing out of the ring.
Handled(t, u, X) == TableInv(u, X) /\ Receives(u) /\ Effect(t, u)

\* forceClose keeps the table, whether the slot is freed now or with its last operation.
LEMMA ForceCloseInv ==
  ASSUME NEW t, NEW X, NEW i \in Slot, TableInv(t, X), OthersReceive(t, i)
  PROVE  LET u == forceClose(t, i)
         IN  /\ Handled(t, u, X)
             /\ u.conn[i].phase = "canceling" /\ u.conn[i].ops = t.conn[i].ops
             /\ ~u.conn[i].idle_queued
             /\ \A j \in Slot \ {i} : u.conn[j].phase = t.conn[j].phase
<1> DEFINE v == removeIdle(t, i)
           w == Ends(v, i, "canceling")
           u == finishClose(w, i)
<1>1. /\ TableInv(v, X) /\ SameTable(t, v)
      /\ \A j \in Slot : SameConnection(t.conn[j], v.conn[j])
      /\ \A j \in Slot \ {i} : v.conn[j].idle_queued = t.conn[j].idle_queued
      /\ ~v.conn[i].idle_queued
  BY RemoveIdleInv, Zenon
<1> HIDE DEF v
<1>2. /\ TableInv(w, X) /\ SameTable(v, w)
      /\ \A j \in Slot \ {i} : w.conn[j] = v.conn[j]
      /\ ~w.conn[i].idle_queued /\ w.conn[i].phase = "canceling"
      /\ w.conn[i].fd = v.conn[i].fd /\ w.conn[i].ops = v.conn[i].ops
  BY <1>1, EndsInv, Zenon
<1> HIDE DEF w
<1>3. TableInv(u, X) /\ Finished(w, u, i)
  BY <1>2, FinishCloseInv
<1>4. forceClose(t, i) = u
  BY Zenon DEF forceClose, v, w
<1> HIDE DEF u
<1>5. /\ \A j \in Slot : u.conn[j].ops = t.conn[j].ops
      /\ \A j \in Slot \ {i} : /\ u.conn[j].phase = t.conn[j].phase
                               /\ u.conn[j].idle_queued = t.conn[j].idle_queued
      /\ u.conn[i].phase = "canceling" /\ ~u.conn[i].idle_queued
  BY <1>1, <1>2, <1>3 DEF SameConnection, Finished
<1>6. Receives(u)
  BY <1>5, Zenon DEF Receives, OthersReceive
<1>7. Effect(t, u)
  BY <1>1, <1>2, <1>3, <1>5, Zenon DEF Effect, Keeps, SameTable, Finished
<1> QED
  BY <1>3, <1>4, <1>5, <1>6, <1>7 DEF Handled

\* SameTable and Keeps make an effect.
LEMMA EffectOf ==
  ASSUME NEW t, NEW u, NEW X, TableInv(t, X), Keeps(t, u), SameTable(t, u)
  PROVE  Effect(t, u)
<1>1. Len(t.active) \in Nat
  BY DEF TableInv, Tables
<1> QED
  BY <1>1 DEF Effect, SameTable

\* The effects of two calls in a row, on one connection.
LEMMA EffectTransitive ==
  ASSUME NEW t, NEW v, NEW u, Keeps(t, v), SameTable(t, v), Effect(v, u)
  PROVE  Effect(t, u)
BY Zenon DEF Effect, Keeps, SameTable

\* drainConnection keeps the table.
LEMMA DrainInv ==
  ASSUME NEW t, NEW X, NEW i \in Slot, TableInv(t, X), OthersReceive(t, i),
         t.conn[i].fd # NoDescriptor, t.conn[i].phase # "canceling", "send" \notin t.conn[i].ops
  PROVE  Handled(t, drainConnection(t, i), X)
<1> DEFINE v == removeIdle(t, i)
           w == Ends(v, i, "drain")
           u == queueReceive(w, i)
<1>1. /\ TableInv(v, X) /\ SameTable(t, v)
      /\ \A j \in Slot : SameConnection(t.conn[j], v.conn[j])
      /\ \A j \in Slot \ {i} : v.conn[j].idle_queued = t.conn[j].idle_queued
      /\ ~v.conn[i].idle_queued
  BY RemoveIdleInv, Zenon
<1>2. "send" \notin v.conn[i].ops
  BY <1>1, Zenon DEF SameConnection
<1> HIDE DEF v
<1>3. /\ TableInv(w, X) /\ SameTable(v, w)
      /\ \A j \in Slot \ {i} : w.conn[j] = v.conn[j]
      /\ w.conn[i].fd = v.conn[i].fd /\ w.conn[i].ops = v.conn[i].ops
  BY <1>1, <1>2, EndsInv
<1> HIDE DEF w
<1>4. /\ w.conn[i].fd # NoDescriptor /\ OthersReceive(w, i)
      /\ Keeps(t, w) /\ SameTable(t, w)
  <2>1. w.conn[i].fd # NoDescriptor
    BY <1>1, <1>3, Zenon DEF SameConnection
  <2>5. ASSUME NEW j \in Slot
        PROVE  w.conn[j].ops = t.conn[j].ops /\ (j # i => w.conn[j] = v.conn[j])
    BY <1>1, <1>3, Zenon DEF SameConnection
  <2>2. OthersReceive(w, i)
    BY <1>1, <2>5 DEF OthersReceive
  <2>3. Keeps(t, w)
    <3>1. \A j \in Slot : w.conn[j].phase = "canceling" \/ t.conn[j].phase # "canceling"
      BY <1>1, <1>3 DEF SameConnection
    <3> QED
      BY <2>5, <3>1, Zenon DEF Keeps
  <2>4. SameTable(t, w)
    BY <1>1, <1>3, Zenon DEF SameTable
  <2> QED
    BY <2>1, <2>2, <2>3, <2>4
<1>5. TableInv(u, X) /\ Receives(u) /\ Keeps(w, u) /\ SameTable(w, u)
  BY <1>3, <1>4, QueueReceiveInv
<1>6. drainConnection(t, i) = u
  BY Zenon DEF drainConnection, v, w
<1> HIDE DEF u
<1>7. Effect(w, u)
  BY <1>3, <1>5, EffectOf
<1>8. Effect(t, u)
  BY <1>4, <1>7, EffectTransitive, Zenon
<1> QED
  BY <1>5, <1>6, <1>8 DEF Handled

(***************************************************************************)
(* The handlers of a connection                                            *)
(***************************************************************************)
\* A connection that a handler may work on.
Served(t, X, i) ==
  /\ TableInv(t, X) /\ OthersReceive(t, i)
  /\ t.conn[i].fd # NoDescriptor /\ t.conn[i].phase # "canceling"

\* The slot's own view of the operators used above.
LEMMA ServedFacts ==
  ASSUME NEW t, NEW X, NEW i \in Slot, Served(t, X, i)
  PROVE  /\ t.conn[i] \in Connection /\ Settled(t.conn[i], i)
         /\ t.conn[i].phase \in {"reading", "writing", "drain"}
         /\ t.conn[i].phase # "writing" => "send" \notin t.conn[i].ops
<1>1. t.conn[i] \in Connection /\ Settled(t.conn[i], i)
  BY ConnTyped, Zenon DEF Served, TableInv
<1> QED
  BY <1>1, Zenon DEF Settled, Connection, Served

\* processInput, as far as the table sees it, keeps the table.
LEMMA ParseInv ==
  ASSUME NEW t, NEW X, NEW i \in Slot, Served(t, X, i), t.conn[i].phase = "reading",
         NEW u \in Parse(t, i)
  PROVE  Handled(t, u, X)
<1> DEFINE v == removeIdle(t, i)
           d == [v.conn[i] EXCEPT !.started = TRUE]
           begun == WithConn(v, i, d)
<1>1. /\ TableInv(v, X) /\ SameTable(t, v)
      /\ \A j \in Slot : SameConnection(t.conn[j], v.conn[j])
      /\ \A j \in Slot \ {i} : v.conn[j].idle_queued = t.conn[j].idle_queued
      /\ ~v.conn[i].idle_queued
  BY RemoveIdleInv, Zenon DEF Served
<1>2. u \in {queueReceive(begun, i), queueSend(begun, i), forceClose(begun, i), drainConnection(t, i)}
  BY Zenon DEF Parse, WithConn
<1> HIDE DEF v
<1>3. v.conn[i] \in Connection /\ Settled(v.conn[i], i) /\ v.conn[i].phase = "reading" /\ v.conn[i].fd # NoDescriptor
  BY <1>1, ConnTyped DEF TableInv, SameConnection, Served
<1>4. /\ d \in Connection /\ SamePlace(v.conn[i], d) /\ d.ops = v.conn[i].ops /\ d.phase = v.conn[i].phase
      /\ d.started
  BY <1>3, Zenon DEF Connection, SamePlace
<1> HIDE DEF d
<1>5. Settled(d, i)
  <2>1. ~d.idle_queued /\ d.fd = v.conn[i].fd /\ d.ops = v.conn[i].ops /\ d.phase = "reading"
    BY <1>1, <1>3, <1>4 DEF SamePlace
  <2>2. "send" \notin v.conn[i].ops
    BY <1>3, Zenon DEF Settled
  <2> QED
    BY <2>1, <2>2, <1>3, Zenon DEF Settled
<1>6. /\ TableInv(begun, X) /\ SameTable(v, begun)
      /\ \A j \in Slot : begun.conn[j] = IF j = i THEN d ELSE v.conn[j]
  <2>1. d \in Connection /\ SamePlace(v.conn[i], d) /\ TableInv(v, X)
    BY <1>1, <1>4
  <2>2. TableInv(WithConn(v, i, d), X)
    BY <2>1, <1>5, UpdateInv, Zenon
  <2>3. SameTable(v, WithConn(v, i, d))
    BY <2>1, <1>5, UpdateInv, Zenon
  <2>4. \A j \in Slot : WithConn(v, i, d).conn[j] = IF j = i THEN d ELSE v.conn[j]
    BY <2>1, <1>5, UpdateInv
  <2> QED
    BY <2>2, <2>3, <2>4, Zenon
<1> HIDE DEF begun
<1>7. /\ OthersReceive(begun, i) /\ Keeps(t, begun) /\ SameTable(t, begun)
  <2>1. OthersReceive(begun, i)
    <3> SUFFICES ASSUME NEW j \in Slot \ {i}, begun.conn[j].idle_queued
                 PROVE  "receive" \in begun.conn[j].ops
      BY DEF OthersReceive
    <3>1. begun.conn[j] = v.conn[j]
      BY <1>6, Zenon
    <3>2. t.conn[j].idle_queued /\ v.conn[j].ops = t.conn[j].ops
      BY <1>1, <3>1, Zenon DEF SameConnection
    <3> QED
      BY <3>1, <3>2 DEF Served, OthersReceive
  <2>2. Keeps(t, begun)
    <3> SUFFICES ASSUME NEW j \in Slot
                 PROVE  t.conn[j].ops = begun.conn[j].ops /\ t.conn[j].phase = begun.conn[j].phase
      BY Zenon DEF Keeps
    <3>1. v.conn[j].ops = t.conn[j].ops /\ v.conn[j].phase = t.conn[j].phase
      BY <1>1, Zenon DEF SameConnection
    <3>2. begun.conn[j] = IF j = i THEN d ELSE v.conn[j]
      BY <1>6
    <3> QED
      BY <1>4, <3>1, <3>2
  <2>3. SameTable(t, begun)
    BY <1>1, <1>6, Zenon DEF SameTable
  <2> QED
    BY <2>1, <2>2, <2>3
<1>8. begun.conn[i].fd # NoDescriptor /\ begun.conn[i].started /\ begun.conn[i].phase = "reading"
  BY <1>3, <1>4, <1>6, Zenon DEF SamePlace
<1>9. Handled(begun, queueReceive(begun, i), X)
  BY <1>6, <1>7, <1>8, QueueReceiveInv, EffectOf, Zenon DEF Handled
<1>10. Handled(begun, queueSend(begun, i), X)
  BY <1>6, <1>7, <1>8, QueueSendInv, EffectOf, Zenon DEF Handled
<1>11. Handled(begun, forceClose(begun, i), X)
  BY <1>6, <1>7, ForceCloseInv, Zenon
<1>12. Handled(t, drainConnection(t, i), X)
  <2>1. "send" \notin t.conn[i].ops
    BY ServedFacts, Zenon
  <2> QED
    BY <2>1, DrainInv DEF Served
<1>13. \A w : Handled(begun, w, X) => Handled(t, w, X)
  BY <1>7, EffectTransitive, Zenon DEF Handled
<1> QED
  BY <1>2, <1>9, <1>10, <1>11, <1>12, <1>13

\* The handler of a receive keeps the table.
LEMMA ReceivedInv ==
  ASSUME NEW t, NEW X, NEW i \in Slot, Served(t, X, i), NEW result \in {"data", "eof", "canceled"},
         t.conn[i].phase = "writing" => ~t.conn[i].idle_queued,
         NEW u \in received(t, i, result)
  PROVE  Handled(t, u, X)
<1> DEFINE c == t.conn[i]
<1>1. c.phase \in {"reading", "writing", "drain"} /\ TableInv(t, X) /\ OthersReceive(t, i)
  BY ServedFacts, Zenon DEF Served
<1>2. Handled(t, forceClose(t, i), X)
  BY <1>1, ForceCloseInv, Zenon
<1>3. Handled(t, queueReceive(t, i), X)
  BY <1>1, QueueReceiveInv, EffectOf, Zenon DEF Handled, Served
<1>4. c.started => Handled(t, queueSend(t, i), X)
  BY <1>1, QueueSendInv, EffectOf, Zenon DEF Handled, Served
<1>5. c.phase = "writing" => Handled(t, t, X)
  <2>1. c.phase = "writing" => Receives(t)
    BY <1>1 DEF Receives, OthersReceive
  <2>2. Keeps(t, t) /\ SameTable(t, t)
    BY DEF Keeps, SameTable
  <2> QED
    BY <1>1, <2>1, <2>2, EffectOf, Zenon DEF Handled
<1>6. CASE c.phase = "reading"
  <2>1. CASE result = "data"
    <3>1. u \in Parse(t, i)
      BY <1>6, <2>1, Zenon DEF received
    <3> QED
      BY <3>1, <1>6, ParseInv
  <2>2. CASE result # "data"
    <3>1. u = forceClose(t, i) \/ (c.started /\ u = queueSend(t, i))
      BY <1>6, <2>2 DEF received
    <3> QED
      BY <3>1, <1>2, <1>4
  <2> QED
    BY <2>1, <2>2
<1>7. CASE c.phase = "writing"
  <2>1. u = forceClose(t, i) \/ u = t
    BY <1>7 DEF received
  <2> QED
    BY <2>1, <1>2, <1>5, <1>7
<1>8. CASE c.phase = "drain"
  <2>1. u = forceClose(t, i) \/ u = queueReceive(t, i)
    BY <1>8, Zenon DEF received
  <2> QED
    BY <2>1, <1>2, <1>3
<1> QED
  BY <1>1, <1>6, <1>7, <1>8

\* finishResponse keeps the table.
LEMMA FinishResponseInv ==
  ASSUME NEW t, NEW X, NEW i \in Slot, Served(t, X, i), "send" \notin t.conn[i].ops,
         NEW u \in finishResponse(t, i)
  PROVE  Handled(t, u, X)
<1> DEFINE x == [t.conn[i] EXCEPT !.served = TRUE]
           d == WithConn(t, i, x)
           y == [d.conn[i] EXCEPT !.phase = "reading", !.started = FALSE]
           e == WithConn(d, i, y)
<1>1. u \in {drainConnection(d, i), queueReceive(e, i)} \cup Parse(e, i)
  BY Zenon DEF finishResponse, WithConn
<1>2. t.conn[i] \in Connection /\ Settled(t.conn[i], i) /\ TableInv(t, X) /\ OthersReceive(t, i)
  BY ServedFacts DEF Served
<1>3. /\ x \in Connection /\ SamePlace(t.conn[i], x) /\ x.ops = t.conn[i].ops
      /\ x.phase = t.conn[i].phase /\ x.started = t.conn[i].started /\ x.served
  BY <1>2, Zenon DEF Connection, SamePlace
<1> HIDE DEF x
<1>4. Settled(x, i)
  BY <1>2, <1>3, Zenon DEF Settled, SamePlace
<1>5. /\ TableInv(d, X) /\ SameTable(t, d)
      /\ \A j \in Slot : d.conn[j] = IF j = i THEN x ELSE t.conn[j]
  <2>1. x \in Connection /\ SamePlace(t.conn[i], x) /\ TableInv(t, X)
    BY <1>2, <1>3, Zenon
  <2>2. TableInv(WithConn(t, i, x), X)
    BY <2>1, <1>4, UpdateInv
  <2>3. SameTable(t, WithConn(t, i, x))
    BY <2>1, <1>4, UpdateInv, Zenon
  <2>4. \A j \in Slot : WithConn(t, i, x).conn[j] = IF j = i THEN x ELSE t.conn[j]
    BY <2>1, <1>4, UpdateInv
  <2> QED
    BY <2>2, <2>3, <2>4
<1> HIDE DEF d
<1>6. d.conn[i] = x /\ \A j \in Slot \ {i} : d.conn[j] = t.conn[j]
  BY <1>5
<1>7. /\ y \in Connection /\ SamePlace(x, y) /\ y.ops = x.ops
      /\ y.phase = "reading" /\ ~y.started /\ y.served = x.served
  BY <1>3, <1>6, Zenon DEF Connection, SamePlace
<1> HIDE DEF y
<1>8. Settled(y, i)
  BY <1>3, <1>4, <1>7, Zenon DEF Settled, SamePlace
<1>9. /\ TableInv(e, X) /\ SameTable(d, e)
      /\ \A j \in Slot : e.conn[j] = IF j = i THEN y ELSE d.conn[j]
  <2>1. y \in Connection /\ SamePlace(d.conn[i], y) /\ TableInv(d, X)
    BY <1>5, <1>6, <1>7, Zenon
  <2>2. TableInv(WithConn(d, i, y), X)
    BY <2>1, <1>8, UpdateInv, Zenon
  <2>3. SameTable(d, WithConn(d, i, y))
    BY <2>1, <1>8, UpdateInv, Zenon
  <2>4. \A j \in Slot : WithConn(d, i, y).conn[j] = IF j = i THEN y ELSE d.conn[j]
    BY <2>1, <1>8, UpdateInv
  <2> QED
    BY <2>2, <2>3, <2>4
<1> HIDE DEF e
<1>10. Keeps(t, d) /\ Keeps(t, e) /\ SameTable(t, d) /\ SameTable(t, e)
  <2>1. t.conn[i].phase # "canceling"
    BY Zenon DEF Served
  <2>2. Keeps(t, d)
    BY <1>3, <1>6, Zenon DEF Keeps
  <2>3. \A j \in Slot \ {i} : e.conn[j] = t.conn[j]
    BY <1>6, <1>9, Zenon
  <2>4. e.conn[i].ops = t.conn[i].ops
    BY <1>3, <1>7, <1>9, Zenon
  <2>5. Keeps(t, e)
    BY <2>1, <2>3, <2>4 DEF Keeps
  <2>6. SameTable(t, d) /\ SameTable(t, e)
    BY <1>5, <1>9, Zenon DEF SameTable
  <2> QED
    BY <2>2, <2>5, <2>6
<1>11. Served(d, X, i) /\ "send" \notin d.conn[i].ops
  BY <1>3, <1>5, <1>6, Zenon DEF Served, OthersReceive, SamePlace
<1>12. Served(e, X, i) /\ e.conn[i].phase = "reading"
  BY <1>3, <1>6, <1>7, <1>9 DEF Served, OthersReceive, SamePlace
<1>13. Handled(d, drainConnection(d, i), X)
  BY <1>11, DrainInv, Zenon DEF Served
<1>14. Handled(e, queueReceive(e, i), X)
  BY <1>12, QueueReceiveInv, EffectOf DEF Handled, Served
<1>15. \A w \in Parse(e, i) : Handled(e, w, X)
  BY <1>12, ParseInv, Zenon
<1>16. \A w : (Handled(d, w, X) => Handled(t, w, X)) /\ (Handled(e, w, X) => Handled(t, w, X))
  BY <1>10, EffectTransitive DEF Handled
<1> QED
  BY <1>1, <1>13, <1>14, <1>15, <1>16

\* The handler of a send keeps the table.
LEMMA SentInv ==
  ASSUME NEW t, NEW X, NEW i \in Slot, Served(t, X, i), "send" \notin t.conn[i].ops,
         t.conn[i].phase = "writing", NEW result \in {"all", "part", "error"},
         NEW u \in sent(t, i, result)
  PROVE  Handled(t, u, X)
<1>1. t.conn[i].started /\ TableInv(t, X)
  BY ServedFacts DEF Served, Settled
<1>2. CASE result = "all"
  BY <1>2, FinishResponseInv DEF sent
<1>3. CASE result = "part"
  BY <1>1, <1>3, QueueSendInv, EffectOf DEF sent, Handled, Served
<1>4. CASE result = "error"
  BY <1>4, ForceCloseInv, Zenon DEF sent, Served
<1> QED
  BY <1>2, <1>3, <1>4, Zenon

\* What tick does with a connection whose deadline has passed keeps the table.
LEMMA ExpiredInv ==
  ASSUME NEW t, NEW X, NEW i \in Slot, TableInv(t, X), Receives(t), t.conn[i].fd # NoDescriptor,
         NEW u \in Expired(t, i)
  PROVE  Handled(t, u, X)
<1>1. OthersReceive(t, i) /\ t.conn[i] \in Connection /\ Settled(t.conn[i], i)
  BY ConnTyped DEF Receives, OthersReceive, TableInv
<1>2. CASE t.conn[i].phase = "canceling"
  <2>1. u = t
    BY <1>2 DEF Expired
  <2>2. Keeps(t, t) /\ SameTable(t, t)
    BY DEF Keeps, SameTable
  <2> QED
    BY <2>1, <2>2, EffectOf, Zenon DEF Handled
<1>3. CASE t.conn[i].phase # "canceling"
  <2>1. Handled(t, forceClose(t, i), X)
    BY <1>1, ForceCloseInv, Zenon
  <2>2. ASSUME t.conn[i].phase # "drain", ~t.conn[i].started PROVE Handled(t, drainConnection(t, i), X)
    <3>1. "send" \notin t.conn[i].ops
      BY <1>1, <1>3, <2>2, Zenon DEF Settled
    <3> QED
      BY <3>1, <1>1, <1>3, DrainInv, Zenon
  <2>3. ASSUME t.conn[i].started PROVE Handled(t, queueSend(t, i), X)
    BY <1>1, <1>3, <2>3, QueueSendInv, EffectOf, Zenon DEF Handled
  <2>4. \/ u = forceClose(t, i)
        \/ t.conn[i].phase # "drain" /\ ~t.conn[i].started /\ u = drainConnection(t, i)
        \/ t.conn[i].started /\ u = queueSend(t, i)
    BY <1>3 DEF Expired
  <2> QED
    BY <2>1, <2>2, <2>3, <2>4, Zenon
<1> QED
  BY <1>2, <1>3, Zenon

(***************************************************************************)
(* Accepting                                                               *)
(***************************************************************************)
\* Tables that differ in descriptors and listeners only.
LEMMA OwnedInv ==
  ASSUME NEW t, NEW X, NEW Y, NEW u \in Tables, TableInv(t, X), Owned(u, Y),
         u.conn = t.conn, u.free = t.free, u.active = t.active, u.idle = t.idle
  PROVE  TableInv(u, Y)
<1>1. ActiveExact(u) /\ FreeExact(u) /\ \A i \in Slot : Settled(u.conn[i], i)
  <2>1. ActiveExact(u)
    BY Zenon DEF TableInv, ActiveExact
  <2>2. FreeExact(u)
    <3>1. FreeExact(t)
      BY DEF TableInv
    <3> QED
      BY <3>1 DEF FreeExact
  <2> QED
    BY <2>1, <2>2, Zenon DEF TableInv
<1>2. IdleChain(u)
  <2>1. IdleChain(t)
    BY Zenon DEF TableInv
  <2> QED
    BY <2>1, ChainKept
<1> QED
  BY <1>1, <1>2 DEF TableInv

\* A descriptor in hand is closed.
LEMMA CloseInv ==
  ASSUME NEW t, NEW Y, NEW fd \in Descriptor \cap Y, TableInv(t, Y)
  PROVE  LET u == close(t, fd)
         IN  /\ TableInv(u, Y \ {fd})
             /\ u.conn = t.conn /\ u.free = t.free /\ u.active = t.active /\ u.idle = t.idle
             /\ u.waiting = t.waiting /\ u.retry = t.retry /\ u.accepting = t.accepting
<1> DEFINE o == [t.open EXCEPT ![fd] = @ - 1]
           u == close(t, fd)
<1>1. t \in Tables /\ Owned(t, Y) /\ t.open \in [Descriptor -> Int]
  BY DEF TableInv, Tables
<1>1a. o \in [Descriptor -> Int]
  BY <1>1
<1>1b. u = [t EXCEPT !.open = o]
  BY <1>1 DEF close, Tables
<1>1c. o = [t.open EXCEPT ![fd] = @ - 1]
  OBVIOUS
<1> HIDE DEF o, u
<1>2. /\ u \in Tables
      /\ u.conn = t.conn /\ u.free = t.free /\ u.active = t.active /\ u.idle = t.idle
      /\ u.waiting = t.waiting /\ u.retry = t.retry /\ u.accepting = t.accepting
      /\ u.open = [t.open EXCEPT ![fd] = @ - 1]
  <2>1. u.open = o /\ u.conn = t.conn /\ u.free = t.free /\ u.active = t.active /\ u.idle = t.idle
        /\ u.waiting = t.waiting /\ u.retry = t.retry /\ u.accepting = t.accepting
    BY <1>1, <1>1b DEF Tables
  <2>2. u \in Tables
    BY <1>1, <1>1a, <1>1b, Zenon DEF Tables
  <2> QED
    BY <1>1c, <2>1, <2>2
<1>3. /\ \A i \in Slot : t.conn[i].fd # NoDescriptor => t.conn[i].fd \notin Y
      /\ t.waiting.fd \notin Y
      /\ \A f \in Descriptor :
           t.open[f] = IF f \in Y \/ t.waiting.fd = f \/ \E i \in Slot : t.conn[i].fd = f THEN 1 ELSE 0
  BY <1>1 DEF Owned
<1>4. fd # NoDescriptor
  BY SlotsAssumption
<1>5. ASSUME NEW f \in Descriptor
      PROVE  u.open[f] = IF f \in Y \ {fd} \/ u.waiting.fd = f \/ \E i \in Slot : u.conn[i].fd = f
                         THEN 1 ELSE 0
  <2>1. CASE f = fd
    <3>1. t.waiting.fd # f /\ \A i \in Slot : t.conn[i].fd # f
      BY <1>3, <1>4, <2>1
    <3>2. t.open[f] = 1
      BY <1>3, <2>1
    <3> QED
      BY <1>1, <1>2, <2>1, <3>1, <3>2
  <2>2. CASE f # fd
    BY <1>1, <1>2, <1>3, <2>2
  <2> QED
    BY <2>1, <2>2
<1>6. Owned(u, Y \ {fd})
  BY <1>1, <1>2, <1>5 DEF Owned
<1> QED
  BY <1>2, <1>6, OwnedInv, Zenon DEF u

\* An accepted descriptor begins to wait.
LEMMA WaitInv ==
  ASSUME NEW t, NEW Y, NEW fd \in Descriptor \cap Y, TableInv(t, Y), t.waiting.fd = NoDescriptor
  PROVE  LET u == Wait(t, fd)
         IN  /\ TableInv(u, Y \ {fd})
             /\ u.conn = t.conn /\ u.accepting = t.accepting
             /\ u.waiting = [NotWaiting EXCEPT !.fd = fd]
<1> DEFINE u == Wait(t, fd)
           w == [NotWaiting EXCEPT !.fd = fd]
<1>1. t \in Tables /\ Owned(t, Y)
  BY DEF TableInv
<1>2. w \in [fd: Descriptor \cup {NoDescriptor}, reclaimed: BOOLEAN, late: BOOLEAN] /\ w.fd = fd
  BY Zenon DEF NotWaiting
<1>3. u = [t EXCEPT !.waiting = w]
  BY DEF Wait
<1> HIDE DEF u, w
<1>4. /\ u \in Tables
      /\ u.conn = t.conn /\ u.free = t.free /\ u.active = t.active /\ u.idle = t.idle
      /\ u.open = t.open /\ u.accepting = t.accepting /\ u.waiting = w
  BY <1>1, <1>2, <1>3, Zenon DEF Tables
<1>5. fd # NoDescriptor
  BY SlotsAssumption, Zenon
<1>6. Owned(u, Y \ {fd})
  <2>1. /\ \A i, j \in Slot : t.conn[i].fd = t.conn[j].fd => i = j \/ t.conn[i].fd = NoDescriptor
        /\ \A i \in Slot : t.conn[i].fd # NoDescriptor => t.conn[i].fd \notin Y
        /\ \A f \in Descriptor :
             t.open[f] = IF f \in Y \/ t.waiting.fd = f \/ \E i \in Slot : t.conn[i].fd = f THEN 1 ELSE 0
    BY <1>1 DEF Owned
  <2>2. \A f \in Descriptor : t.waiting.fd # f
    BY SlotsAssumption
  <2>3. \A f \in Descriptor : (f \in Y \/ t.waiting.fd = f) <=> (f \in Y \ {fd} \/ u.waiting.fd = f)
    BY <1>2, <1>4, <2>2
  <2>4. u.waiting.fd = fd
    BY <1>2, <1>4, Zenon
  <2>5. \A f \in Descriptor :
          u.open[f] = IF f \in Y \ {fd} \/ u.waiting.fd = f \/ \E i \in Slot : u.conn[i].fd = f THEN 1 ELSE 0
    BY <2>1, <2>3, <1>4
  <2> QED
    BY <2>1, <2>4, <2>5, <1>4 DEF Owned
<1>7. TableInv(u, Y \ {fd})
  BY <1>4, <1>6, OwnedInv
<1> QED
  BY <1>4, <1>7 DEF u, w

\* The waiting descriptor is taken in hand.
LEMMA UnwaitInv ==
  ASSUME NEW t, NEW X, NoDescriptor \notin X, TableInv(t, X), t.waiting.fd # NoDescriptor
  PROVE  LET u == [t EXCEPT !.waiting = NotWaiting]
         IN  /\ TableInv(u, X \cup {t.waiting.fd}) /\ t.waiting.fd \notin X
             /\ t.waiting.fd \in Descriptor
             /\ u.conn = t.conn /\ u.accepting = t.accepting /\ u.free = t.free /\ u.waiting = NotWaiting
<1> DEFINE u == [t EXCEPT !.waiting = NotWaiting]
           fd == t.waiting.fd
<1>1. t \in Tables /\ Owned(t, X) /\ fd \in Descriptor
  BY DEF TableInv, Tables
<1>2. NotWaiting \in [fd: Descriptor \cup {NoDescriptor}, reclaimed: BOOLEAN, late: BOOLEAN]
      /\ NotWaiting.fd = NoDescriptor
  BY DEF NotWaiting
<1>3. /\ u \in Tables
      /\ u.conn = t.conn /\ u.free = t.free /\ u.active = t.active /\ u.idle = t.idle
      /\ u.open = t.open /\ u.accepting = t.accepting /\ u.waiting = NotWaiting
  BY <1>1, <1>2, Zenon DEF Tables
<1> HIDE DEF u
<1>4. Owned(u, X \cup {fd}) /\ fd \notin X
  <2>1. /\ \A i, j \in Slot : t.conn[i].fd = t.conn[j].fd => i = j \/ t.conn[i].fd = NoDescriptor
        /\ \A i \in Slot : t.conn[i].fd # NoDescriptor => t.conn[i].fd \notin X /\ t.conn[i].fd # fd
        /\ fd \notin X
        /\ \A f \in Descriptor :
             t.open[f] = IF f \in X \/ fd = f \/ \E i \in Slot : t.conn[i].fd = f THEN 1 ELSE 0
    BY <1>1 DEF Owned
  <2>2. u.waiting.fd = NoDescriptor /\ NoDescriptor \notin Descriptor
    BY <1>2, <1>3, SlotsAssumption
  <2>3. \A f \in Descriptor :
          u.open[f] = IF f \in X \cup {fd} \/ u.waiting.fd = f \/ \E i \in Slot : u.conn[i].fd = f THEN 1 ELSE 0
    BY <2>1, <2>2, <1>3
  <2>4. NoDescriptor \notin X \cup {fd}
    BY <2>1, <2>2, <1>1, Zenon
  <2>5. \A i, j \in Slot : u.conn[i].fd = u.conn[j].fd => i = j \/ u.conn[i].fd = NoDescriptor
    BY <2>1, <1>3
  <2>6. \A i \in Slot : u.conn[i].fd # NoDescriptor =>
          u.conn[i].fd \notin X \cup {fd} /\ u.conn[i].fd # u.waiting.fd
    BY <2>1, <2>2, <1>3, Zenon
  <2> QED
    BY <2>1, <2>2, <2>3, <2>4, <2>5, <2>6, Zenon DEF Owned
<1> QED
  BY <1>1, <1>3, <1>4, OwnedInv, Zenon DEF u

\* What Open assigns.
Opened(t, u, fd, i) ==
  /\ u \in Tables
  /\ u.free = [t.free EXCEPT ![List(i)] = Tail(@)]
  /\ u.active = Append(t.active, i)
  /\ u.idle = t.idle /\ u.open = t.open /\ u.waiting = t.waiting /\ u.accepting = t.accepting
  /\ u.conn[i].fd = fd /\ u.conn[i].phase = "reading" /\ u.conn[i].ops = {}
  /\ u.conn[i].active_position = Len(t.active)
  /\ u.conn[i].idle_queued = FALSE /\ u.conn[i].started = FALSE
  /\ \A j \in Slot \ {i} : u.conn[j] = t.conn[j]

\* What opening a connection in a slot assigns.
LEMMA OpenFields ==
  ASSUME NEW t \in Tables, NEW fd \in Descriptor, NEW i \in Slot, t.free[List(i)] # <<>>
  PROVE  Opened(t, Open(t, fd, i), fd, i)
<1> DEFINE d == [Vacant EXCEPT !.fd = fd, !.phase = "reading", !.active_position = Len(t.active)]
           f == [t.free EXCEPT ![List(i)] = Tail(@)]
           a == Append(t.active, i)
           c == [t.conn EXCEPT ![i] = d]
           u == Open(t, fd, i)
<1>1. t.active \in Seq(Slot) /\ Len(t.active) \in Nat
  BY DEF Tables
<1>2. d \in Connection
  BY <1>1, Zenon DEF Vacant, Connection
<1>3. a \in Seq(Slot)
  BY <1>1
<1>4. f \in [public: Seq(Slot), admin: Seq(Slot)]
  <2>1. t.free \in [public: Seq(Slot), admin: Seq(Slot)] /\ List(i) \in {"public", "admin"}
    BY DEF Tables, List
  <2>2. t.free[List(i)] \in Seq(Slot)
    BY <2>1
  <2>3. Tail(t.free[List(i)]) \in Seq(Slot)
    BY <2>2
  <2> QED
    BY <2>1, <2>3, Zenon
<1>5. c \in [Slot -> Connection]
  BY <1>2 DEF Tables
<1>6. u = [t EXCEPT !.free = f, !.active = a, !.conn = c]
  BY DEF Open, Tables
<1>7. /\ d.fd = fd /\ d.phase = "reading" /\ d.ops = {} /\ d.active_position = Len(t.active)
      /\ d.idle_queued = FALSE /\ d.started = FALSE
  BY DEF Vacant
<1>8. c[i] = d /\ \A j \in Slot \ {i} : c[j] = t.conn[j]
  BY DEF Tables
<1> HIDE DEF d, f, a, c, u
<1>9. /\ u \in Tables /\ u.free = f /\ u.active = a /\ u.conn = c
      /\ u.idle = t.idle /\ u.open = t.open /\ u.waiting = t.waiting /\ u.accepting = t.accepting
  BY <1>3, <1>4, <1>5, <1>6, Zenon DEF Tables
<1> QED
  BY <1>7, <1>8, <1>9, Zenon DEF Opened, u, f, a

\* Slot i has been taken from its free list.
Taken(t, u, X, fd, i) ==
  /\ i \in Slot /\ t.conn[i].fd = NoDescriptor /\ t.conn[i].ops = {}
  /\ TableInv(u, X) /\ Keeps(t, u)
  /\ \A j \in Slot \ {i} : u.conn[j] = t.conn[j]
  /\ u.conn[i].fd = fd /\ u.conn[i].phase = "reading"
  /\ u.waiting = t.waiting /\ u.accepting = t.accepting

\* A slot joins the m active ones.
Pushed(t, u, i, m) ==
  /\ Len(t.active) = m /\ Len(u.active) = m + 1
  /\ \A n \in 1 .. m : t.active[n] \in Slot /\ u.active[n] = t.active[n]
  /\ u.active[m + 1] = i
  /\ \A j \in Slot : t.conn[j].active_position \in Nat
  /\ t.conn[i].fd = NoDescriptor /\ u.conn[i].fd # NoDescriptor /\ u.conn[i].active_position = m
  /\ \A j \in Slot \ {i} : u.conn[j] = t.conn[j]

\* It is in the array at its position.
LEMMA ActivePush ==
  ASSUME NEW t, NEW u, NEW i \in Slot, NEW m \in Nat, Pushed(t, u, i, m), ActiveExact(t)
  PROVE  ActiveExact(u)
<1>1. /\ Len(u.active) = m + 1 /\ u.active[m + 1] = i
      /\ \A n \in 1 .. m : t.active[n] \in Slot /\ u.active[n] = t.active[n]
  BY DEF Pushed
<1>2. /\ t.conn[i].fd = NoDescriptor /\ u.conn[i].fd # NoDescriptor /\ u.conn[i].active_position = m
      /\ \A j \in Slot \ {i} : u.conn[j] = t.conn[j]
      /\ \A j \in Slot : t.conn[j].active_position \in Nat
  BY Zenon DEF Pushed
<1>3. \A j \in Slot : t.conn[j].fd # NoDescriptor =>
        t.conn[j].active_position < m /\ t.active[t.conn[j].active_position + 1] = j
  BY Zenon DEF ActiveExact, Pushed
<1>4. \A n \in 1 .. m : t.conn[t.active[n]].fd # NoDescriptor /\ t.conn[t.active[n]].active_position = n - 1
  BY DEF ActiveExact, Pushed
<1>5. ASSUME NEW j \in Slot, u.conn[j].fd # NoDescriptor
      PROVE  u.conn[j].active_position < m + 1 /\ u.active[u.conn[j].active_position + 1] = j
  <2>1. CASE j = i
    BY <2>1, <1>1, <1>2
  <2>2. CASE j # i
    <3> DEFINE k == t.conn[j].active_position
    <3>1. u.conn[j] = t.conn[j] /\ k \in Nat
      BY <2>2, <1>2, Zenon
    <3>2. k < m /\ t.active[k + 1] = j
      BY <1>3, <1>5, <3>1
    <3>3. u.conn[j].active_position = k
      BY <3>1
    <3> HIDE DEF k
    <3>4. k + 1 \in 1 .. m /\ k < m + 1
      BY <3>1, <3>2
    <3>5. u.active[k + 1] = j
      BY <3>2, <3>4, <1>1, Zenon
    <3> QED
      BY <3>3, <3>4, <3>5
  <2> QED
    BY <2>1, <2>2
<1>6. ASSUME NEW n \in 1 .. m + 1
      PROVE  u.conn[u.active[n]].fd # NoDescriptor /\ u.conn[u.active[n]].active_position = n - 1
  <2>1. CASE n = m + 1
    BY <2>1, <1>1, <1>2
  <2>2. CASE n # m + 1
    <3>1. n \in 1 .. m
      BY <2>2
    <3>2. t.active[n] \in Slot /\ u.active[n] = t.active[n]
      BY <3>1, <1>1
    <3>3. t.conn[t.active[n]].fd # NoDescriptor /\ t.conn[t.active[n]].active_position = n - 1
      BY <3>1, <1>4, Zenon
    <3>4. u.conn[t.active[n]] = t.conn[t.active[n]]
      BY <3>2, <3>3, <1>2
    <3> QED
      BY <3>2, <3>3, <3>4
  <2> QED
    BY <2>1, <2>2
<1> QED
  BY <1>1, <1>5, <1>6 DEF ActiveExact

\* i is the first slot of a free list.
FirstFree(t, L, i) == t.free[L] # <<>> /\ i = Head(t.free[L])

\* The first slot of a free list takes a descriptor in hand.
LEMMA OpenInv ==
  ASSUME NEW t, NEW Y, NEW fd \in Descriptor \cap Y, NEW L \in {"public", "admin"},
         TableInv(t, Y), NEW i, FirstFree(t, L, i)
  PROVE  Taken(t, Open(t, fd, i), Y \ {fd}, fd, i)
<1> DEFINE u == Open(t, fd, i)
<1>1. /\ t \in Tables /\ ActiveExact(t) /\ FreeExact(t) /\ IdleChain(t) /\ Owned(t, Y)
      /\ \A j \in Slot : Settled(t.conn[j], j)
      /\ t.active \in Seq(Slot) /\ Len(t.active) \in Nat
      /\ t.free \in [public: Seq(Slot), admin: Seq(Slot)] /\ t.free[L] \in Seq(Slot)
  <2>1. /\ t \in Tables /\ ActiveExact(t) /\ FreeExact(t) /\ IdleChain(t) /\ Owned(t, Y)
        /\ \A j \in Slot : Settled(t.conn[j], j)
    BY Zenon DEF TableInv
  <2>2. t.active \in Seq(Slot) /\ t.free \in [public: Seq(Slot), admin: Seq(Slot)]
    BY <2>1 DEF Tables
  <2>3. Len(t.active) \in Nat /\ t.free[L] \in Seq(Slot)
    BY <2>2
  <2> QED
    BY <2>1, <2>2, <2>3, Zenon
<1>2. i \in Slot /\ i = t.free[L][1] /\ 1 \in 1 .. Len(t.free[L])
  BY <1>1 DEF FirstFree
<1>3. \A l \in {"public", "admin"} : FreeList(t, l, t.free[l])
  BY <1>1, FreeLists
<1>4. List(i) = L /\ t.conn[i].fd = NoDescriptor
  <2>1. FreeList(t, L, t.free[L])
    BY <1>3
  <2>2. \A n \in 1 .. Len(t.free[L]) : List(t.free[L][n]) = L /\ t.conn[t.free[L][n]].fd = NoDescriptor
    BY <2>1, Zenon DEF FreeList
  <2> QED
    BY <2>2, <1>2, Zenon
<1>5. t.conn[i].ops = {} /\ ~t.conn[i].idle_queued
  <2>1. Settled(t.conn[i], i)
    BY <1>1, <1>2, Zenon
  <2> QED
    BY <2>1, <1>4 DEF Settled
<1>6. /\ u \in Tables
      /\ u.free = [t.free EXCEPT ![L] = Tail(@)]
      /\ u.active = Append(t.active, i)
      /\ u.idle = t.idle /\ u.open = t.open /\ u.waiting = t.waiting /\ u.accepting = t.accepting
      /\ u.conn[i].fd = fd /\ u.conn[i].phase = "reading" /\ u.conn[i].ops = {}
      /\ u.conn[i].active_position = Len(t.active)
      /\ u.conn[i].idle_queued = FALSE /\ u.conn[i].started = FALSE
      /\ \A j \in Slot \ {i} : u.conn[j] = t.conn[j]
  <2>1. t \in Tables /\ fd \in Descriptor /\ i \in Slot /\ t.free[List(i)] # <<>>
    BY <1>1, <1>2, <1>4, Zenon DEF FirstFree
  <2>2. Opened(t, u, fd, i)
    BY <2>1, OpenFields
  <2> HIDE DEF u
  <2> QED
    BY <2>2, <1>4, Zenon DEF Opened
<1> HIDE DEF u
<1>7. fd # NoDescriptor /\ fd \in Y
  BY SlotsAssumption
<1>a. /\ u.idle = t.idle /\ u.open = t.open /\ u.waiting = t.waiting /\ u.accepting = t.accepting
      /\ u.conn[i].fd = fd /\ u.conn[i].phase = "reading" /\ u.conn[i].ops = {}
      /\ u.conn[i].active_position = Len(t.active)
      /\ u.conn[i].idle_queued = FALSE /\ u.conn[i].started = FALSE
      /\ \A j \in Slot \ {i} : u.conn[j] = t.conn[j]
  BY <1>6, Zenon
<1>8. ActiveExact(u)
  <2>1. t.active \in Seq(Slot) /\ u.active = Append(t.active, i) /\ i \in Slot
    BY <1>1, <1>2, <1>6, Zenon
  <2>2. /\ Len(u.active) = Len(t.active) + 1 /\ u.active[Len(t.active) + 1] = i
        /\ \A n \in 1 .. Len(t.active) : t.active[n] \in Slot /\ u.active[n] = t.active[n]
    BY <2>1
  <2>3. \A j \in Slot : t.conn[j].active_position \in Nat
    BY <1>1, ConnTyped DEF Connection
  <2>4. ActiveExact(t) /\ Len(t.active) \in Nat
    BY <1>1, Zenon
  <2>5. u.conn[i].fd # NoDescriptor
    BY <1>7, <1>a
  <2> QED
    <3>1. Pushed(t, u, i, Len(t.active))
      BY <2>2, <2>3, <2>5, <1>4, <1>a, Zenon DEF Pushed
    <3> QED
      BY <3>1, <2>1, <2>4, ActivePush, Zenon
<1>9. FreeExact(u)
  <2>1. u.free[L] = Tail(t.free[L]) /\ \A l \in {"public", "admin"} : l # L => u.free[l] = t.free[l]
    BY <1>1, <1>6
  <2>2. FreeList(u, L, Tail(t.free[L]))
    <3>1. t.free[L] \in Seq(Slot) /\ t.free[L] # <<>> /\ FreeList(t, L, t.free[L]) /\ i = Head(t.free[L])
      BY <1>1, <1>3 DEF FirstFree
    <3>2. u.conn[Head(t.free[L])].fd # NoDescriptor
      BY <3>1, <1>a, <1>7, Zenon
    <3>3. \A j \in Slot \ {Head(t.free[L])} : u.conn[j].fd = t.conn[j].fd
      BY <3>1, <1>a, Zenon
    <3> QED
      BY <3>1, <3>2, <3>3, FreePop, Zenon
  <2>3. ASSUME NEW l \in {"public", "admin"}, l # L PROVE FreeList(u, l, t.free[l])
    <3>1. \A j \in Slot : List(j) = l => u.conn[j].fd = t.conn[j].fd
      BY <2>3, <1>4, <1>a
    <3> QED
      BY <3>1, <1>3, FreeOther, Zenon
  <2>4. ASSUME NEW l \in {"public", "admin"} PROVE FreeList(u, l, u.free[l])
    BY <2>1, <2>2, <2>3, Zenon
  <2>5. u \in Tables
    BY <1>6
  <2> QED
    BY <2>4, <2>5, FreeLists, Zenon
<1>10. IdleChain(u)
  <2>1. \A j \in Slot : u.conn[j].idle_queued <=> t.conn[j].idle_queued
    BY <1>5, <1>a, Zenon
  <2>2. \A j \in Slot : t.conn[j].idle_queued =>
          u.conn[j].idle_next = t.conn[j].idle_next /\ u.conn[j].idle_previous = t.conn[j].idle_previous
    BY <1>5, <1>a
  <2>3. IdleChain(t) /\ u.idle = t.idle
    BY <1>1, <1>a, Zenon
  <2> QED
    BY <2>1, <2>2, <2>3, ChainKept, Zenon
<1>11. \A j \in Slot : Settled(u.conn[j], j)
  <2>1. Settled(u.conn[i], i)
    BY <1>a, <1>7 DEF Settled
  <2> QED
    BY <2>1, <1>1, <1>a, Zenon
<1>12. Owned(u, Y \ {fd})
  <2>1. /\ \A j, k \in Slot : t.conn[j].fd = t.conn[k].fd => j = k \/ t.conn[j].fd = NoDescriptor
        /\ \A j \in Slot : t.conn[j].fd # NoDescriptor => t.conn[j].fd \notin Y /\ t.conn[j].fd # t.waiting.fd
        /\ t.waiting.fd \notin Y
    BY <1>1 DEF Owned
  <2>2. ASSUME NEW f \in Descriptor
        PROVE  u.open[f] = IF f \in Y \ {fd} \/ u.waiting.fd = f \/ \E j \in Slot : u.conn[j].fd = f
                           THEN 1 ELSE 0
    <3>1. t.open[f] = IF f \in Y \/ t.waiting.fd = f \/ \E j \in Slot : t.conn[j].fd = f THEN 1 ELSE 0
      BY <1>1 DEF Owned
    <3>2. (\E j \in Slot : u.conn[j].fd = f) <=> (f = fd \/ \E j \in Slot : t.conn[j].fd = f)
      <4>1. t.conn[i].fd # f /\ u.conn[i].fd = fd /\ i \in Slot
        BY <1>2, <1>4, <1>a, SlotsAssumption, Zenon
      <4> QED
        BY <4>1, <1>a, Zenon
    <3> QED
      BY <3>1, <3>2, <1>a, <1>7, Zenon
  <2>3. \A j, k \in Slot : u.conn[j].fd = u.conn[k].fd => j = k \/ u.conn[j].fd = NoDescriptor
    BY <2>1, <1>a, <1>7
  <2>4. \A j \in Slot : u.conn[j].fd # NoDescriptor => u.conn[j].fd \notin Y \ {fd} /\ u.conn[j].fd # u.waiting.fd
    BY <2>1, <1>a, <1>7, Zenon
  <2> QED
    BY <2>1, <2>2, <2>3, <2>4, <1>a, Zenon DEF Owned
<1>13. TableInv(u, Y \ {fd})
  BY <1>6, <1>8, <1>9, <1>10, <1>11, <1>12, Zenon DEF TableInv
<1>14. Keeps(t, u)
  BY <1>5, <1>a DEF Keeps
<1> QED
  BY <1>2, <1>4, <1>5, <1>6, <1>13, <1>14, Zenon DEF u, Taken

\* Accepting leaves the invariant, and takes nothing out of the ring.
Accepted(t, u, X) == TableInv(u, X) /\ Receives(u) /\ Keeps(t, u) /\ u.accepting = t.accepting

\* Tables with the same connections are accepted alike.
LEMMA SameConnections ==
  ASSUME NEW t, NEW u, NEW X, TableInv(u, X), Receives(t), u.conn = t.conn, u.accepting = t.accepting
  PROVE  Accepted(t, u, X)
BY DEF Accepted, Receives, Keeps

\* Accepted steps compose.
LEMMA AcceptedTransitive ==
  ASSUME NEW t, NEW v, NEW u, NEW X, Keeps(t, v), v.accepting = t.accepting, Accepted(v, u, X)
  PROVE  Accepted(t, u, X)
<1>1. Keeps(t, u)
  BY DEF Accepted, Keeps
<1> QED
  BY <1>1, Zenon DEF Accepted

\* A change of retry only.
LEMMA RetryInv ==
  ASSUME NEW t, NEW X, NEW R \in SUBSET Listener, TableInv(t, X)
  PROVE  LET u == [t EXCEPT !.retry = R]
         IN  TableInv(u, X) /\ u.conn = t.conn /\ u.accepting = t.accepting /\ u.waiting = t.waiting
             /\ u.free = t.free
<1> DEFINE u == [t EXCEPT !.retry = R]
<1>1. /\ u \in Tables /\ u.conn = t.conn /\ u.free = t.free /\ u.active = t.active /\ u.idle = t.idle
      /\ u.open = t.open /\ u.waiting = t.waiting /\ u.accepting = t.accepting
  BY Zenon DEF TableInv, Tables
<1> HIDE DEF u
<1>2. Owned(u, X)
  BY <1>1 DEF TableInv, Owned
<1>3. TableInv(u, X)
  BY <1>1, <1>2, OwnedInv
<1> QED
  BY <1>1, <1>3 DEF u

\* A change of accepting only.
LEMMA AcceptingInv ==
  ASSUME NEW t, NEW X, NEW A \in SUBSET Listener, TableInv(t, X)
  PROVE  LET u == [t EXCEPT !.accepting = A]
         IN  TableInv(u, X) /\ u.conn = t.conn /\ u.accepting = A /\ u.waiting = t.waiting
             /\ u.free = t.free /\ u.retry = t.retry /\ u.active = t.active
<1> DEFINE u == [t EXCEPT !.accepting = A]
<1>1. /\ u \in Tables /\ u.conn = t.conn /\ u.free = t.free /\ u.active = t.active /\ u.idle = t.idle
      /\ u.open = t.open /\ u.waiting = t.waiting /\ u.accepting = A /\ u.retry = t.retry
  BY Zenon DEF TableInv, Tables
<1> HIDE DEF u
<1>2. Owned(u, X)
  BY <1>1 DEF TableInv, Owned
<1>3. TableInv(u, X)
  BY <1>1, <1>2, OwnedInv
<1> QED
  BY <1>1, <1>3 DEF u

\* acceptConnection leaves the waiting descriptor alone, or fd waits.
Admitted(t, u, fd, l) ==
  \/ u.waiting = t.waiting
  \/ /\ freeSlot(t, l) = <<>> /\ t.waiting.fd = NoDescriptor
     /\ l = "public" /\ ~draining
     /\ u.waiting = [NotWaiting EXCEPT !.fd = fd]

\* acceptConnection, for a descriptor in hand.
LEMMA AcceptConnectionInv ==
  ASSUME NEW t, NEW Y, NEW fd \in Descriptor \cap Y, NEW l, TableInv(t, Y), Receives(t),
         NEW u \in acceptConnection(t, fd, l)
  PROVE  Accepted(t, u, Y \ {fd}) /\ Admitted(t, u, fd, l)
<1> DEFINE X == Y \ {fd}
           L == IF l = "admin" THEN "admin" ELSE "public"
           i == Head(freeSlot(t, l))
           c == close(t, fd)
           o == Open(t, fd, i)
<1>1. /\ TableInv(c, X) /\ c.conn = t.conn /\ c.waiting = t.waiting /\ c.accepting = t.accepting
      /\ c.retry = t.retry
  BY CloseInv
<1>2. Accepted(t, c, X)
  BY <1>1, SameConnections
<1>3. CASE u = c
  BY <1>1, <1>2, <1>3 DEF Admitted
<1>4. CASE ~(draining \/ stop) /\ freeSlot(t, l) # <<>>
  <2>1. L \in {"public", "admin"} /\ t.free[L] # <<>> /\ i = Head(t.free[L])
    BY <1>4 DEF freeSlot
  <2> HIDE DEF i, L
  <2>2. Taken(t, o, X, fd, i)
    BY <2>1, OpenInv, Zenon DEF FirstFree
  <2> HIDE DEF X
  <2>3. OthersReceive(o, i) /\ o.conn[i].fd # NoDescriptor
    BY <2>2, SlotsAssumption DEF Taken, OthersReceive, Receives
  <2>4. CASE u = queueReceive(o, i)
    <3> HIDE DEF o
    <3>1. TableInv(u, X) /\ Receives(u) /\ Keeps(o, u) /\ SameTable(o, u)
      BY <2>2, <2>3, <2>4, QueueReceiveInv DEF Taken
    <3>2. Accepted(o, u, X) /\ u.waiting = o.waiting
      BY <3>1, Zenon DEF Accepted, SameTable
    <3> QED
      BY <2>2, <3>2, AcceptedTransitive, Zenon DEF X, Taken, Admitted
  <2>5. CASE u = forceClose(o, i)
    <3> HIDE DEF o
    <3>1. Handled(o, u, X)
      BY <2>2, <2>3, <2>5, ForceCloseInv DEF Taken
    <3>2. Accepted(o, u, X) /\ u.waiting = o.waiting
      BY <3>1 DEF Accepted, Handled, Effect
    <3> QED
      BY <2>2, <3>2, AcceptedTransitive, Zenon DEF X, Taken, Admitted
  <2>6. CASE u = [c EXCEPT !.retry = @ \cup {"public", "redirect"}]
    <3> DEFINE R == c.retry \cup {"public", "redirect"}
    <3>1. R \in SUBSET Listener
      BY <1>1, Zenon DEF TableInv, Tables, Listener
    <3>2. u = [c EXCEPT !.retry = R]
      BY <2>6
    <3> HIDE DEF R, c
    <3>3. TableInv(u, X) /\ u.conn = c.conn /\ u.accepting = c.accepting /\ u.waiting = c.waiting
      BY <1>1, <3>1, <3>2, RetryInv
    <3>4. Accepted(t, u, X)
      BY <1>1, <3>3, SameConnections
    <3> QED
      BY <1>1, <3>3, <3>4, Zenon DEF X, Admitted
  <2>7. \/ u = queueReceive(o, i) \/ u = forceClose(o, i) \/ u = c
        \/ u = [c EXCEPT !.retry = @ \cup {"public", "redirect"}]
    BY <1>4 DEF acceptConnection, Refused, i
  <2> QED
    BY <1>3, <2>4, <2>5, <2>6, <2>7
<1>5. CASE /\ u = Wait(t, fd) /\ freeSlot(t, l) = <<>> /\ l = "public" /\ t.waiting.fd = NoDescriptor
           /\ ~draining
  <2>1. /\ TableInv(u, X) /\ u.conn = t.conn /\ u.accepting = t.accepting
        /\ u.waiting = [NotWaiting EXCEPT !.fd = fd]
    <3>1. t.waiting.fd = NoDescriptor /\ u = Wait(t, fd)
      BY <1>5
    <3> QED
      BY <3>1, WaitInv
  <2>2. Accepted(t, u, X)
    BY <2>1, SameConnections
  <2> QED
    BY <1>5, <2>1, <2>2 DEF Admitted
<1>6. \/ u = c
      \/ ~(draining \/ stop) /\ freeSlot(t, l) # <<>>
      \/ /\ u = Wait(t, fd) /\ freeSlot(t, l) = <<>> /\ l = "public" /\ t.waiting.fd = NoDescriptor
         /\ ~draining
  BY Zenon DEF acceptConnection
<1> QED
  BY <1>3, <1>4, <1>5, <1>6

\* The first idle connection is one.
LEMMA IdleFirst ==
  ASSUME NEW t, NEW X, TableInv(t, X), t.idle.first # None
  PROVE  t.idle.first \in Slot /\ t.conn[t.idle.first].idle_queued
<1>1. PICK n \in Nat : \E q \in [1 .. n -> Slot] : Linked(t, q, n)
  BY DEF TableInv, IdleChain
<1>2. PICK q \in [1 .. n -> Slot] : Linked(t, q, n)
  BY <1>1, Zenon
<1>3. n # 0 /\ t.idle.first = q[1]
  BY <1>2 DEF Linked
<1>4. 1 \in 1 .. n /\ q[1] \in Slot
  BY <1>3
<1> QED
  BY <1>2, <1>3, <1>4 DEF Linked

\* After a look at the public listener, a descriptor waits only if it did
\* before, and then for a slot; and only the first idle connection can have
\* been reclaimed for it.
Looked(t, u) ==
  /\ u.waiting.fd # NoDescriptor => u.waiting.fd = t.waiting.fd /\ u.free.public = <<>>
  /\ u.waiting.reclaimed /\ ~t.waiting.reclaimed =>
       /\ t.idle.first \in Slot /\ t.conn[t.idle.first].idle_queued
       /\ \A j \in Slot \ {t.idle.first} : u.conn[j].phase = t.conn[j].phase

\* queueAccept(.public) while a descriptor waits.
LEMMA AcceptWaitingInv ==
  ASSUME NEW t, NEW X, NoDescriptor \notin X, TableInv(t, X), Receives(t),
         t.waiting.fd # NoDescriptor, NEW old \in BOOLEAN, NEW u \in AcceptWaiting(t, old)
  PROVE  Accepted(t, u, X) /\ Looked(t, u)
<1> DEFINE reclaim == t.free.public = <<>> /\ ~t.waiting.reclaimed /\ t.idle.first # None /\ old
           marked == [t EXCEPT !.waiting.reclaimed = TRUE]
           f == forceClose(marked, t.idle.first)
           v == IF reclaim THEN f ELSE t
           fd == t.waiting.fd
<1>1. NotWaiting.fd = NoDescriptor /\ NotWaiting.reclaimed = FALSE
  BY Zenon DEF NotWaiting
<1>2. CASE t.waiting.late
  <2> DEFINE n == [t EXCEPT !.waiting = NotWaiting]
             c == close(n, fd)
  <2>1. /\ TableInv(n, X \cup {fd}) /\ fd \notin X /\ fd \in Descriptor
        /\ n.conn = t.conn /\ n.accepting = t.accepting /\ n.free = t.free /\ n.waiting = NotWaiting
    BY UnwaitInv
  <2>2. u = c
    BY <1>2, Zenon DEF AcceptWaiting, close, TableInv, Tables
  <2> HIDE DEF n
  <2>3. /\ TableInv(c, (X \cup {fd}) \ {fd}) /\ c.conn = n.conn
        /\ c.waiting = n.waiting /\ c.accepting = n.accepting
    BY <2>1, CloseInv
  <2> HIDE DEF c
  <2>4. (X \cup {fd}) \ {fd} = X
    BY <2>1
  <2>5. TableInv(u, X) /\ u.conn = t.conn /\ u.waiting = NotWaiting /\ u.accepting = t.accepting
    BY <2>1, <2>2, <2>3, <2>4
  <2>6. Accepted(t, u, X)
    BY <2>5, SameConnections
  <2> QED
    BY <2>5, <2>6, <1>1 DEF Looked
<1>3. CASE ~t.waiting.late
  <2>1. /\ Accepted(t, v, X) /\ v.waiting.fd = fd
        /\ v.free.public = <<>> => Looked(t, v)
    <3>1. CASE reclaim
      <4>1. t \in Tables /\ Owned(t, X)
        BY DEF TableInv
      <4>2. /\ marked \in Tables /\ marked.conn = t.conn /\ marked.free = t.free /\ marked.active = t.active
            /\ marked.idle = t.idle /\ marked.open = t.open /\ marked.accepting = t.accepting
            /\ marked.waiting.fd = t.waiting.fd
        BY <4>1, Zenon DEF Tables
      <4> HIDE DEF marked
      <4>3. Owned(marked, X)
        BY <4>1, <4>2 DEF Owned
      <4>4. TableInv(marked, X)
        BY <4>2, <4>3, OwnedInv, Zenon
      <4>5. t.idle.first \in Slot /\ t.conn[t.idle.first].idle_queued
        BY <3>1, IdleFirst, Zenon
      <4>6. OthersReceive(marked, t.idle.first)
        BY <4>2 DEF OthersReceive, Receives
      <4>7. Handled(marked, f, X) /\ \A j \in Slot \ {t.idle.first} : f.conn[j].phase = marked.conn[j].phase
        BY <4>4, <4>5, <4>6, ForceCloseInv, Zenon
      <4>8. v = f
        BY <3>1, Zenon
      <4> HIDE DEF f, v
      <4>9. Accepted(marked, v, X) /\ v.waiting = marked.waiting
        BY <4>7, <4>8, Zenon DEF Handled, Effect, Accepted
      <4>10. Keeps(t, marked)
        BY <4>2 DEF Keeps
      <4>11. Accepted(t, v, X) /\ v.waiting.fd = fd
        BY <4>2, <4>9, <4>10, AcceptedTransitive, Zenon
      <4> QED
        BY <4>2, <4>5, <4>7, <4>8, <4>11 DEF Looked
    <3>2. CASE ~reclaim
      <4>1. v = t
        BY <3>2
      <4>2. t.accepting = t.accepting /\ t.conn = t.conn
        BY Zenon
      <4>3. Accepted(t, t, X)
        BY <4>2, SameConnections
      <4> QED
        BY <4>1, <4>3 DEF Looked
    <3> QED
      BY <3>1, <3>2, Zenon
  <2>2. CASE v.free.public = <<>>
    <3>1. u = v
      BY <1>3, <2>2, Zenon DEF AcceptWaiting
    <3> QED
      BY <2>1, <2>2, <3>1
  <2>3. CASE v.free.public # <<>>
    <3> DEFINE n == [v EXCEPT !.waiting = NotWaiting]
    <3>1. u \in acceptConnection(n, v.waiting.fd, "public")
      BY <1>3, <2>3, Zenon DEF AcceptWaiting
    <3> HIDE DEF v
    <3>2. TableInv(v, X) /\ v.waiting.fd # NoDescriptor
      BY <2>1 DEF Accepted
    <3>3. /\ TableInv(n, X \cup {fd}) /\ fd \notin X /\ fd \in Descriptor
          /\ n.conn = v.conn /\ n.accepting = v.accepting /\ n.free = v.free /\ n.waiting = NotWaiting
      BY <2>1, <3>2, UnwaitInv, Zenon
    <3> HIDE DEF n
    <3>4. Receives(n) /\ Keeps(t, n) /\ n.accepting = t.accepting
      BY <2>1, <3>3 DEF Accepted, Receives, Keeps
    <3>5. freeSlot(n, "public") # <<>>
      BY <2>3, <3>3 DEF freeSlot
    <3>6. /\ Accepted(n, u, (X \cup {fd}) \ {fd})
          /\ u.waiting = n.waiting
      <4>1. fd \in Descriptor \cap (X \cup {fd}) /\ u \in acceptConnection(n, fd, "public")
        BY <2>1, <3>1, <3>3, Zenon
      <4> DEFINE Y == X \cup {fd}
      <4>2. TableInv(n, Y) /\ fd \in Descriptor \cap Y
        BY <3>3, Zenon
      <4> HIDE DEF Y, fd
      <4>3. Accepted(n, u, Y \ {fd}) /\ Admitted(n, u, fd, "public")
        BY <4>1, <4>2, <3>4, AcceptConnectionInv
      <4> QED
        BY <4>3, <3>5, Zenon DEF Y, Admitted
    <3>7. (X \cup {fd}) \ {fd} = X
      BY <3>3, Zenon
    <3>8. Accepted(t, u, X)
      BY <3>4, <3>6, <3>7, AcceptedTransitive
    <3> QED
      BY <3>3, <3>6, <3>8, <1>1 DEF Looked
  <2> QED
    BY <2>2, <2>3
<1> QED
  BY <1>2, <1>3

\* A look at a listener may put its accept into the ring.
Queued(t, u, l, X) ==
  /\ TableInv(u, X) /\ Receives(u) /\ Keeps(t, u)
  /\ t.accepting \subseteq u.accepting
  /\ u.accepting \subseteq t.accepting \cup (Listening \cap {l})

\* queueAccept with no descriptor waiting for the listener: only accepting
\* may change.
LEMMA QueueListenerInv ==
  ASSUME NEW t, NEW X, NEW l \in Listener, TableInv(t, X), Receives(t),
         l # "public" \/ t.waiting.fd = NoDescriptor, NEW u \in queueAccept(t, l)
  PROVE  Queued(t, u, l, X) /\ u.conn = t.conn /\ u.waiting = t.waiting /\ u.free = t.free
<1> DEFINE A == t.accepting \cup {l}
<1>1. CASE u = t
  BY <1>1 DEF Queued, Keeps
<1>2. CASE u = [t EXCEPT !.accepting = A] /\ l \in Listening
  <2>1. A \in SUBSET Listener
    BY DEF TableInv, Tables
  <2>2. l \in Listening /\ u = [t EXCEPT !.accepting = A]
    BY <1>2
  <2> HIDE DEF A
  <2>3. TableInv(u, X) /\ u.conn = t.conn /\ u.accepting = A /\ u.waiting = t.waiting /\ u.free = t.free
    BY <2>1, <2>2, AcceptingInv
  <2> QED
    BY <2>2, <2>3 DEF Queued, Keeps, Receives, A
<1>3. u = t \/ (u = [t EXCEPT !.accepting = A] /\ l \in Listening)
  BY DEF queueAccept
<1> QED
  BY <1>1, <1>2, <1>3

\* queueAccept(.public).
LEMMA QueuePublicInv ==
  ASSUME NEW t, NEW X, NoDescriptor \notin X, TableInv(t, X), Receives(t), ~stop,
         t.waiting.fd # NoDescriptor => "public" \in Listening /\ "public" \notin t.accepting,
         NEW u \in queueAccept(t, "public")
  PROVE  /\ Queued(t, u, "public", X) /\ Looked(t, u)
         /\ u.waiting.fd # NoDescriptor => "public" \notin u.accepting
<1>1. CASE t.waiting.fd = NoDescriptor
  <2>1. "public" \in Listener
    BY Zenon DEF Listener
  <2>2. Queued(t, u, "public", X) /\ u.conn = t.conn /\ u.waiting = t.waiting
    BY <1>1, <2>1, QueueListenerInv, Zenon
  <2> QED
    BY <1>1, <2>2 DEF Looked
<1>2. CASE t.waiting.fd # NoDescriptor
  <2>1. u \in UNION {AcceptWaiting(t, old) : old \in BOOLEAN}
    BY <1>2 DEF queueAccept
  <2>2. PICK old \in BOOLEAN : u \in AcceptWaiting(t, old)
    BY <2>1, Zenon
  <2>3. Accepted(t, u, X) /\ Looked(t, u)
    BY <1>2, <2>2, AcceptWaitingInv, Zenon
  <2> QED
    BY <1>2, <2>3 DEF Accepted, Queued
<1> QED
  BY <1>1, <1>2, Zenon

\* The waiting descriptor is closed when the shutdown begins.
LEMMA BeginShutdownInv ==
  ASSUME NEW t, NEW X, NoDescriptor \notin X, TableInv(t, X), Receives(t)
  PROVE  LET u == beginShutdown(t)
         IN  /\ TableInv(u, X) /\ u.conn = t.conn /\ u.accepting = t.accepting
             /\ u.waiting.fd = NoDescriptor
             /\ u.waiting.reclaimed => t.waiting.reclaimed
<1> DEFINE n == [t EXCEPT !.waiting = NotWaiting]
           fd == t.waiting.fd
           c == close(n, fd)
<1>1. CASE fd = NoDescriptor
  BY <1>1 DEF beginShutdown
<1>2. CASE fd # NoDescriptor
  <2>1. /\ TableInv(n, X \cup {fd}) /\ fd \notin X /\ fd \in Descriptor
        /\ n.conn = t.conn /\ n.accepting = t.accepting /\ n.free = t.free /\ n.waiting = NotWaiting
    BY <1>2, UnwaitInv
  <2>2. beginShutdown(t) = c
    BY <1>2, Zenon DEF beginShutdown, close, TableInv, Tables
  <2>3. NotWaiting.fd = NoDescriptor /\ NotWaiting.reclaimed = FALSE
    BY Zenon DEF NotWaiting
  <2> HIDE DEF n
  <2>4. /\ TableInv(c, (X \cup {fd}) \ {fd}) /\ c.conn = n.conn
        /\ c.waiting = n.waiting /\ c.accepting = n.accepting
    BY <2>1, CloseInv
  <2> HIDE DEF c
  <2>5. (X \cup {fd}) \ {fd} = X
    BY <2>1
  <2> QED
    BY <2>1, <2>2, <2>3, <2>4, <2>5
<1> QED
  BY <1>1, <1>2

=============================================================================

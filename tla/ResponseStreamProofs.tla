------------------------ MODULE ResponseStreamProofs ------------------------
(***************************************************************************)
(* The publication handshake for buffers and responses of any size, as     *)
(* long as the eventfd can be written.                                     *)
(***************************************************************************)
EXTENDS ResponseStream, SequenceTheorems, TLAPS

\* flush holds the mutex from its store to its wait.
Locked == mutex = "producer" <=> producer \in {"notify", "check", "wait"}

\* Which publications the producer can meet, from where it is.
Published ==
  /\ producer \in {"hook", "lock", "finish"} => publication = "writing"
  /\ producer \in {"notify", "wait"} => publication = "ready"
  /\ producer \in {"check", "asleep"} => publication \in {"writing", "ready"}
  /\ producer = "fail" => publication = "writing" \/ (publication = "ready" /\ canceled)
  /\ producer = "notify_end" => publication = "finished"
  /\ producer = "notify_fail" => publication = "failed"
  /\ producer = "returned" => publication \in {"finished", "failed"}

\* The loop copies nothing once it has canceled the stream, and cancel() is
\* over only when the producer cannot be on its way to sleep.
Canceled ==
  /\ canceled <=> worker \in {"cancel", "closing"} \/ (worker = "aborted" /\ canceled)
  /\ worker \in {"complete", "aborted"} => producer = "returned"
  /\ producer = "wait" => (canceled => worker = "cancel")

\* The buffer holds the last `end` bytes written.
Buffered ==
  /\ end <= produced
  /\ \A i \in 1 .. end : buffer[i] = produced - end + i
  /\ publication = "ready" => published_len = end /\ offset <= end
  /\ worker = "sending" => publication = "ready" /\ offset = published_len

\* How much of it has been copied.
Copied ==
  /\ publication = "ready" => Len(out) = produced - end + offset
  /\ publication = "writing" => offset = 0
  /\ publication = "writing" /\ producer \in {"hook", "lock", "finish"} => Len(out) = produced - end
  /\ publication = "writing" /\ producer \in {"check", "asleep"} => Len(out) = produced
  /\ producer = "finish" => end = 0
  /\ publication = "finished" => Len(out) = produced

IInv ==
  /\ TypeOK /\ Locked /\ Published /\ Canceled /\ Buffered /\ Copied
  /\ InOrder /\ ConsumeDefined /\ PublicationSeen /\ NoMissedSignal

\* The part of the invariant that is about control.
Handshake == Locked /\ Published /\ Canceled /\ PublicationSeen /\ NoMissedSignal

Producers ==
  {"hook", "lock", "notify", "notify_end", "notify_fail", "check", "wait", "asleep", "finish",
   "fail", "returned"}
Workers == {"idle", "pump", "sending", "cancel", "closing", "complete", "aborted"}

-----------------------------------------------------------------------------
\* What the loop copies from a publication are the next bytes of the response.
LEMMA Pumped ==
  ASSUME TypeOK, Buffered, Copied, InOrder, publication = "ready",
         NEW n \in 1 .. published_len - offset
  PROVE  LET next == out \o SubSeq(buffer, offset + 1, offset + n)
         IN  /\ next \in Seq(1 .. Total) /\ Len(next) = Len(out) + n
             /\ next = [i \in 1 .. Len(next) |-> i]
<1> USE ResponseStreamAssumption
<1> DEFINE chunk == SubSeq(buffer, offset + 1, offset + n)
           next == out \o chunk
           size == Len(out)
<1>1. /\ offset \in Nat /\ end \in Nat /\ produced \in Nat /\ n \in Nat /\ offset + n <= end
      /\ end <= Capacity /\ produced <= Total /\ produced - end \in Nat
  BY DEF TypeOK, Buffered
<1>2. \A i \in 1 .. n : offset + i \in 1 .. end /\ buffer[offset + i] = produced - end + (offset + i)
  BY <1>1 DEF Buffered
<1>3. out \in Seq(1 .. Total) /\ size \in Nat /\ size = produced - end + offset
  BY DEF TypeOK, Copied
<1>4. \A i \in 1 .. size : out[i] = i
  <2>1. out = [i \in 1 .. Len(out) |-> i]
    BY DEF InOrder
  <2> QED BY <2>1
<1>5. buffer \in Seq(0 .. Total) /\ Len(buffer) = Capacity
  BY DEF TypeOK
<1>6. chunk \in Seq(0 .. Total) /\ Len(chunk) = n /\ \A i \in 1 .. n : chunk[i] = buffer[offset + i]
  BY <1>1, <1>5
<1>7. \A i \in 1 .. n : chunk[i] = size + i
  BY <1>1, <1>2, <1>3, <1>6
<1>8. chunk \in Seq(1 .. Total)
  <2>1. \A i \in 1 .. n : chunk[i] \in 1 .. Total
    BY <1>1, <1>3, <1>7
  <2> HIDE DEF chunk
  <2> QED BY <1>6, <2>1
<1> HIDE DEF chunk
<1>9. /\ next \in Seq(1 .. Total) /\ Len(next) = size + n
      /\ \A i \in 1 .. size + n : next[i] = IF i <= size THEN out[i] ELSE chunk[i - size]
  BY ONLY <1>3, <1>6, <1>8, ConcatProperties, Zenon
<1>10. \A i \in 1 .. size + n : next[i] = i
  <2> SUFFICES ASSUME NEW i \in 1 .. size + n PROVE next[i] = i
    BY Zenon
  <2>1. CASE i <= size
    BY <1>3, <1>4, <1>9, <2>1
  <2>2. CASE i > size
    <3>1. i - size \in 1 .. n /\ size + (i - size) = i
      BY <1>1, <1>3, <2>2
    <3>2. next[i] = chunk[i - size]
      BY <1>9, <1>3, <2>2
    <3> QED BY <1>7, <3>1, <3>2
  <2>3. i <= size \/ i > size
    BY <1>1, <1>3
  <2> QED BY <2>1, <2>2, <2>3, Zenon
<1> HIDE DEF next
<1>11. next = [i \in 1 .. Len(next) |-> i]
  BY <1>1, <1>3, <1>9, <1>10
<1> QED BY <1>9, <1>11, Zenon DEF next, chunk

\* Every step keeps the types.
LEMMA TypeStep ==
  ASSUME TypeOK, Buffered, Copied, InOrder, [Next]_vars
  PROVE  TypeOK'
<1> USE ResponseStreamAssumption
<1>b. canceled \in BOOLEAN /\ waiting \in BOOLEAN /\ finishing \in BOOLEAN /\ event \in BOOLEAN
  BY Zenon DEF TypeOK
<1>s. publication \in {"writing", "ready", "finished", "failed"} /\ mutex \in {"free", "producer"}
      /\ producer \in Producers /\ worker \in Workers
  BY DEF TypeOK, Producers, Workers
<1>1. canceled' \in BOOLEAN /\ waiting' \in BOOLEAN /\ finishing' \in BOOLEAN /\ event' \in BOOLEAN
  <2>1. CASE Producer
    BY <1>b, <2>1, Zenon DEF Producer, flush, notify, Check, Wait, Relock, finish, fail, loop
  <2>2. CASE Write \/ CallFlush \/ HookFails \/ SpuriousWake
    BY <1>b, <2>2, Zenon DEF Write, CallFlush, HookFails, SpuriousWake, loop
  <2>3. CASE Worker
    BY <1>b, <2>3, Zenon DEF Worker, EventRead, pumpResponseStream, consume, cancel, Take, stream
  <2>4. CASE Tick \/ Cancel \/ Finished \/ UNCHANGED vars
    BY <1>b, <2>4, Zenon DEF Tick, Cancel, Finished, vars, stream, loop
  <2> QED BY <2>1, <2>2, <2>3, <2>4 DEF Next
<1>2. /\ publication' \in {"writing", "ready", "finished", "failed"} /\ mutex' \in {"free", "producer"}
      /\ producer' \in Producers /\ worker' \in Workers
  <2>1. CASE Producer
    BY <1>s, <2>1 DEF Producer, flush, notify, Check, Wait, Relock, finish, fail, loop, Producers, Returned
  <2>2. CASE Write \/ CallFlush \/ HookFails \/ SpuriousWake
    BY <1>s, <2>2 DEF Write, CallFlush, HookFails, SpuriousWake, loop, Producers
  <2>3. CASE Worker
    BY <1>s, <2>3 DEF Worker, EventRead, pumpResponseStream, consume, cancel, Take, stream, Workers
  <2>4. CASE Tick \/ Cancel \/ Finished \/ UNCHANGED vars
    BY <1>s, <2>4 DEF Tick, Cancel, Finished, vars, stream, loop, Workers
  <2> QED BY <2>1, <2>2, <2>3, <2>4 DEF Next
<1>3. /\ published_len' \in 0 .. Capacity /\ end' \in 0 .. Capacity /\ produced' \in 0 .. Total
      /\ buffer' \in [1 .. Capacity -> 0 .. Total]
  <2>1. CASE Producer
    BY <2>1 DEF TypeOK, Producer, flush, notify, Check, Wait, Relock, finish, fail
  <2>2. CASE Write
    <3>1. end + 1 \in 1 .. Capacity /\ produced + 1 \in 0 .. Total /\ end + 1 \in 0 .. Capacity
      BY <2>2 DEF TypeOK, Write
    <3> QED BY <2>2, <3>1 DEF TypeOK, Write
  <2>3. CASE CallFlush \/ HookFails \/ SpuriousWake
    BY <2>3, Zenon DEF TypeOK, CallFlush, HookFails, SpuriousWake
  <2>4. CASE Worker \/ Tick \/ Cancel \/ Finished \/ UNCHANGED vars
    BY <2>4 DEF TypeOK, Worker, EventRead, pumpResponseStream, consume, cancel, Take, Tick, Cancel, Finished, vars, stream
  <2> QED BY <2>1, <2>2, <2>3, <2>4 DEF Next
<1>4. offset' \in 0 .. Capacity
  <2>1. CASE pumpResponseStream
    <3>1. offset \in 0 .. Capacity /\ published_len \in 0 .. Capacity
      BY DEF TypeOK
    <3> QED BY <2>1, <3>1 DEF pumpResponseStream
  <2>2. CASE UNCHANGED offset \/ offset' = 0
    BY <2>2 DEF TypeOK
  <2>3. pumpResponseStream \/ UNCHANGED offset \/ offset' = 0
    BY DEF Next, Producer, flush, notify, Check, Wait, Relock, finish, fail, Write, CallFlush, HookFails, SpuriousWake,
           Worker, EventRead, consume, cancel, Take, Tick, Cancel, Finished, vars, loop
  <2> QED BY <2>1, <2>2, <2>3
<1>5. out' \in Seq(1 .. Total)
  <2>1. CASE pumpResponseStream /\ publication = "ready" /\ offset < published_len
    <3>1. PICK n \in 1 .. published_len - offset : out' = out \o SubSeq(buffer, offset + 1, offset + n)
      BY <2>1, Zenon DEF pumpResponseStream
    <3> QED BY <2>1, <3>1, Pumped
  <2>2. CASE UNCHANGED out
    BY <2>2 DEF TypeOK
  <2>3. pumpResponseStream \/ UNCHANGED out
    BY DEF Next, Producer, flush, notify, Check, Wait, Relock, finish, fail, Write, CallFlush, HookFails, SpuriousWake,
           Worker, EventRead, consume, cancel, Take, Tick, Cancel, Finished, vars, loop
  <2> QED BY <2>1, <2>2, <2>3, Zenon DEF pumpResponseStream
<1> QED
  <2>1. {canceled', waiting', finishing', event'} \subseteq BOOLEAN
    BY <1>1
  <2> QED BY <1>2, <1>3, <1>4, <1>5, <2>1 DEF TypeOK, Producers, Workers

-----------------------------------------------------------------------------
\* The control: what is published, who holds the mutex, and who is woken.
LEMMA HandshakeStep ==
  ASSUME TypeOK, Handshake, Buffered, ~WakeFails, [Next]_vars
  PROVE  Handshake'
<1> USE DEF Handshake, Locked, Published, Canceled, PublicationSeen, NoMissedSignal
<1>1. CASE Write
  BY <1>1 DEF Write, loop
<1>2. CASE CallFlush
  BY <1>2 DEF CallFlush, loop
<1>3. CASE HookFails
  BY <1>3 DEF HookFails, loop
<1>4. CASE flush
  BY <1>4 DEF flush, loop, Returned
<1>5. CASE notify
  BY <1>5 DEF notify, loop
<1>6. CASE Check
  BY <1>6 DEF Check, loop, Returned
<1>7. CASE Wait
  BY <1>7 DEF Wait, loop
<1>8. CASE Relock
  BY <1>8 DEF Relock, loop
<1>9. CASE SpuriousWake
  BY <1>9 DEF SpuriousWake, loop
<1>10. CASE finish
  BY <1>10 DEF finish, loop
<1>11. CASE fail
  BY <1>11 DEF fail, loop
<1>12. CASE EventRead \/ Tick
  BY <1>12 DEF EventRead, Tick, stream
<1>13. CASE pumpResponseStream
  <2>1. offset \in Nat /\ published_len \in Int
    BY DEF TypeOK
  <2> QED BY <1>13, <2>1 DEF pumpResponseStream, stream
<1>14. CASE consume
  BY <1>14 DEF consume, Buffered, TypeOK
<1>15. CASE Cancel
  BY <1>15 DEF Cancel, stream
<1>16. CASE cancel
  BY <1>16 DEF cancel
<1>17. CASE Take
  BY <1>17 DEF Take, stream
<1>18. CASE UNCHANGED vars
  BY <1>18 DEF vars, stream, loop
<1> QED BY <1>1, <1>2, <1>3, <1>4, <1>5, <1>6, <1>7, <1>8, <1>9, <1>10, <1>11, <1>12, <1>13, <1>14, <1>15,
           <1>16, <1>17, <1>18, Zenon DEF Next, Producer, Worker, Finished

\* The data: what the buffer holds and how much of it is copied.
LEMMA DataStep ==
  ASSUME TypeOK, Handshake, Buffered, Copied, InOrder, ~WakeFails, [Next]_vars
  PROVE  Buffered' /\ Copied' /\ InOrder'
<1>n. /\ offset \in Nat /\ published_len \in Nat /\ end \in Nat /\ produced \in Nat /\ Len(out) \in Nat
      /\ end <= Capacity /\ Capacity \in Nat
  BY ResponseStreamAssumption DEF TypeOK
<1>1. CASE Write
  <2>1. \A i \in 1 .. end + 1 : buffer'[i] = (produced + 1) - (end + 1) + i
    <3> SUFFICES ASSUME NEW i \in 1 .. end + 1 PROVE buffer'[i] = (produced + 1) - (end + 1) + i
      OBVIOUS
    <3>1. buffer' = [buffer EXCEPT ![end + 1] = produced + 1] /\ i \in 1 .. Capacity /\ DOMAIN buffer = 1 .. Capacity
      BY <1>1, <1>n DEF Write, TypeOK
    <3>2. CASE i = end + 1
      BY <1>n, <3>1, <3>2
    <3>3. CASE i # end + 1
      <4>1. i \in 1 .. end /\ buffer'[i] = buffer[i]
        BY <1>n, <3>1, <3>3
      <4> QED BY <1>n, <4>1 DEF Buffered
    <3> QED BY <3>2, <3>3
  <2>2. publication = "writing" /\ worker # "sending" /\ producer = "hook"
    BY <1>1 DEF Write, Handshake, Published, Buffered
  <2>3. /\ UNCHANGED <<publication, published_len, producer, worker, offset, out>>
        /\ end' = end + 1 /\ produced' = produced + 1
    BY <1>1 DEF Write, loop
  <2>4. Buffered'
    BY <1>n, <2>1, <2>2, <2>3 DEF Buffered
  <2>5. Copied'
    BY <1>n, <2>2, <2>3 DEF Copied
  <2>6. InOrder'
    <3>1. worker # "complete"
      BY <2>2 DEF Handshake, Canceled
    <3> QED BY <2>3, <3>1 DEF InOrder
  <2> QED BY <2>4, <2>5, <2>6
<1>2. CASE CallFlush \/ HookFails \/ SpuriousWake \/ Wait \/ Relock \/ notify
  <2>1. UNCHANGED <<publication, published_len, buffer, end, produced, worker, offset, out>>
    BY <1>2 DEF CallFlush, HookFails, SpuriousWake, Wait, Relock, notify, loop
  <2>2. Copied'
    BY <1>2, <2>1 DEF CallFlush, HookFails, SpuriousWake, Wait, Relock, notify, Copied, Handshake, Published
  <2> QED BY <2>1, <2>2 DEF Buffered, InOrder
<1>3. CASE flush
  <2>1. UNCHANGED <<buffer, end, produced, worker, offset, out>> /\ publication = "writing" /\ producer = "lock"
    BY <1>3 DEF flush, loop, Handshake, Published
  <2>2. offset = 0 /\ worker # "sending"
    BY <2>1 DEF Copied, Buffered
  <2>3. Buffered'
    BY <1>3, <1>n, <2>1, <2>2 DEF flush, Buffered
  <2>4. Copied'
    BY <1>3, <1>n, <2>1 DEF flush, Returned, Copied
  <2>5. InOrder'
    BY <2>1 DEF InOrder
  <2> QED BY <2>3, <2>4, <2>5
<1>4. CASE Check
  <2>1. /\ UNCHANGED <<publication, published_len, buffer, produced, worker, offset, out>> /\ producer = "check"
        /\ publication \in {"writing", "ready"}
    BY <1>4 DEF Check, loop, Handshake, Published
  <2>2. UNCHANGED end \/ (end' = 0 /\ publication = "writing")
    BY <1>4, <2>1 DEF Check
  <2>3. Buffered'
    <3>1. CASE UNCHANGED end
      BY <2>1, <3>1 DEF Buffered
    <3>2. CASE end' = 0 /\ publication = "writing"
      BY <1>n, <2>1, <3>2 DEF Buffered
    <3> QED BY <2>2, <3>1, <3>2
  <2>4. Copied'
    BY <1>4, <1>n, <2>1 DEF Check, Returned, Copied
  <2>5. InOrder'
    BY <2>1 DEF InOrder
  <2> QED BY <2>3, <2>4, <2>5
<1>5. CASE finish \/ fail
  <2>1. /\ UNCHANGED <<published_len, buffer, end, produced, worker, offset, out>>
        /\ publication' \in {"finished", "failed"} /\ producer' \in {"notify_end", "notify_fail"}
    BY <1>5 DEF finish, fail, loop
  <2>2. worker # "sending"
    BY <1>5 DEF finish, fail, Handshake, Published, Canceled, Buffered
  <2>3. publication' = "finished" => Len(out) = produced
    BY <1>5, <1>n DEF finish, fail, Copied, Handshake, Published
  <2> QED BY <2>1, <2>2, <2>3 DEF Buffered, Copied, InOrder
<1>6. CASE EventRead \/ Tick \/ cancel \/ Cancel
  <2>1. /\ UNCHANGED <<publication, published_len, buffer, end, produced, producer, offset, out>>
        /\ worker' \in {"pump", "cancel", "closing"}
    BY <1>6 DEF EventRead, Tick, cancel, Cancel, stream
  <2> QED BY <2>1 DEF Buffered, Copied, InOrder
<1>7. CASE Take
  <2>1. /\ UNCHANGED <<publication, published_len, buffer, end, produced, producer, offset, out>>
        /\ worker' \in {"complete", "aborted"} /\ (worker' = "complete" => publication = "finished")
    BY <1>7 DEF Take, stream
  <2> QED BY <2>1 DEF Buffered, Copied, InOrder
<1>8. CASE consume
  <2>1. /\ UNCHANGED <<published_len, buffer, end, produced, producer, out>>
        /\ worker = "sending" /\ worker' = "pump" /\ offset' = 0 /\ publication' = "writing"
    BY <1>8 DEF consume
  <2>2. producer = "asleep" /\ Len(out) = produced
    BY <1>8, <1>n DEF consume, TypeOK, Handshake, Locked, Published, Buffered, Copied
  <2> QED BY <2>1, <2>2 DEF Buffered, Copied, InOrder
<1>9. CASE pumpResponseStream
  <2>1. UNCHANGED <<publication, published_len, buffer, end, produced, producer>> /\ worker' \in {"idle", "sending"}
    BY <1>9 DEF pumpResponseStream, stream
  <2>2. CASE publication = "ready" /\ offset < published_len
    <3>1. PICK n \in 1 .. published_len - offset :
            /\ out' = out \o SubSeq(buffer, offset + 1, offset + n)
            /\ offset' = offset + n
            /\ worker' = IF offset + n = published_len THEN "sending" ELSE "idle"
      BY <1>9, <2>2, Zenon DEF pumpResponseStream
    <3>2. Len(out') = Len(out) + n /\ out' = [i \in 1 .. Len(out') |-> i]
      BY <2>2, <3>1, Pumped, Zenon
    <3>3. Buffered'
      BY <1>n, <2>1, <2>2, <3>1 DEF Buffered
    <3>4. Copied'
      <4>1. offset' = offset + n /\ Len(out') = Len(out) + n /\ n \in Nat
        BY <1>n, <3>1, <3>2
      <4> QED BY <1>n, <2>1, <2>2, <4>1 DEF Copied
    <3>5. InOrder'
      BY <2>1, <3>2 DEF InOrder
    <3> QED BY <3>3, <3>4, <3>5
  <2>3. CASE ~(publication = "ready" /\ offset < published_len)
    <3>1. UNCHANGED <<out, offset>> /\ worker' = "idle"
      BY <1>9, <2>3 DEF pumpResponseStream
    <3> QED BY <2>1, <3>1 DEF Buffered, Copied, InOrder
  <2> QED BY <2>2, <2>3
<1>10. CASE UNCHANGED vars
  BY <1>10 DEF vars, stream, loop, Buffered, Copied, InOrder
<1> QED BY <1>1, <1>2, <1>3, <1>4, <1>5, <1>6, <1>7, <1>8, <1>9, <1>10 DEF Next, Producer, Worker, Finished

-----------------------------------------------------------------------------
\* A stream starts in its inductive invariant.
LEMMA InitIInv == Init => IInv
<1> SUFFICES ASSUME Init PROVE IInv
  OBVIOUS
<1> USE ResponseStreamAssumption
<1>1. TypeOK
  <2>1. {canceled, waiting, finishing, event} \subseteq BOOLEAN
    BY Zenon DEF Init
  <2>2. /\ published_len \in 0 .. Capacity /\ offset \in 0 .. Capacity /\ produced \in 0 .. Total
        /\ buffer \in [1 .. Capacity -> 0 .. Total] /\ end \in 0 .. Capacity
    BY DEF Init
  <2>3. out \in Seq(1 .. Total)
    BY DEF Init
  <2> QED BY <2>1, <2>2, <2>3 DEF Init, TypeOK
<1>2. Locked /\ Published /\ Canceled /\ PublicationSeen /\ NoMissedSignal
  BY DEF Init, Locked, Published, Canceled, PublicationSeen, NoMissedSignal
<1>3. Buffered /\ Copied
  BY DEF Init, Buffered, Copied
<1>4. InOrder /\ ConsumeDefined
  <2>1. out = <<>> /\ Len(out) = 0 /\ worker = "idle"
    BY DEF Init
  <2> QED BY <2>1 DEF InOrder, ConsumeDefined
<1> QED BY <1>1, <1>2, <1>3, <1>4 DEF IInv

\* Every step preserves the inductive invariant, if the eventfd can be written.
LEMMA NextIInv == ~WakeFails /\ IInv /\ [Next]_vars => IInv'
<1> SUFFICES ASSUME ~WakeFails, IInv, [Next]_vars PROVE IInv'
  OBVIOUS
<1>1. TypeOK'
  BY TypeStep DEF IInv
<1>2. Handshake'
  BY HandshakeStep DEF IInv, Handshake
<1>3. Buffered' /\ Copied' /\ InOrder'
  BY DataStep DEF IInv, Handshake
<1>4. ConsumeDefined'
  BY <1>3 DEF Buffered, ConsumeDefined
<1> QED BY <1>1, <1>2, <1>3, <1>4 DEF IInv, Handshake

\* The inductive invariant holds in every reachable state.
LEMMA Invariance == ~WakeFails => (Spec => []IInv)
<1> SUFFICES ASSUME ~WakeFails PROVE Spec => []IInv
  OBVIOUS
<1>1. IInv /\ [Next]_vars => IInv'
  BY NextIInv
<1> QED BY InitIInv, <1>1, PTL DEF Spec, Safe

\* A response of any length through a buffer of any size keeps its bytes and
\* its indices within their types (drain and flush, ResponseStream.zig).
THEOREM TypeCorrect == ~WakeFails => (Spec => []TypeOK)
BY Invariance, PTL DEF IInv

\* The peer is sent what was written, in order and once each, and all of it
\* before the response is complete (flush, consume and finish).
THEOREM OrderCorrect == ~WakeFails => (Spec => []InOrder)
BY Invariance, PTL DEF IInv

\* The assertion of consume() holds.
THEOREM ConsumeCorrect == ~WakeFails => (Spec => []ConsumeDefined)
BY Invariance, PTL DEF IInv

\* No publication of flush waits for an event loop that was not woken.
THEOREM SeenCorrect == ~WakeFails => (Spec => []PublicationSeen)
BY Invariance, PTL DEF IInv

\* No signal of consume() or cancel() misses a producer on its way to sleep.
THEOREM SignalCorrect == ~WakeFails => (Spec => []NoMissedSignal)
BY Invariance, PTL DEF IInv
=============================================================================

--------------------------- MODULE ResponseStream ---------------------------
(***************************************************************************)
(* The rendezvous between an application thread that produces a streamed   *)
(* response and the event loop that transmits it                           *)
(* (endpoint/ResponseStream.zig): one buffer, handed over by an atomic     *)
(* publication, with a mutex and a condition variable for the way back.    *)
(* Connections.tla uses it one level up, where a publication and a wait    *)
(* are single steps; here every atomic access is a step of its own.        *)
(*                                                                         *)
(* The bytes of a response are numbered 1, 2, ... as they are written.     *)
(***************************************************************************)
EXTENDS Integers, Sequences

CONSTANTS
  Capacity,   \* length of the buffer
  Total,      \* bound on the bytes a producer writes
  WakeFails   \* writing the eventfd may fail other than with EAGAIN or EINTR

ASSUME ResponseStreamAssumption ==
  Capacity \in Nat \ {0} /\ Total \in Nat /\ WakeFails \in BOOLEAN

VARIABLES
  publication, published_len, canceled,
  buffer,     \* writer.buffer
  end,        \* writer.end
  produced,   \* bytes written so far
  mutex,      \* its holder
  waiting,    \* the producer is on the condition variable
  producer,   \* where the application thread is
  finishing,  \* the flush under way is the one of finish
  event,      \* the eventfd is readable
  worker,     \* where the event loop is
  offset,     \* published bytes already copied
  out         \* bytes copied out of the buffer

stream == <<publication, published_len, buffer, end, produced, waiting, producer, finishing>>
loop == <<canceled, worker, offset, out>>
vars == <<stream, loop, mutex, event>>

Init ==
  /\ publication = "writing" /\ published_len = 0 /\ canceled = FALSE
  /\ buffer = [i \in 1 .. Capacity |-> 0] /\ end = 0 /\ produced = 0
  /\ mutex = "free" /\ waiting = FALSE /\ producer = "hook" /\ finishing = FALSE
  /\ event = FALSE /\ worker = "idle" /\ offset = 0 /\ out = <<>>

(***************************************************************************)
(* The producer.  The hook writes and flushes as it likes and then returns,*)
(* with an error or not (runStream).                                       *)
(***************************************************************************)
Write ==
  /\ producer = "hook" /\ end < Capacity /\ produced < Total
  /\ buffer' = [buffer EXCEPT ![end + 1] = produced + 1]
  /\ end' = end + 1 /\ produced' = produced + 1
  /\ UNCHANGED <<publication, published_len, waiting, producer, finishing, loop, mutex, event>>

\* An explicit flush, a full buffer (drain), or the flush of finish.
CallFlush ==
  /\ producer = "hook"
  /\ producer' = "lock" /\ finishing' \in BOOLEAN
  /\ UNCHANGED <<publication, published_len, buffer, end, produced, waiting, loop, mutex, event>>

HookFails ==
  /\ producer = "hook"
  /\ producer' = "fail"
  /\ UNCHANGED <<publication, published_len, buffer, end, produced, waiting, finishing, loop, mutex, event>>

Returned == IF finishing THEN "finish" ELSE "hook"

\* flush up to the store of the publication; it keeps the mutex if it stores.
flush ==
  /\ producer = "lock" /\ mutex = "free"
  /\ IF canceled \/ end = 0
     THEN /\ producer' = IF canceled THEN "fail" ELSE Returned
          /\ UNCHANGED <<publication, published_len, mutex>>
     ELSE /\ producer' = "notify" /\ mutex' = "producer"
          /\ published_len' = end /\ publication' = "ready"
  /\ UNCHANGED <<buffer, end, produced, waiting, finishing, loop, event>>

\* Mutant: only the end of the stream wakes the event loop.
notifyEnd ==
  /\ producer \in {"notify", "notify_end", "notify_fail"}
  /\ event' = (event \/ producer # "notify")
  /\ producer' = IF producer = "notify" THEN "check" ELSE "returned"
  /\ UNCHANGED <<publication, published_len, buffer, end, produced, waiting, finishing, loop, mutex>>

\* EAGAIN means that the eventfd is readable already.
notify ==
  /\ producer \in {"notify", "notify_end", "notify_fail"}
  /\ \/ /\ event' = TRUE
        /\ producer' = IF producer = "notify" THEN "check" ELSE "returned"
        /\ UNCHANGED mutex
     \/ /\ WakeFails
        /\ producer' = IF producer = "notify_fail" THEN "returned" ELSE "fail"
        /\ mutex' = IF producer = "notify" THEN "free" ELSE mutex
        /\ UNCHANGED event
  /\ UNCHANGED <<publication, published_len, buffer, end, produced, waiting, finishing, loop>>

\* Mutant: a producer gives up on a publication that is not consumed at once.
CheckOnce ==
  /\ producer = "check"
  /\ mutex' = "free"
  /\ IF canceled \/ publication = "ready"
     THEN producer' = "fail" /\ UNCHANGED end
     ELSE producer' = Returned /\ end' = 0
  /\ UNCHANGED <<publication, published_len, buffer, produced, waiting, finishing, loop, event>>

\* The loop condition, and the cancellation flag read inside or after it.
Check ==
  /\ producer = "check"
  /\ IF canceled
     THEN producer' = "fail" /\ mutex' = "free" /\ UNCHANGED end
     ELSE IF publication = "ready"
          THEN producer' = "wait" /\ UNCHANGED <<mutex, end>>
          ELSE producer' = Returned /\ mutex' = "free" /\ end' = 0
  /\ UNCHANGED <<publication, published_len, buffer, produced, waiting, finishing, loop, event>>

Wait ==
  /\ producer = "wait"
  /\ producer' = "asleep" /\ waiting' = TRUE /\ mutex' = "free"
  /\ UNCHANGED <<publication, published_len, buffer, end, produced, finishing, loop, event>>

\* Signalled, or woken for no reason.
Relock ==
  /\ producer = "asleep" /\ ~waiting /\ mutex = "free"
  /\ producer' = "check" /\ mutex' = "producer"
  /\ UNCHANGED <<publication, published_len, buffer, end, produced, waiting, finishing, loop, event>>

SpuriousWake ==
  /\ producer = "asleep" /\ waiting
  /\ waiting' = FALSE
  /\ UNCHANGED <<publication, published_len, buffer, end, produced, producer, finishing, loop, mutex, event>>

finish ==
  /\ producer = "finish"
  /\ publication' = "finished" /\ producer' = "notify_end"
  /\ UNCHANGED <<published_len, buffer, end, produced, waiting, finishing, loop, mutex, event>>

fail ==
  /\ producer = "fail"
  /\ publication' = "failed" /\ producer' = "notify_fail"
  /\ UNCHANGED <<published_len, buffer, end, produced, waiting, finishing, loop, mutex, event>>

(***************************************************************************)
(* The event loop.  It looks at the publication when the eventfd is        *)
(* readable, at each tick, and after a chunk is consumed.  HTTP/1 copies a *)
(* publication at once and consumes it when it is sent, HTTP/2 copies what *)
(* the peer's window allows and consumes it with the last byte.            *)
(***************************************************************************)
EventRead ==
  /\ event /\ worker = "idle"
  /\ event' = FALSE /\ worker' = "pump"
  /\ UNCHANGED <<stream, canceled, offset, out, mutex>>

Tick ==
  /\ worker = "idle"
  /\ worker' = "pump"
  /\ UNCHANGED <<stream, canceled, offset, out, mutex, event>>

pumpResponseStream ==
  /\ worker = "pump"
  /\ IF publication = "ready" /\ offset < published_len
     THEN \E n \in 1 .. published_len - offset :
            /\ out' = out \o SubSeq(buffer, offset + 1, offset + n)
            /\ offset' = offset + n
            /\ worker' = IF offset + n = published_len THEN "sending" ELSE "idle"
     ELSE worker' = "idle" /\ UNCHANGED <<out, offset>>
  /\ UNCHANGED <<stream, canceled, mutex, event>>

\* Mutant: the offset into the publication is not reset.
consumeOffset ==
  /\ worker = "sending" /\ mutex = "free" /\ ~canceled
  /\ publication' = "writing" /\ waiting' = FALSE
  /\ worker' = "pump"
  /\ UNCHANGED <<published_len, buffer, end, produced, producer, finishing, canceled, offset, out, mutex, event>>

\* The chunk is sent, or the connection is closed first.
consume ==
  /\ worker = "sending" /\ mutex = "free" /\ ~canceled
  /\ publication' = "writing" /\ waiting' = FALSE
  /\ worker' = "pump" /\ offset' = 0
  /\ UNCHANGED <<published_len, buffer, end, produced, producer, finishing, canceled, out, mutex, event>>

Cancel ==
  /\ ~canceled /\ worker \in {"idle", "sending"}
  /\ canceled' = TRUE /\ worker' = "cancel"
  /\ UNCHANGED <<stream, offset, out, mutex, event>>

\* Mutant: the condition is signalled without the mutex.
cancelUnlocked ==
  /\ worker = "cancel"
  /\ waiting' = FALSE /\ worker' = "closing"
  /\ UNCHANGED <<publication, published_len, buffer, end, produced, producer, finishing, canceled, offset, out, mutex, event>>

cancel ==
  /\ worker = "cancel" /\ mutex = "free"
  /\ waiting' = FALSE /\ worker' = "closing"
  /\ UNCHANGED <<publication, published_len, buffer, end, produced, producer, finishing, canceled, offset, out, mutex, event>>

\* The completion of the producer's task is taken: the response ends.
Take ==
  /\ producer = "returned" /\ worker \in {"idle", "closing"}
  /\ worker' = IF worker = "idle" /\ publication = "finished" THEN "complete" ELSE "aborted"
  /\ UNCHANGED <<stream, canceled, offset, out, mutex, event>>

Finished == worker \in {"complete", "aborted"} /\ UNCHANGED vars

Producer ==
  flush \/ notify \/ Check \/ Wait \/ Relock \/ finish \/ fail

Worker ==
  EventRead \/ pumpResponseStream \/ consume \/ cancel \/ Take

Next ==
  \/ Producer \/ Write \/ CallFlush \/ HookFails \/ SpuriousWake
  \/ Worker \/ Tick \/ Cancel \/ Finished

\* The hook itself need not return unless its stream is canceled, and the
\* peer need not read.
Fairness ==
  /\ WF_vars(Producer) /\ WF_vars(canceled /\ (CallFlush \/ HookFails))
  /\ WF_vars(EventRead) /\ WF_vars(pumpResponseStream) /\ WF_vars(Take)
  /\ SF_vars(cancel)

Safe == Init /\ [][Next]_vars
Spec == Safe /\ Fairness

(***************************************************************************)
(* Properties                                                              *)
(***************************************************************************)
\* The fields keep their types: what the producer writes stays within its
\* buffer (drain, ResponseStream.zig 109) and so does what is published.
TypeOK ==
  /\ publication \in {"writing", "ready", "finished", "failed"}
  /\ {canceled, waiting, finishing, event} \subseteq BOOLEAN
  /\ published_len \in 0 .. Capacity /\ offset \in 0 .. Capacity
  /\ produced \in 0 .. Total
  /\ buffer \in [1 .. Capacity -> 0 .. Total] /\ end \in 0 .. Capacity
  /\ mutex \in {"free", "producer"}
  /\ producer \in {"hook", "lock", "notify", "notify_end", "notify_fail", "check", "wait",
                   "asleep", "finish", "fail", "returned"}
  /\ worker \in {"idle", "pump", "sending", "cancel", "closing", "complete", "aborted"}
  /\ out \in Seq(1 .. Total)

\* The peer is sent the bytes that were written, in order and once each, and
\* all of them before the response is ended as complete: the producer does
\* not reuse the buffer while it is published.
InOrder ==
  /\ out = [i \in 1 .. Len(out) |-> i]
  /\ worker = "complete" => Len(out) = produced

\* consume() asserts that what it acknowledges is still published.
ConsumeDefined ==
  worker = "sending" => publication = "ready"

\* A chunk that waits for the event loop is never left without a wakeup.
PublicationSeen ==
  publication = "ready" /\ offset < published_len /\ worker = "idle"
    => event \/ producer = "notify" \/ offset > 0

\* A producer asleep on the condition variable has something left to wait
\* for: an unconsumed publication, or the signal of a cancellation to come.
NoMissedSignal ==
  producer = "asleep" /\ waiting
    => publication = "ready" /\ (canceled => worker = "cancel")

\* Cancellation gets the application thread back, wherever it is.
CancelReturns == canceled ~> (producer = "returned")
=============================================================================

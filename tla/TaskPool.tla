------------------------------ MODULE TaskPool ------------------------------
(***************************************************************************)
(* What the application executor promises the event loops that share it:   *)
(* a submitted task runs once, on one thread, and its completion is handed *)
(* back once.  Submission may always be refused, which changes nothing.    *)
(* The executor (Executor.tla) implements this specification; the          *)
(* connections of a worker (Connections.tla, Http2.tla) are built on it.   *)
(***************************************************************************)
CONSTANT Task

VARIABLES
  queued,   \* accepted by submit, not yet taken by a thread
  running,  \* taken by a thread, completion not yet published
  done      \* completion published, not yet taken by the owner

vars == <<queued, running, done>>

Outstanding == queued \cup running \cup done

Init == queued = {} /\ running = {} /\ done = {}

Submit(t) ==
  /\ t \notin Outstanding
  /\ queued' = queued \cup {t}
  /\ UNCHANGED <<running, done>>

Start(t) ==
  /\ t \in queued
  /\ queued' = queued \ {t}
  /\ running' = running \cup {t}
  /\ UNCHANGED done

Finish(t) ==
  /\ t \in running
  /\ running' = running \ {t}
  /\ done' = done \cup {t}
  /\ UNCHANGED queued

Take(t) ==
  /\ t \in done
  /\ done' = done \ {t}
  /\ UNCHANGED <<queued, running>>

Next == \E t \in Task : Submit(t) \/ Start(t) \/ Finish(t) \/ Take(t)

Safe == Init /\ [][Next]_vars

\* Threads keep taking tasks, also while the executor stops, and hooks return.
Fairness == \A t \in Task : WF_vars(Start(t)) /\ WF_vars(Finish(t))

Spec == Safe /\ Fairness
=============================================================================

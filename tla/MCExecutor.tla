----------------------------- MODULE MCExecutor -----------------------------
(* An instance of the executor: an event loop with two tasks on a lane of two  *)
(* threads, whose one-entry queue fills up, and a second event loop that only  *)
(* stops or fails.                                                             *)
EXTENDS Executor
CONSTANTS w1, fast

MCThreadLane == [th \in Thread |-> fast]
MCTaskLane == [t \in Task |-> fast]
MCOwner == [t \in Task |-> w1]
MCQueueLen == [l \in Lane |-> 1]
=============================================================================

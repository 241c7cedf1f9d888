SPECIFICATION Spec
CONSTANTS
  w1 = w1
  fast = fast
  None = None
  Worker = {w1, w2}
  Lane = {fast}
  Thread = {f1, f2}
  Task = {a, b}
  ThreadLane <- MCThreadLane
  TaskLane <- MCTaskLane
  Owner <- MCOwner
  QueueLen <- MCQueueLen
  EventMax = 1
INVARIANTS TypeOK CompletionRoom NoMissedSignal CompletionAnnounced
PROPERTIES PoolSpec EveryTaskReturns StopTerminates

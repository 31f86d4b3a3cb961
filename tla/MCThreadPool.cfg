\* The pool may be destroyed, or the program ended by an exception.
SPECIFICATION FairSpec
CONSTANTS
  NumThreads = 3
  Client = {c1, c2}
  NONE = NONE
  MaxTasks = 4
INVARIANT
  WakeUpPerTask
PROPERTIES
  ImplementsQueue
  EveryTaskRuns
  DestructorReturns
CHECK_DEADLOCK FALSE

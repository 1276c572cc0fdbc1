CONSTANTS
  Worker = {w1, w2, w3}
  NoWorker = NoWorker
  InitCount = 1
  MinCounts = {1}
  MaxCounts = {2}
  MaxTasks = 2
SPECIFICATION Spec
INVARIANT StoppedMeansStopped
CHECK_DEADLOCK FALSE

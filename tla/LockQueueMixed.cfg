CONSTANTS
  Parts = {"queue"}
  t1 = t1
  t2 = t2
  t3 = t3
  a = a
  b = b
  NoCall = NoCall
  NoThread = NoThread
  Threads <- MCThreads3
  Calls <- MixedCalls
  Values <- One
  InitCapacity = 2
  Capacities <- NoCapacities
  Worker = {w1}
  NoWorker = NoWorker
  InitCount = 1
  MinCounts = {1}
  MaxCounts = {1}
  MaxTasks = 1
SPECIFICATION ThreadsSpec
INVARIANT PushBlocksOnlyWhenFull

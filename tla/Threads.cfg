CONSTANTS
  Parts = {"queue", "manager"}
  t1 = t1
  t2 = t2
  t3 = t3
  a = a
  b = b
  NoCall = NoCall
  NoThread = NoThread
  Threads <- MCThreads3
  Calls <- AllCalls
  Values <- MCValues
  InitCapacity = 2
  Capacities <- NoCapacities
  Worker = {w1, w2, w3}
  NoWorker = NoWorker
  InitCount = 1
  MinCounts = {1}
  MaxCounts = {1, 2}
  MaxTasks = 2
SPECIFICATION ThreadsSpec
SYMMETRY SymmetricThreads
INVARIANTS TypeOK MonitorOK PopWakeups QueueBounds
           ManagerTypeOK CountsAreExact ListedAreAlive StopReachesAll
PROPERTIES ImplementsPromise NoBirthAfterStop TasksAreKept
CHECK_DEADLOCK FALSE

CONSTANTS
  NoItem = NoItem
  Values = {a, b}
  Capacity = 3
  t1 = t1
  t2 = t2
  t3 = t3
  a = a
  b = b
  NoCall = NoCall
  NoThread = NoThread
  MaxCount = 12
  MaxLimit = 10
SPECIFICATION QueuesSpec
INVARIANTS TypeOK DisjointSlots SlotsOK LoopTypeOK PushWakeups
PROPERTIES ImplementsFifo NoStalledConsumer NoStalledProducer LimitsKept BusyStay Settles SettlesAtEnough

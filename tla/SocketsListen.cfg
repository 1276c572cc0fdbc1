CONSTANTS
  Addrs = {"a", "b"}
  Addrs6 = {}
  Backlog = 1
  MaxData = 1
SPECIFICATION Spec
INVARIANT ListensAtGiven
CHECK_DEADLOCK FALSE

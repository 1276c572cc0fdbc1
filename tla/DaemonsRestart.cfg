CONSTANTS
  Program = {1, 2}
  Monitored = {1}
  KRestart = 3
  KTimeout = 2
  DmMaxTime = 3
SPECIFICATION Spec
INVARIANT CrashRestarts
CHECK_DEADLOCK FALSE

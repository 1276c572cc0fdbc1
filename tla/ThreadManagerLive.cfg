CONSTANTS
  Worker = {w1, w2, w3}
  NoWorker = NoWorker
  InitCount = 1
  MinCounts = {1}
  MaxCounts = {2}
  MaxTasks = 1
SPECIFICATION FairSpec
PROPERTIES StopEndsAll TasksAreTaken
CHECK_DEADLOCK FALSE

\* One worker, two processes, one restart.
CONSTANTS
  QueueCapacity = 1
  MessageMax = 0
  Workers = 1
  Users = 2
  MaxTasks = 5
  MaxProcesses = 3
  MaxGeneration = 3
  WorkerPriority = 2
  StackCost = 2
  SpaceCost = 2
  ImageCost = 3
  InitialFree = 1
  HeapCost = 5
  DriverBlocks = 1
  RestartTarget = 1
  WaitLimit = 6
  MaxKeys = 0
  MaxRuns = 0
SPECIFICATION Spec
INVARIANT LeakPanicMeansLeak

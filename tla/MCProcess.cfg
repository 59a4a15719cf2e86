\* One worker, two processes, one restart, one message in the queue, one wake-up
\* by the keyboard per tick, one process started by hand.
CONSTANTS
  QueueCapacity = 1
  MessageMax = 1
  Workers = 1
  Users = 2
  MaxTasks = 5
  MaxProcesses = 3
  MaxGeneration = 3
  WorkerPriority = 2
  StackCost = 2
  SpaceCost = 2
  ImageCost = 3
  InitialFree = 1
  HeapCost = 5
  DriverBlocks = 1
  RestartTarget = 1
  WaitLimit = 9
  MaxKeys = 1
  MaxRuns = 1
SPECIFICATION Spec
INVARIANTS
  NoLostWakeup
  MailPartiesLive
  OwnershipInv
  OnlyAccountingPanics
PROPERTIES
  IdsAreFresh
  NoStarvation
  EndedIsRestarted

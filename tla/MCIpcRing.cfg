\* Three cells, two tasks and broadcasts, lengths 0 and 1.
CONSTANTS
  QueueCapacity = 3
  MessageMax = 1
  Ids = {0, 1, 2}
SPECIFICATION Spec
INVARIANTS
  RingInv
PROPERTIES
  ImplementsQueue

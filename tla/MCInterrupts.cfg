\* Boot on each machine of MCWorlds; on two of them keys are pressed once
\* the event loop runs.
SPECIFICATION Spec
CONSTANTS
  SupportedIrqs = {0, 1, 14}
  MaxIoApics = 2
  Pins <- MCPins
  CapabilitySlots = {1, 2, 3}
  MaximumNodes = 3
  BufferSize = 3
  Letters = {"a"}
  Silent = {"arrow"}
  Worlds <- MCWorlds
  Keys = {"a", "left_shift", "arrow", "caps_lock"}
  MaxPresses = 5
  MaxQueue = 2
  Batch = 2
INVARIANTS
  OneWayIn
  EveryVectorIsEnded
  FirmwareRestored
  MsiIsTransactional
  NoSleepWithWork
  KeysInOrder
PROPERTY
  KeysAreServed

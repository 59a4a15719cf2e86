\* A flush that fails after the commit sector is stored.
CONSTANTS
  README = README
  NOTE = NOTE
  LOG = LOG
  TEST = TEST
  BAD = BAD
  plain = plain
  edited = edited
  huge = huge
  Names <- MCNames
  ValidNames <- MCValidNames
  Contents <- MCContents
  ShortContents <- MCShortContents
  MaxFiles = 2
  Builtin <- MCBuiltin
  Default = plain
  TestName = TEST
  TestContent = plain
  DataSectors = 2
  MaxSequence = 3
  NoEntry = NoEntry
  Faults = {"late"}
SPECIFICATION Spec
SYMMETRY MCSymmetry
INVARIANT FailedAppendIsIgnored

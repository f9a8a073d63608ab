SPECIFICATION DriftHealSpec
CONSTANTS
  tagA = tagA
  NoTag = NoTag
  Tag <- MCTag
  Ships <- MCShips
  InRange <- MCInRange
  PackageCount = 1
  MaxVersion = 2
  MaxChanges = 1
  MaxDoublings = 1
  Faults <- NoFaults
INVARIANTS
  RangeLimitedIsUnchanged
CHECK_DEADLOCK FALSE

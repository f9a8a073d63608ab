SPECIFICATION MCDriftHealSpec
CONSTANTS
  tagA = tagA
  NoTag = NoTag
  Tag <- MCTag
  Ships <- MCShips
  InRange <- MCInRange
  PackageCount = 2
  MaxVersion = 2
  MaxChanges = 2
  MaxDoublings = 1
  Faults <- RescanFaults
PROPERTIES
  FreshOutcomesAreTrue
CHECK_DEADLOCK FALSE

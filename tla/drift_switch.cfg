SPECIFICATION DriftSpec
CONSTANTS
  tagA = tagA
  tagB = tagB
  NoTag = NoTag
  Tag <- MCTag
  Ships <- MCShips
  PackageCount = 1
  MaxVersion = 1
  MaxChanges = 1
  MaxDoublings = 1
  Faults <- UnreadableFaults
PROPERTIES
  SwitchDiscardsPackages
CHECK_DEADLOCK FALSE

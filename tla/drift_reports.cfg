SPECIFICATION MCHistorySpec
CONSTANTS
  tagA = tagA
  tagB = tagB
  NoTag = NoTag
  Tag <- MCTag
  Ships <- MCShips
  PackageCount = 1
  MaxVersion = 2
  MaxChanges = 2
  MaxDoublings = 1
  Faults <- AllFaults
INVARIANTS
  EtagMatchesLatest
PROPERTIES
  ReportsAreRecent
  OnlyAReadDropsPackages
  ScansGoOn
  RefreshReturns
CHECK_DEADLOCK FALSE

CONSTANTS
  Tables <- MCTables
  Under2M = 4
  WordSize = 2
  Chunks = 2
  MaxMemArr = 3
  PageLines = 2
  MaxFaulty = 2
SPECIFICATION MemTestFairSpec
INVARIANTS
  TestsWhatIsUsable
  ReportsLocateFaults
  MissesLittle
PROPERTIES
  MemtestEnds

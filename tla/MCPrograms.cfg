CONSTANTS
  w1 = w1
  shell = shell
  Directories <- MCDirectories
  NumFiles = 3
  BlockSize = 4
  Workloads = {w1}
  Loaded = shell
  Pages <- MCPages
  Names = {"a", "b", "c", ""}
  Counts = {0, 3, 5}
  Calls <- MCCalls
  Behind <- MCBehind
  IntLimit = 256
  LongLimit = 65536
SPECIFICATION ProgramsSpec
INVARIANTS
  FlagsTellHolders
  RunsWhatWasTyped
  PrintsWhatIsMeant
  StaysInFormat
PROPERTIES
  RefusesForReason
  ReadsGetTheFile

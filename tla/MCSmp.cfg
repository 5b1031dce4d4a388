CONSTANTS
  NoWork = NoWork
  Cores = {0, 1, 2}
  BSP = 0
  Work = {w1, w2}
  MaxLen = 1
  StatusSize = 4
SPECIFICATION SmpKeysFairSpec
INVARIANTS
  RunAtMostOnce
  StatusTellsTruth
PROPERTIES
  WaitCoversBusy
  WaitEnds
  WorkIsRun

\* Three rows of two columns, so that a line of three characters wraps and scrolls.
CONSTANTS
  Layout <- MCLayout
  Printable = {"5", "%"}
  Rows = 3
  Cols = 2
  TabStop = 2
  MaxLine = 3
  MaxKeys = 4
  MaxPrints = 1
SPECIFICATION ConsoleFairSpec
INVARIANTS
  EchoMatches
  LineIsEdit
  KeysInOrder
PROPERTIES
  KeyIsTaken

\* Two programs whose calls may overlap at any byte of the map, and exceptions at any time; six
\* pages, so that a release leaves holes.
CONSTANTS
  Callers = {c1, c2}
  NumPages = 6
  WordPages = 8
  MaxRequest = 2
SPECIFICATION PageSpec
INVARIANTS
  NoDoubleGrant
  MapTellsOwners
PROPERTIES
  FailsOnlyWhenNoRun

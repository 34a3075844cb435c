SPECIFICATION Spec
CONSTANTS
  Pollers = {p1}
  MaxLines = 3
  MaxLen = 2
  MaxGen = 1
  NoMarker = NoMarker
  Foreign = Foreign
INVARIANT OnlyWholeLines

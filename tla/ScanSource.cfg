SPECIFICATION FairSpec
CONSTANTS
  Pollers = {p1, p2}
  MaxLines = 2
  MaxLen = 2
  MaxGen = 1
  NoMarker = NoMarker
  Foreign = Foreign
INVARIANTS TypeOK AppendOnlyIsSafe SafeUnlessFooled WholeUnlessRaced
PROPERTY LinesDelivered

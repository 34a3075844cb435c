SPECIFICATION Spec
CONSTANTS
  Brokers = {b1, b2}
  MaxID = 2
  Procs = {p1, p2}
  MaxBinds = 3
  Window = 1
  DialTimeout = 1
  Orderly = FALSE
  NoBroker = NoBroker
  NoProc = NoProc
  NoStream = NoStream
SYMMETRY Symmetry
INVARIANTS TypeOK DialIsCurrent ClientIsCurrent ConnectionsAccounted NoRedial
PROPERTY HandleSpec

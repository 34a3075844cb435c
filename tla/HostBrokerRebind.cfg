SPECIFICATION Spec
CONSTANTS
  Brokers = {b1}
  MaxID = 2
  Procs = {p1, p2}
  MaxBinds = 2
  Window = 2
  DialTimeout = 2
  Orderly = TRUE
  NoBroker = NoBroker
  NoProc = NoProc
  NoStream = NoStream
PROPERTY WindowKeptForBind

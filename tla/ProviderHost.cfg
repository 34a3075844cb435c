SPECIFICATION FairSystem
CONSTANTS
  Handlers = {h1}
  Binder = bind
  Procs = {h1, bind}
  Processes = 2
  Brokers = {1, 2}
  MaxID = 2
  MaxBinds = 2
  Window = 1
  DialTimeout = 1
  Orderly = TRUE
  NoBroker = NoBroker
  NoProc = NoProc
  NoStream = NoStream
INVARIANTS SystemTypeOK HandlersUseBoundStreams SystemIntentSurvives
PROPERTIES FirstBindKeepsWindow EveryCallReturns Resumed

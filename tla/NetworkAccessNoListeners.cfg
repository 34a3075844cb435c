SPECIFICATION PolledSpec
CONSTANTS
  Procs = {p1}
  NoProc = NoProc
PROPERTY ListenersServed

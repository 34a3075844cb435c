SPECIFICATION FairSpec
CONSTANTS
  Procs = {p1, p2}
  NoProc = NoProc
INVARIANTS TypeOK IntentSurvives
PROPERTIES CallsReturn IntentResumed

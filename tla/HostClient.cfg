SPECIFICATION FairSpec
CONSTANTS
  p1 = p1
  p2 = p2
  Procs = {p1, p2}
  Half = 4
  Ints <- MCInts
  Keys = {"key"}
  Values = {"", "v"}
  Absent = Absent
  Calls <- MCCalls
  Plugins <- MCPlugins
  Catalog <- MCCatalog
  Libraries = {"films", "shows"}
  MaxLate = 1
  NoCall = NoCall
INVARIANTS TypeOK ReadsWereStored WritesHold AppliedOnce IdsReach
PROPERTIES BoundedCallsReturn

SPECIFICATION FairScrubSpec
CONSTANTS
  p1 = p1
  k1 = k1
  k2 = k2
  s1 = s1
  m1 = m1
  m2 = m2
  Procs = {p1}
  Keys = {k1}
  Slots = {s1}
  SlotOf <- OneSlot
  Garbage = Garbage
  Missing = Missing
  NoProc = NoProc
  Keepers = {m1}
  MaxTTL = 2
  Lifetimes = {1}
  StartTime = 0
  MaxNow = 1
  MaxLosses = 0
  Rottable = {k1}
  Installable = {}
  StaleAge = 1
  MaxAborts = 1
PROPERTIES
  CrashLeftoversReclaimed
  MarkersKept CallsReturn
INVARIANTS
  WriterKeepsStaging

SPECIFICATION Spec
CONSTANTS
  p1 = p1
  p2 = p2
  k1 = k1
  k2 = k2
  s1 = s1
  s2 = s2
  Procs = {p1, p2}
  Keys = {k1}
  Slots = {s1}
  SlotOf <- OneSlot
  Garbage = Garbage
  Missing = Missing
  NoProc = NoProc
  Keepers = {}
  MaxTTL = 2
  Lifetimes = {1, 3}
  StartTime = 1
  MaxNow = 3
  MaxLosses = 1
  Rottable = {k1}
  Installable = {k1}
INVARIANTS
  LockDiscipline
  OwnersFindNothing
  OnlyVerifiedVisible
  AckedSurvives
  FailureHonoured
PROPERTIES
  ValidNeverReplaced
  ImplementsPromise
SYMMETRY Symmetry

SPECIFICATION Spec
CONSTANTS
  Missing = Missing
  Native = Native
  Foreign = Foreign
  Unit = 16
  MaxSize = 8
  MaxAddress = 120
  Jobs <- AllJobs
INVARIANTS OneBuild CandidatesAreHarmless FirstUsableCompanion SymbolsAreUnion
CHECK_DEADLOCK FALSE

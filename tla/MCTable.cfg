SPECIFICATION Spec
CONSTANTS
  Entries = {"main.c", "lib.h"}
  EmptyEntry = ""
  Absent = Absent
  Candidates <- Functions
  Mangled <- Mangles
  Policies = {"Deduplicate", "MergeEqualRanges"}
  Repairs = {TRUE, FALSE}
  Bases = {Absent, 2}
  Executable <- Text
  MaxSize = 3
  MaxFunctions = 3
  Addresses = {0, 1, 2, 3, 4}
INVARIANTS PolicyHonoured OrderIrrelevant RebuildKeeps
CHECK_DEADLOCK FALSE

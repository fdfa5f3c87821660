SPECIFICATION Spec
CONSTANTS
  Absent = Absent
  Models <- AllModels
  Losses = {1, 3, 8, 9, 14, 20, 33, 60, 100}
  Addresses = {99, 100, 105, 112, 139, 355, 70000}
  Requests <- Options
  MaxInlineDepth = 2
  MaxMergedDepth = 1
  MaxLineRange = 14
  MaxOpcode = 255
  MaxAddress = 100000
  V1Limit = 300
INVARIANTS WrittenReadsBack LookupMeansModel LossIsNoticed
CHECK_DEADLOCK FALSE

SPECIFICATION Spec
CONSTANTS
  Nameless = Nameless
  Broken = Broken
  MaxLine = 90
  MaxSize = 20
  Tombstone = 99
  MaxInlineDepth = 3
  MaxMergedDepth = 1
  MaxLineRange = 14
  MaxOpcode = 255
  MaxAddress = 1000
  Text <- TextRanges
  OptionSets = {{}, {"inlines"}, {"inlines", "sites"}}
  Units <- AllUnits
  Accepted <- Validated
INVARIANTS FirstUsableSource EveryLiveRange AcceptedByBuilder DetailsAreSubtrees RowsOfItsSequence
CHECK_DEADLOCK FALSE

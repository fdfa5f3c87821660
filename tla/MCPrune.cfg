SPECIFICATION FairSpec
CONSTANTS
  r1 = r1
  r2 = r2
  Keys = {1, 2}
  Slots = {1, 2}
  SlotOf <- OwnSlots
  Populated = {2}
  Readers = {r1}
  Missing = Missing
  ByteLimit = 9
  EntryLimit = 1
  UnusedAge = 2
  AccessInterval = 1
  BatchSize = 1
  Lengths = {1}
  InitialTimes = {1, 2}
  StartTime = 2
  MaxNow = 3
PROPERTIES
  OwnedUntouched
  HitsProtect
  OldestFirst
  PruneReturns

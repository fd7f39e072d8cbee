SPECIFICATION Spec
CONSTANTS
  NSlots = 3
  EventSize = 16
  EntryAt = 5
  Entries <- MCEntries
  Ids <- MCIds
  SizeMod = 128
  DumpSizes <- MCDumpSizes
  MaxWrites = 2
INVARIANTS TypeOK ListIsLeadingRun ReadIsSlot ListedWasThere
CHECK_DEADLOCK FALSE

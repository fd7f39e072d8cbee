SPECIFICATION Spec
CONSTANTS
  Lens <- MCLens
  Lengths <- MCLengths
  Counts <- MCCounts
  SizeMod = 1048576
  MaxCalls = 2
INVARIANTS TypeOK InBounds Tiling CountHonoured TypedPayloads
PROPERTIES KeepsParsed ImplementsLog
CHECK_DEADLOCK FALSE

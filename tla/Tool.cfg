SPECIFICATION Spec
CONSTANTS
  FileSizes <- MCFileSizes
  EventIds <- MCEventIds
  Numbers <- MCNumbers
  Errnos <- MCErrnos
  WaitStatuses <- MCWaitStatuses
  MaxOptions = 3
  Lengths <- MCLengths
  Counts <- MCCounts
  SizeMod = 1048576
INVARIANTS TypeOK SourcePrecedence EccCutOnce AllOrNothing PrintsWhatWasParsed
CHECK_DEADLOCK FALSE

SPECIFICATION Spec
CONSTANTS
  FileSizes <- MCFileSizes
  EventIds <- MCEventIds
  Numbers <- MCNumbers
  Errnos <- MCErrnos
  WaitStatuses <- MCWaitStatuses
  MaxOptions = 3
  Lengths <- MCLengths
  Counts <- MCCounts
  SizeMod = 1048576
INVARIANT ExitStatusTellsFailure
CHECK_DEADLOCK FALSE

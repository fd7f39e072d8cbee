SPECIFICATION FairSpec
CONSTANTS
  CommonWidth = 6
  NameWidth = 2
  Windows <- MCWindows
  Texts <- MCTexts
  Labels <- MCLabels
  SizeMod = 64
  MaxParts = 10
INVARIANTS TypeOK PartsInOrder OnlySpaceIsLost WordsAreKept RoomyLinesFit
PROPERTY SplitEnds
CHECK_DEADLOCK FALSE

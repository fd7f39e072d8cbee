SPECIFICATION Spec
CONSTANTS
  Files <- MCFiles
  IdOf <- MCIdOf
  FileOf <- MCFileOf
  Contents <- MCContents
  May <- MCMay
  Tails <- MCTails
  MaxChanges = 2
  MaxRuns = 1
INVARIANTS TypeOK ListIsSound ListedCanBeRead DecodesDump
CHECK_DEADLOCK FALSE

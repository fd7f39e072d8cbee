SPECIFICATION FairSpec
CONSTANTS
  Lens <- MCLens
  OccHdrSize = 1
  PipeSize = 2
  MaxSections = 3
INVARIANTS TypeOK ChildSeesWholeLog TraceOrDump NothingLeftBehind
PROPERTY SectionEnds
CHECK_DEADLOCK FALSE

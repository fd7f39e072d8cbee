SPECIFICATION Spec
CONSTANTS
  Plugins <- MCPlugins
  KindOf <- MCKindOf
  IdOf <- MCIdOf
  CompIds <- MCCompIds
  NoPlugin = "none"
  Byte = 4
  RowBytes = 2
  Keys = {2}
  Named = {1}
  Calls <- MCCalls
  RefCodes <- MCRefCodes
  Payloads <- MCPayloads
  MaxSections = 3
  MaxCalls = 2
INVARIANTS TypeOK RegistrySound SectionsKeepCalls JsonShowsReport
CHECK_DEADLOCK FALSE

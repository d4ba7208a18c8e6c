SPECIFICATION Spec
CONSTANTS
  Programs <- MCPrograms
  Images <- MCImages
  Tables = {}
  Counts = {}
  process_unit = {}
  ignore_unit = {"x"}
INVARIANTS
  ScopesExact
  FlagsExact
  TypesResolved
  LookupExact
  BreakpointsPlaced
PROPERTY
  LookupReturns
CHECK_DEADLOCK FALSE

\* One source; a name is registered for two kinds.
CONSTANTS
  a = a
  b = b
  Names = {a, b}
  MaxLines = 1
  None = None
  MaxSources = 1
  Registrable <- MCClash
SPECIFICATION Spec
INVARIANT HandedOutFilled
CHECK_DEADLOCK FALSE

\* Tables of up to two lines; a lookup table that is written and read again.
CONSTANTS
  MaxTime = 1
  MaxVersions = 1
  NoVersion = NoVersion
  Params = {p, q}
  LineValues <- MCLineValues
  LineSplit = 2
  MaxLines = 1
  MaxValues = 1
  None = None
  Setups <- MCSetups
  AddrMin = 1
  AddrMax = 2
  Channels = 2
  Default = 1
  Rounded <- MCRounded
  MaxHits = 1
SPECIFICATION ParametersSpec
INVARIANT WrittenBoardsAreRead
CHECK_DEADLOCK FALSE

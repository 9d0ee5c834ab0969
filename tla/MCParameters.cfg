\* Lists of up to three ranges within 0 .. 5, every run asked for; containers
\* of up to four lines, all sizes of two parameters; tables of up to two lines,
\* one or two hits before they are written and after.
CONSTANTS
  MaxTime = 5
  MaxVersions = 3
  NoVersion = NoVersion
  Params = {p, q}
  LineValues <- MCLineValues
  LineSplit = 2
  MaxLines = 4
  MaxValues = 5
  None = None
  Setups <- MCSetups
  AddrMin = 1
  AddrMax = 2
  Channels = 2
  Default = 1
  Rounded <- MCRounded
  MaxHits = 2
SPECIFICATION ParametersSpec
INVARIANTS
  RangesDisjoint
  LatestVersionKept
  AnswerIsValid
  FoundAtItsBeginning
  ParametersAsWritten
  RoundTrip
  HitsFindTheirFibre
CHECK_DEADLOCK FALSE

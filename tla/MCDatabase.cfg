\* Two sources from all files of up to three lines.
CONSTANTS
  a = a
  b = b
  Names = {a, b}
  MaxLines = 3
  None = None
  MaxSources = 2
  Registrable <- MCRegistrable
SPECIFICATION FairSpec
INVARIANTS
  SectionsAreRead
  FirstSourceWins
PROPERTIES
  ImplementsStore
  SourceIsParsed
CHECK_DEADLOCK FALSE

\* All lists of up to two ranges within 0 .. 5.
CONSTANTS
  MaxTime = 5
  MaxVersions = 2
  NoVersion = NoVersion
SPECIFICATION Spec
INVARIANT ValidVersionIsFound

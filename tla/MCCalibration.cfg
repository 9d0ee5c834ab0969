\* One program that writes up to two records, and the calibration that reads
\* them with nextEvent at the end of its first loop.
CONSTANTS
  Inputs = {"Board"}
  Sizes = {0, 2}
  Requests <- MCRequests
  MaxFiles = 1
  Clients = {"calibrate"}
  MaxPresses = 0
SPECIFICATION ProgramsSpec
INVARIANT EveryPassShowsItsEvent
CHECK_DEADLOCK FALSE

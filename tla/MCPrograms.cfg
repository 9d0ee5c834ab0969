\* Two programs of any kind, on inputs of up to two records, all of which or
\* one are asked for; then one of the readers on any chain of their files.
CONSTANTS
  Inputs = {"DD", "Board", "DR"}
  Sizes = {0, 2}
  Requests <- MCRequests
  MaxFiles = 2
  Clients = {"scan", "calibrate", "display"}
  MaxPresses = 3
SPECIFICATION ProgramsSpec
INVARIANTS
  ProgramsStartUp
  EntriesAreOwnEvents
  ReadsWhatWasWritten
CHECK_DEADLOCK FALSE

\* Files of the PMI setup only.
CONSTANTS
  Formats = {"PMI"}
  Fibers = {1, 2}
  Times <- MCTimes
  Stamps = {1, 2}
  MaxLines = 3
  None = None
SPECIFICATION Spec
INVARIANT RecordedFibreGivesHit
CHECK_DEADLOCK FALSE

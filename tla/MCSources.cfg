\* Files of up to three lines of either format; files of up to two records and
\* a half of every kind, unpackers at up to three addresses, one or four events.
CONSTANTS
  Formats = {"PMI", "CB"}
  Fibers = {1, 2}
  Times <- MCTimes
  Stamps = {1, 2}
  MaxLines = 3
  Kinds = {"DD", "KS", "Petiroc", "TTree", "TP", "HLD", "DR"}
  Unpackers = {u1, u2}
  Addresses = {1, 2, 3}
  Lookup <- MCLookup
  Contents <- MCContents
  Sizes <- MCSizes
  RecordSize = 2
  Limits = {1, 4}
  Fold = 2
  None = None
SPECIFICATION SourcesSpec
INVARIANTS
  NothingLeft
  EventsAreSplit
  StampsAreShared
  EndsAfterLastRecord
  RawIsOfItsRecord
  TracksComeOnce
PROPERTIES
  DeliversStream
  RecordsDeliverStream
  SourcesTerminate
CHECK_DEADLOCK FALSE

\* Three sources with up to three records each; every reflexive and symmetric
\* relation of four hits, two modules; all waveforms of a single channel, or two
\* pulses in three channels.
CONSTANTS
  NumSources = 3
  Fibers = {1, 2}
  Channel <- MCChannel
  Limits <- MCLimits
  MaxRecords = 3
  ZeroTimes <- MCZeroTimes
  NoObject = NoObject
  N = 4
  Modules = {0, 1}
  Window = 6
  Before = 1
  BaseLength = 2
  Unit = 12
  Campaigns <- MCCampaigns
  RawSizes <- MCRawSizes
  None = None
SPECIFICATION EventsSpec
INVARIANTS
  EventsComplete
  AllEventsWritten
  NeverWritesCompressed
  LeftClustersComplete
  ClustersAreComponents
  EveryClusterPlaced
  SignalsAreAnalysed
  CutShowsItsSignals
  ViewersShowTheFiles
PROPERTIES
  CategoriesAreStores
  Terminates
  ClustersFound
CHECK_DEADLOCK FALSE

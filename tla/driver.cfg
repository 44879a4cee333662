SPECIFICATION DFairSpec
CONSTANTS
  e1 = e1
  e2 = e2
  NoSlot = NoSlot
  Exchanges = {e1, e2}
  Order <- Two
  Name <- Mixed
  SnapshotEnabled <- FirstSnapshots
  BUF = 2
  ChannelCap = 1
  Retries = 1
  Sizes = {1, 2, 3}
  MaxTexts <- OneEach
  MaxPulls <- OneEach
INVARIANTS
  DriverTypeOK
  SlotsConserved
  DepthsConserved
  StreamsStartSynced
  BinanceNeverPanics
PROPERTIES
  StreamsAreIndependent
  StartUpEnds
CHECK_DEADLOCK FALSE

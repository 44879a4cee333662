SPECIFICATION Spec
CONSTANTS
  e1 = e1
  NoSlot = NoSlot
  Exchanges = {e1}
  Name <- Binance
  SnapshotEnabled <- MaybeSnapshots
  BUF = 2
  ChannelCap = 1
  Retries = 2
  Sizes = {1, 2}
  MaxTexts <- Two
  MaxPulls <- One
INVARIANTS
  TypeOK
  SlotsConserved
  PoolOutlastsBuffers
  SnapshotBeforeHeld
  SnapshotInOrder
  ReconnectSkipsNothing
PROPERTIES
  Refinement
CHECK_DEADLOCK FALSE

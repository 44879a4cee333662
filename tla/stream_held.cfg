SPECIFICATION Spec
CONSTANTS
  e1 = e1
  NoSlot = NoSlot
  Exchanges = {e1}
  Name <- Binance
  SnapshotEnabled <- Snapshots
  BUF = 2
  ChannelCap = 2
  Retries = 2
  Sizes = {1, 2}
  MaxTexts <- Two
  MaxPulls <- One
INVARIANTS
  HeldDepthsAreKept
CHECK_DEADLOCK FALSE

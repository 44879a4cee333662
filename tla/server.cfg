SPECIFICATION BSpec
CONSTANTS
  e1 = e1
  NoSlot = NoSlot
  Exchanges = {e1}
  Order <- One
  Name <- Binance
  SnapshotEnabled <- Snapshots
  BUF = 1
  ChannelCap = 1
  Retries = 1
  Sizes = {1}
  MaxTexts <- Bound
  MaxPulls <- Bound
INVARIANTS
  StreamsAreSubscribed
CHECK_DEADLOCK FALSE

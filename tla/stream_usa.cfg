SPECIFICATION FairSpec
CONSTANTS
  e1 = e1
  NoSlot = NoSlot
  Exchanges = {e1}
  Name <- BinanceUsa
  SnapshotEnabled <- Snapshots
  BUF = 1
  ChannelCap = 1
  Retries = 1
  Sizes = {1}
  MaxTexts <- One
  MaxPulls <- One
PROPERTIES
  WsDepthsReachReader
CHECK_DEADLOCK FALSE

SPECIFICATION FairSpec
CONSTANTS
  p1 = p1
  p2 = p2
  h1 = h1
  h2 = h2
  h3 = h3
  c1 = c1
  None = None
  N = 2
  S = 2
  Handles = {h1, h2, h3}
  Producers = {p1, p2}
  Consumers = {c1}
  HandleOf <- OwnHandle
  MaxSends = 3
INVARIANTS
  TypeOK
  RingWindow
  IdsAreOwned
  SendWaitsOnlyWhileFull
  RecvWaitsOnlyWhileEmpty
  WakersRegistered
  PerSenderOrder
  ValuesConserved
  NoneIsFinal
PROPERTIES
  Refinement
  SendIsAnswered
  DropReceiverReleasesSenders
  RecvIsAnswered

SPECIFICATION FairSpec
CONSTANTS
  c1 = c1
  c2 = c2
  Clients = {c1, c2}
  RING = 2
  QUEUE = 2
  NUM = 4
  MaxQuotes = 6
INVARIANTS
  TypeOK
  NoGap
PROPERTIES
  Refinement
  QuoteReachesClient
  ForwarderEndsWithClient
CHECK_DEADLOCK FALSE

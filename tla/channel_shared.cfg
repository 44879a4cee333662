SPECIFICATION Spec
CONSTANTS
  p1 = p1
  p2 = p2
  h1 = h1
  h2 = h2
  h3 = h3
  c1 = c1
  None = None
  N = 1
  S = 2
  Handles = {h1, h2, h3}
  Producers = {p1, p2}
  Consumers = {c1}
  HandleOf <- SharedHandle
  MaxSends = 2
INVARIANTS
  SendWaitsOnlyWhileFull

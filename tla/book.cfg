SPECIFICATION Spec
CONSTANTS
  Mid = 1
  Tick = 1
  Depth = 2
  Exchanges = 2
  Precision = 28
  MaxScale = 28
  Prices <- SomePrices
  Locations <- SomeLocations
  MaxSum = 2
INVARIANTS
  TypeOK
  LiquidityNonNegative
  TraverseReturns

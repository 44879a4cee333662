SPECIFICATION FairSpec
CONSTANTS
  w = w
  h = h
  s = s
  m = m
  Tasks = {w, h, s, m}
  Cases <- AllCases
  QUEUE = 2
INVARIANTS
  TypeOK
  
  WireInOrder
PROPERTIES
  LockIsPassedOn
CHECK_DEADLOCK FALSE

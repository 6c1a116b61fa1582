\* Three publishers, two exchanges and two queues that they share.
SPECIFICATION Spec
CONSTANTS
  p1 = p1
  p2 = p2
  p3 = p3
  x1 = x1
  cfdefault = cfdefault
  q1 = q1
  q2 = q2
  None = None
  Publishers <- ThreePublishers
  Exchanges <- TwoExchanges
  DefaultExchange = cfdefault
  Queues <- TwoQueues
  Prior <- DefaultBound
  MaxCalls = 1
  MaxLosses = 1
SYMMETRY Symmetry
\* The publishers stop after MaxCalls calls.
CHECK_DEADLOCK FALSE
INVARIANTS
  TypeOK
  FalseMeansNotQueued
  TrueMeansQueuedOrIgnored
  OnlyTheTarget

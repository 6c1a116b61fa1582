\* The comment of publishMsg: the message is put into the queue.
SPECIFICATION Spec
CONSTANTS
  p1 = p1
  p2 = p2
  p3 = p3
  x1 = x1
  cfdefault = cfdefault
  q1 = q1
  q2 = q2
  None = None
  Publishers <- OnePublisher
  Exchanges <- TwoExchanges
  DefaultExchange = cfdefault
  Queues <- OneQueue
  Prior <- NoBindings
  MaxCalls = 1
  MaxLosses = 0
SYMMETRY Symmetry
\* The publishers stop after MaxCalls calls.
CHECK_DEADLOCK FALSE
INVARIANTS
  TrueMeansQueued

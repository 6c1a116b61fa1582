\* Liveness: a client and the callbacks of two consumer threads call the library.
SPECIFICATION FairSpec
CONSTANTS
  c1 = c1
  c2 = c2
  t1 = t1
  t2 = t2
  t3 = t3
  q1 = q1
  q2 = q2
  None = None
  Null = Null
  Queues <- OneQueue
  Clients <- OneClient
  Threads <- TwoThreads
  Callers <- Everyone
  MaxSubscribes = 2
PROPERTIES
  CallsReturn
  UnsubscribedStops
  SubscriptionPolled
  ImplementsFairContract

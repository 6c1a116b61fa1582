\* Two clients and three consumer threads whose callbacks call the library.
SPECIFICATION Spec
CONSTANTS
  c1 = c1
  c2 = c2
  t1 = t1
  t2 = t2
  t3 = t3
  q1 = q1
  q2 = q2
  None = None
  Null = Null
  Queues <- OneQueue
  Clients <- TwoClients
  Threads <- ThreeThreads
  Callers <- Everyone
  MaxSubscribes = 3
SYMMETRY Symmetry
INVARIANTS
  TypeOK
  NoSelfDeadlock
  OneWorkerPerEpoch
  SubscriptionServed
  NoDanglingHandle
PROPERTIES
  ImplementsContract

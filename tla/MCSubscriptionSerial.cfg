\* One client alone calls the library, for two queues.
SPECIFICATION Spec
CONSTANTS
  c1 = c1
  c2 = c2
  t1 = t1
  t2 = t2
  t3 = t3
  q1 = q1
  q2 = q2
  None = None
  Null = Null
  Queues <- TwoQueues
  Clients <- OneClient
  Threads <- ThreeThreads
  Callers <- ClientsOnly
  MaxSubscribes = 4
SYMMETRY Symmetry
INVARIANTS
  MapAgrees

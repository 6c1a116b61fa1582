\* One queue, two exchanges that others may have declared before, a restart of the server.
SPECIFICATION Spec
CONSTANTS
  q1 = q1
  x1 = x1
  cfdefault = cfdefault
  Nobody = Nobody
  Queues <- OneQueue
  Exchanges <- TwoExchanges
  DefaultExchange = cfdefault
  MaxCalls = 1
  MaxVector = 2
  MaxRestarts = 1
INVARIANTS
  TypeOK
  OpenOnlyBehindConsumer
  PlainMessagesSurvive
  AllOrPrefix

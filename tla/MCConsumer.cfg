\* Two workers of one queue, more messages than a batch, a link that
\* breaks, a pass without a callback.
SPECIFICATION FairSpec
CONSTANTS
  w1 = w1
  w2 = w2
  Workers <- TwoWorkers
  GetNum = 2
  NumMsgs = 3
  MaxLosses = 1
  MaxDiscards = 1
INVARIANTS
  TypeOK
  NothingVanishes
  EachLossOneBatch
  RepeatsNeedLosses
  
PROPERTIES
  EveryMessageArrives

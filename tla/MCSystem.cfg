\* Two programs, a message each, a link that breaks.
SPECIFICATION FairSpec
CONSTANTS
  p1 = p1
  p2 = p2
  Nobody = Nobody
  Programs <- TwoPrograms
  Calls = 1
  GetNum = 2
  MaxLosses = 1
INVARIANTS
  TypeOK
  OneBatchAfterUnsubscribe
  GoneHoldsNothing
  PrintedInOrder
PROPERTIES
  EverythingPrinted

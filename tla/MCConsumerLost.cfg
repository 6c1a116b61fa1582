\* A link that breaks between two acknowledgements of a batch.
SPECIFICATION Spec
CONSTANTS
  w1 = w1
  w2 = w2
  Workers <- OneWorker
  GetNum = 2
  NumMsgs = 2
  MaxLosses = 1
  MaxDiscards = 0
INVARIANTS
  NoMessageLost

\* One thread, three calls of init; the last brings no callback.
SPECIFICATION Spec
CONSTANTS
  w1 = w1
  Workers <- OneWorker
  MaxInits = 3
  HasCallback <- FirstTwo
\* A null pointer that is called ends the program.
CHECK_DEADLOCK FALSE
INVARIANTS
  TypeOK
  QuietPassIsWhole
  CallerNotOlder
  LateOnce
  DiscardNeedsNoCallback

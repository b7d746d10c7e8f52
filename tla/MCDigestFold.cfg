SPECIFICATION FairSpec
CONSTANTS
  e1 = e1
  w1 = w1
  w2 = w2
  N = 2
  Wakes = {e1}
  Workers = {w1, w2}
  DigestSlots = 1
  MaxTrouble = 1
INVARIANTS UnreadIsNeverLost CountedOnce
PROPERTIES FoldingFinishes
CHECK_DEADLOCK FALSE

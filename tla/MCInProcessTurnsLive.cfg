SPECIFICATION FairSpec
CONSTANTS
  e1 = e1
  e2 = e2
  p1 = p1
  p2 = p2
  Events = {e1}
  Procs = {p1, p2}
  NoEvent = NoEvent
  NoProc = NoProc
  Cap = 2
  MaxTrouble = 2
CHECK_DEADLOCK FALSE
PROPERTIES EveryEventEnds

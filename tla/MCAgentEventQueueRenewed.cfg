SPECIFICATION FairSpec
CONSTANTS
  e1 = e1
  r1 = r1
  old1 = old1
  old2 = old2
  w1 = w1
  w2 = w2
  Events = {e1}
  Runners = {r1}
  Legacy = {}
  Enforced = {}
  Sweepers = {w1, w2}
  NoEvent = NoEvent
  Cap = 2
  BatchSize = 1
  MaxMessages = 2
  MaxSweepCrashes = 0
PROPERTIES RenewedIsNotSwept
CHECK_DEADLOCK FALSE

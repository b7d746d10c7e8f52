SPECIFICATION FairHSpec
CONSTANTS
  a = a
  b = b
  c = c
  Seats = {a, b}
  Addressed = {b}
  Messages = {m}
  NoSeat = NoSeat
  None = None
  Leaving = {b}
  MaxMishaps = 1
  MaxLosses = 1
  MaxForgets = 1
PROPERTIES
  EveryMessageSettles
CHECK_DEADLOCK FALSE

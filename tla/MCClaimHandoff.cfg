SPECIFICATION HSpec
CONSTANTS
  a = a
  b = b
  c = c
  Seats = {a, b, c}
  Addressed = {b}
  Messages = {m}
  NoSeat = NoSeat
  None = None
  Leaving = {b}
  MaxMishaps = 1
  MaxLosses = 0
  MaxForgets = 0
SYMMETRY Symmetry
INVARIANTS
  NoSilentLoss
PROPERTIES
  StandDownIsCovered
CHECK_DEADLOCK FALSE

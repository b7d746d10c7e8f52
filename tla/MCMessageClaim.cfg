SPECIFICATION Spec
CONSTANTS
  Messages = {m1, m2}
  Seats = {a, b}
  NoSeat = NoSeat
  MaxInFlight = 2
INVARIANTS
  LeaseIsExclusive
  HistoryIsSound
PROPERTIES
  ImplementsLease
CONSTRAINT
  FewInFlight

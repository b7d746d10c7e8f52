SPECIFICATION Spec
CONSTANTS
  r1 = r1
  r2 = r2
  d1 = d1
  NoRemover = NoRemover
  Refreshers = {r1, r2}
  Removers = {d1}
  Starts = 2
  Stride = 3
  MaxTrouble = 1
SYMMETRY Symmetry
INVARIANTS ReportedIsRevoked HoldIsExclusive MarkIsTrue PairIsWhole ConnectedCanRefresh
CHECK_DEADLOCK FALSE

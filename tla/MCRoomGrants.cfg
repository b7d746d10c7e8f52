SPECIFICATION GSpec
CONSTANTS
    a = a
    b = b
    k1 = k1
    root = root
    child = child
    Nobody = Nobody
    NoGrant = NoGrant
    Seats = {a, b}
    MaxCloses = 2
    Grants = {root, child}
    Parent <- MCParent
    Bound = {child}
    Revokers = {k1}
    Calls = {k1}
    MaxTrouble = 2
INVARIANTS EndedIsRefused OldCloseSparesNew ClosedLeavesNone EndedIsNamedOnce

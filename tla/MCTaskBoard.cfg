SPECIFICATION FairBSpec
CONSTANTS
    a = a
    b = b
    k1 = k1
    k2 = k2
    Person = Person
    Nobody = Nobody
    Seats = {a, b}
    Creators = {b}
    Sweepers = {k1, k2}
    MaxDeferrals = 3
    MaxCloses = 2
INVARIANTS AuthorityIsHolders
PROPERTIES ImplementsAuthority PeersStandDown LapsedIsSettled

SPECIFICATION FairSpec
CONSTANTS
    d1 = d1
    s1 = s1
    u1 = u1
    Nobody = Nobody
    Deciders = {d1}
    Sweepers = {s1}
    Runs = {u1}
    MaxWaiting = 1
    MaxRetries = 4
    MaxTrouble = 1
    MaxStalls = 1
\* A call that is settled stays so.
CHECK_DEADLOCK FALSE
INVARIANTS DoneOwesNothing SentAgainOnlyInTrouble
PROPERTIES KnownEndingStands CallIsHonoured ParkedIsTold

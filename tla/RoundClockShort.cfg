\* Rounds of 2.5 s, in a node that starts with an old head.
SPECIFICATION FairSpec
CHECK_DEADLOCK FALSE \* the clock stops at its bound
CONSTANTS
    RoundLength = 2
    MinPropose = 1
    FirstCheck = 4
    Recheck = 8
    Ages = {3}
    Skews = {0, 1}
    MaxTime = 13
    MaxHeight = 1
    MaxLag = 1
    MaxFaults = 1
    None = None
INVARIANTS TypeOK WakesInTime
PROPERTIES SnapshotsAdvance SubscriberAdvances

\* proposer.go: the proposer waits until enough power has signed.
SPECIFICATION Spec
CHECK_DEADLOCK FALSE \* at the bounds nothing is left to do
CONSTANTS
    n1 = n1
    n2 = n2
    n3 = n3
    a = a
    b = b
    None = None
    Nodes = {n1, n2, n3}
    Validators = {n1, n2, n3}
    Power <- PowerTen
    SelectProposer <- Alone
    AppStates = {a}
    MayAbstain = {}
    Faulty = FALSE
    Starts = {TRUE}
    MaxHeight = 1
    MaxRound = 0
    MaxCrashes = 0
    MaxJumps = 0
INVARIANTS QuorumEndsWait

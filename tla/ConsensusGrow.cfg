\* The single validator of a new chain.
SPECIFICATION FairSpec
CHECK_DEADLOCK FALSE \* at the bounds nothing is left to do
CONSTANTS
    n1 = n1
    n2 = n2
    n3 = n3
    a = a
    b = b
    None = None
    Nodes = {n1}
    Validators = {n1}
    Power <- PowerAlone
    SelectProposer <- Alone
    AppStates = {a}
    MayAbstain = {}
    Faulty = FALSE
    Starts = {TRUE}
    MaxHeight = 3
    MaxRound = 1
    MaxCrashes = 0
    MaxJumps = 0
PROPERTIES HeadsGrow

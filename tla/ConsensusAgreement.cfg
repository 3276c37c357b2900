\* README.md: BFT consensus.
SPECIFICATION Spec
CHECK_DEADLOCK FALSE \* at the bounds nothing is left to do
CONSTANTS
    n1 = n1
    n2 = n2
    n3 = n3
    a = a
    b = b
    None = None
    Nodes = {n1, n2}
    Validators = {n1, n2}
    Power <- PowerSevenThree
    SelectProposer <- Rotate2
    AppStates = {a}
    MayAbstain = {}
    Faulty = FALSE
    Starts = {TRUE}
    MaxHeight = 1
    MaxRound = 1
    MaxCrashes = 0
    MaxJumps = 0
INVARIANTS Agreement

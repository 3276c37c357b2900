\* A leader and a second validator, two heights, one crash, one jump of a head.
SPECIFICATION Spec
CHECK_DEADLOCK FALSE \* at the bounds nothing is left to do
CONSTANTS
    n1 = n1
    n2 = n2
    n3 = n3
    a = a
    b = b
    None = None
    Nodes = {n1, n2}
    Validators = {n1, n2}
    Power <- PowerSevenThree
    SelectProposer <- Alone
    AppStates = {a, b}
    MayAbstain = {n1}
    Faulty = TRUE
    Starts = {TRUE}
    MaxHeight = 2
    MaxRound = 0
    MaxCrashes = 1
    MaxJumps = 1
SYMMETRY Symmetry
INVARIANTS VoteOnce CommitUnique HeadsCommitted
PROPERTIES ImplementsLedger

\* Two validators that lead in turn, two rounds of one height, one fork or jump.
SPECIFICATION Spec
CHECK_DEADLOCK FALSE \* at the bounds nothing is left to do
CONSTANTS
    n1 = n1
    n2 = n2
    n3 = n3
    a = a
    b = b
    None = None
    Nodes = {n1, n2}
    Validators = {n1, n2}
    Power <- PowerSevenThree
    SelectProposer <- Rotate2
    AppStates = {a}
    MayAbstain = {n1}
    Faulty = FALSE
    Starts = {TRUE}
    MaxHeight = 1
    MaxRound = 1
    MaxCrashes = 0
    MaxJumps = 1
INVARIANTS TypeOK VotesFollowLeader

\* Two proposers that take turns and fork, a crash and a failed fetch.
SPECIFICATION Spec
CHECK_DEADLOCK FALSE \* once every commit is handled nothing is left to do
CONSTANTS
    g = g
    b1 = b1
    b2 = b2
    b3 = b3
    b4 = b4
    c3 = c3
    m = m
    n = n
    None = None
    Genesis = g
    Blocks = {g, b1, b2, b3, b4, c3}
    Parent <- ForkParent
    Height <- HeightOf
    Rejected = {}
    Marked = {c3}
    SameConf = {g, b1, b2, b3, b4, c3}
    SameValSet = {g, b1, b2, b3, b4, c3}
    Sent <- ForkPeers
    Founder = TRUE
    MaxSegs = 6
    MaxCrashes = 1
    MaxFails = 1
INVARIANTS TypeOK SegmentsOrdered

\* A node that joins a chain whose one proposer commits every block.
SPECIFICATION FairSpec
CHECK_DEADLOCK FALSE \* once every commit is handled nothing is left to do
CONSTANTS
    g = g
    b1 = b1
    b2 = b2
    b3 = b3
    b4 = b4
    c3 = c3
    m = m
    n = n
    None = None
    Genesis = g
    Blocks = {g, b1, b2, b3, b4}
    Parent <- LinearParent
    Height <- HeightOf
    Rejected = {}
    Marked = {}
    SameConf = {g, b1, b2, b3, b4}
    SameValSet = {g, b1, b2, b3, b4}
    Sent <- OnePeer
    Founder = FALSE
    MaxSegs = 4
    MaxCrashes = 0
    MaxFails = 0
INVARIANTS SegmentIsPath DisjointedQueued
PROPERTIES HeadDescends Converges

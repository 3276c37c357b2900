\* One proposer whose last block is invalid, a crash and a failed fetch.
SPECIFICATION Spec
CHECK_DEADLOCK FALSE \* once every commit is handled nothing is left to do
CONSTANTS
    g = g
    b1 = b1
    b2 = b2
    b3 = b3
    b4 = b4
    c3 = c3
    m = m
    n = n
    None = None
    Genesis = g
    Blocks = {g, b1, b2, b3, b4}
    Parent <- LinearParent
    Height <- HeightOf
    Rejected = {b4}
    Marked = {b3}
    SameConf = {g, b1, b2, b3, b4}
    SameValSet = {g, b1, b2, b3, b4}
    Sent <- OnePeer
    Founder = TRUE
    MaxSegs = 6
    MaxCrashes = 1
    MaxFails = 1
INVARIANTS LinksMatch HeadValidated

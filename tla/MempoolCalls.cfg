\* Two calls of ProposeBlock and two transactions.
SPECIFICATION FairSpec
CHECK_DEADLOCK FALSE \* at the bounds nothing is left to do
CONSTANTS
    t1 = t1
    t2 = t2
    None = None
    Txs = {t1, t2}
    Prio <- PrioOf
    Options <- Several
    MaxCalls = 2
INVARIANTS TypeOK OnePlace BlockWithinLimits
PROPERTIES CallsEnd

\* One call, with the deadline at the end of the round.
SPECIFICATION Spec
CHECK_DEADLOCK FALSE \* at the bounds nothing is left to do
CONSTANTS
    t1 = t1
    t2 = t2
    None = None
    Txs = {t1, t2}
    Prio <- PrioOf
    Options <- AtEnd
    MaxCalls = 1
INVARIANTS FoundIsProcessed

\* Two loops that send, three messages, two faults.
SPECIFICATION FairSpec
CHECK_DEADLOCK FALSE \* at the bounds nothing is left to do
CONSTANTS
    Loops = {"proposer", "validator"}
    MaxAge = 1
    ChanSize = 1
    Skews = {0, 1}
    MaxMsgs = 3
    MaxTime = 2
    MaxFaults = 2
    None = None
INVARIANTS TypeOK LinksBack StampsOrdered SubscriptionInOrder
PROPERTIES HandledInOrder SendEnds

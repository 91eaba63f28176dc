SPECIFICATION FairSpec
CONSTANTS
    alice = alice
    bob = bob
    rent = rent
    food = food
    Accounts <- OneAccount
    Payloads <- TwoPayloads
    Priorities <- LowAndHigh
    MaxSequence = 2
    OnDisk = FALSE
    Faults = {}
    Discipline = {"monotoneSeed", "marksDispatched"}
PROPERTIES
    EveryPaymentLeavesQueue
CHECK_DEADLOCK FALSE

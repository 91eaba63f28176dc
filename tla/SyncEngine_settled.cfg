SPECIFICATION Spec
CONSTANTS
    alice = alice
    bob = bob
    rent = rent
    food = food
    Accounts <- OneAccount
    Payloads <- TwoPayloads
    Priorities <- LowAndHigh
    MaxSequence = 2
    OnDisk = TRUE
    Faults = {}
    Discipline = {"monotoneSeed"}
PROPERTIES
    SettledIsTerminal
CHECK_DEADLOCK FALSE

SPECIFICATION Spec
CONSTANTS
    alice = alice
    bob = bob
    rent = rent
    food = food
    Accounts <- OneAccount
    Payloads <- TwoPayloads
    Priorities <- LowAndHigh
    MaxSequence = 2
    OnDisk = TRUE
    Faults = {}
    Discipline = {"marksDispatched"}
INVARIANTS
    NoSequenceReuse
CHECK_DEADLOCK FALSE

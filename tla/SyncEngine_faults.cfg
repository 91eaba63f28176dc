SPECIFICATION Spec
CONSTANTS
    alice = alice
    bob = bob
    rent = rent
    food = food
    Accounts <- OneAccount
    Payloads <- TwoPayloads
    Priorities <- OneTier
    MaxSequence = 3
    OnDisk = TRUE
    Faults = {"droppedFuture", "historyWrite"}
    Discipline = {"monotoneSeed", "marksDispatched"}
SYMMETRY Symmetry
INVARIANTS
    NoSequenceReuse
    AtMostOneHandoff
    HeapBackedByDisk
    TrackerAtMostOneMoveBehind

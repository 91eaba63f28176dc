SPECIFICATION Spec
CONSTANTS
    left = left
    right = right
    Envelopes <- Payments
    PriorityOf <- Tiers
    Tasks <- TwoTasks
    MaxCount = 1
    Window = 2
    MaxInFlight = 1
    Timeout = 2
    MaxTime = 3
SYMMETRY Symmetric
INVARIANTS EmergencyBound WindowBound NothingForgotten
PROPERTIES  OldestOfTierFirst

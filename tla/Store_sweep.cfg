SPECIFICATION Spec
CONSTANTS
    left = left
    right = right
    other = other
    relay = relay
    wallet = wallet
    Envelopes <- TwoEnvelopes
    Conflicts <- NoConflict
    Tasks <- TwoTasks
    BatchStatuses = {"Queued", "Propagating", "Settled", "Failed"}
    MaxEscalations = 0
PROPERTIES
    SettledIsTerminal
CHECK_DEADLOCK FALSE

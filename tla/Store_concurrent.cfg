SPECIFICATION FairSpec
CONSTANTS
    left = left
    right = right
    other = other
    relay = relay
    wallet = wallet
    Envelopes <- ThreeEnvelopes
    Conflicts <- SharedConflicts
    Tasks <- TwoTasks
    BatchStatuses = {"Queued", "Propagating", "Settled"}
    MaxEscalations = 2
INVARIANTS
    DisputeIsEscalated
PROPERTIES
    NeverRequeued
    EveryDisputeIsSubmitted

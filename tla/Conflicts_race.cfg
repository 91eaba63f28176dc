SPECIFICATION Spec
CONSTANTS
    terminal = terminal
    phone = phone
    honest1 = honest1
    honest2 = honest2
    liar = liar
    Devices <- TwoDevices
    Envelopes <- FourEnvelopes
    SlotOf <- Slots
    Raced <- FirstTwo
    Collectors <- TheTerminal
    Relays <- ThreeRelays
    Byzantine <- OneLiar
    Carried <- SignedProofs
    Forged <- BrokenProofs
    Replayed <- OldProofs
    MinQuorum = 2
    MaxEvents = 4
INVARIANTS DetectionIgnoresArrival MergeFindsEveryConflict HonestRelayBehindWinner NwayAgreesWithPairs SameOrderSameDispute
PROPERTIES WinnerBeatEveryContender NoDirectFlip
CHECK_DEADLOCK FALSE

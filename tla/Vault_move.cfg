SPECIFICATION Spec
CONSTANTS
    old = old
    new = new
    right = right
    typo = typo
    rent = rent
    tea = tea
    Devices <- TwoDevices
    First = old
    Envelopes <- TwoPayments
    Keys <- TwoKeys
    Conflicts <- OneConflict
    MaxHistory = 4
    MaxImports = 1
SYMMETRY Symmetric
INVARIANTS NoSequenceReuse  
PROPERTIES NothingLost

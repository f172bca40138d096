CONSTANTS
    Peers = {ana, bea}
    MaxMessages = 4
    MaxTurns = 3
    MaxCrashes = 1

SPECIFICATION Spec
SYMMETRY Interchangeable
CHECK_DEADLOCK FALSE

INVARIANT TypeOK
INVARIANT ThreadsKept
INVARIANT MeshIsOfTheTurn
INVARIANT RefIsOfRecipient

SPECIFICATION Spec
CONSTANTS
    KeyPrefixes = {"t", "s", "u", "note"}
    StoredKeys <- AllKeys
    MaxDigits = 3
    MaxResults = 3
    MaxRadius = 2
CHECK_DEADLOCK FALSE
INVARIANTS
    KeepsRanking
    ReturnsNeighborhood
    StandsInSequence

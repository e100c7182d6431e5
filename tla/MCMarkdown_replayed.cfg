SPECIFICATION Spec
CONSTANTS
    k1 = k1
    k2 = k2
    t1 = t1
    noAgent = noAgent
    a1 = a1
    w1 = w1
    w2 = w2
    Keys = {k1, k2}
    NoKey = NoKey
    Values <- BodiesRead
    NoValue = NoValue
    ParsedBody <- ReadAs
    Tags = {t1}
    Agents = {noAgent, a1}
    NoAgent = noAgent
    NoRow = NoRow
    MaxSpan = 4
    Writers = {w1}
    Journaled <- FewEntries
    MaxAppends = 2
    MaxTears = 1
CHECK_DEADLOCK FALSE
INVARIANTS
    AcknowledgedEntriesReplayed

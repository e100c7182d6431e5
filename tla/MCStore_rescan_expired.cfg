SPECIFICATION Spec
CONSTANTS
    k1 = k1
    k2 = k2
    k3 = k3
    plain = plain
    padded = padded
    t1 = t1
    t2 = t2
    a1 = a1
    noAgent = noAgent
    p1 = p1
    p2 = p2
    Keys = {k1, k2}
    NoKey = NoKey
    Values = {plain, padded}
    NoValue = NoValue
    ParsedBody <- PadsAreLost
    Tags = {t1, t2}
    Agents = {noAgent, a1}
    NoAgent = noAgent
    NoRow = NoRow
    MaxSpan = 4
    Procs = {p1}
    Servers = {p1}
    Rescanners = {p1}
    StoreCalls <- MixedStores
    ForgetCalls <- KeyForgets
    MaxEntries = 2
    MaxLog = 2
    MaxTime = 3
    MaxFaults = 0
INVARIANTS
    ExpiredNeverComeBack

SPECIFICATION Spec
CONSTANTS
    k1 = k1
    k2 = k2
    s1 = s1
    s2 = s2
    r1 = r1
    x = x
    y = y
    z = z
    Keys = {k1, k2}
    Texts = {x, y, z}
    NoVec = NoVec
    NoRow = NoRow
    NotLoaded = NotLoaded
    Stores <- TwoTexts
    Tagged = {k1}
    Queries <- PlainQueries
    Servers = {s1}
    Searchers = {s1}
    Rescanners = {r1}
    Failing = {"embed", "statement"}
    MaxLog = 2
    MaxRescans = 0
INVARIANTS
    VectorsCurrent

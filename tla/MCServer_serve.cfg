SPECIFICATION FairSpec
CONSTANTS
    q1 = q1
    q2 = q2
    Requests = {q1, q2}
    Kinds <- AllKinds
    Modes = {"http", "stdio"}
    None = None
INVARIANTS
    IndexInLogOrder
    AnsweredIsKept
    OneUnreportedOrphan
    CutOnlyByTimeout
    TurnedAwayLeavesNoTrace
    OneCallInDoubt
PROPERTIES
    CallsAreCarriedOut
    ShutdownEnds
CHECK_DEADLOCK FALSE

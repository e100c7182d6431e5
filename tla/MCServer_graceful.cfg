SPECIFICATION FairSpec
CONSTANTS
    q1 = q1
    q2 = q2
    Requests = {q1, q2}
    Kinds <- FewKinds
    Modes = {"http"}
    None = None
INVARIANTS
    GracefulShutdown
CHECK_DEADLOCK FALSE

CONSTANTS
    a = a
    b = b
    c = c
    None = None
    Conns = {a, b, c}
    N = 3
    MaxFd = 3
    Script <- ThreeScripts
    LeaveAt = {}
SPECIFICATION FairSpec
INVARIANTS ReachesAll NoDuplicates
PROPERTIES Served Flushed
CHECK_DEADLOCK FALSE

CONSTANTS
    a = a
    b = b
    c = c
    None = None
    Conns = {a, b}
    N = 3
    MaxFd = 3
    Script <- ThreeScripts
    LeaveAt = {1}
SPECIFICATION FairSpec
PROPERTIES Served
CHECK_DEADLOCK FALSE

CONSTANTS
    a = a
    b = b
    c = c
    None = None
    Conns = {a, b, c}
    N = 2
    MaxFd = 3
    Script <- ThreeScripts
    LeaveAt = {1, 2, 3, 4}
SPECIFICATION Spec
INVARIANTS TypeOK SenderOwnsConnection NoEcho NothingBeforeSync
CHECK_DEADLOCK FALSE

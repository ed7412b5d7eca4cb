CONSTANTS
    f = f
    g = g
    h = h
    Hidden = Hidden
    None = None
    Files = {f}
    Present = {}
    Settings <- Plain
    MaxRemote = 1
    MaxInode = 4
SPECIFICATION Spec
INVARIANTS ContentReported
CHECK_DEADLOCK FALSE

CONSTANTS
    c1 = c1
    c2 = c2
    c3 = c3
    d1 = d1
    f1 = f1
    g1 = g1
    Server = Server
    Clients = {c1, c2}
    Paths = {d1, f1}
    Dirs = {d1}
    In <- NestedIn
    Root = Root
    Start <- AnyStart
    Wrap = 8
    StartClock = 3
    MaxClock = 4
    MaxEdits = 1
    EditsAt = {"off"}
    Kills = {"quiet", "server"}
    MaxKills = 2
    Absent = Absent
    Torn = Torn
    Dir = Dir
    None = None
SPECIFICATION FairSpec
INVARIANTS TypeOK  WholeFilesWin
PROPERTIES  JoinEnds
CHECK_DEADLOCK FALSE

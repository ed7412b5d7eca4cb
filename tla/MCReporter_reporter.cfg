CONSTANTS
    f = f
    g = g
    h = h
    Hidden = Hidden
    None = None
    Files = {f, g, h}
    Present = {}
    Settings <- Chosen
    MaxRemote = 2
    MaxInode = 4
SPECIFICATION FairSpec
INVARIANTS TypeOK NamesReported WritesHidden
PROPERTIES NamesCatchUp NoEcho
CHECK_DEADLOCK FALSE

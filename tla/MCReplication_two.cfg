CONSTANTS
    c1 = c1
    c2 = c2
    c3 = c3
    f1 = f1
    f2 = f2
    g1 = g1
    d1 = d1
    n1 = n1
    Clients = {c1, c2, c3}
    Files = {f1, f2, g1, n1}
    Dirs = {d1}
    In <- TreeIn
    Root = Root
    Plans <- TwoClients
    Absent = Absent
    Torn = Torn
    Dir = Dir
SPECIFICATION FairSpec
INVARIANTS TypeOK NothingLostUpwards NothingLostDownwards NoReceiverDies NamesNotLost
PROPERTIES Converges
CHECK_DEADLOCK FALSE

CONSTANTS
    p1 = p1
    p2 = p2
    s1 = s1
    s2 = s2
    Producers = {p1, p2}
    Consumers = {s1, s2}
    MaxSent = 3
    None = None
SPECIFICATION FairSpec
INVARIANTS TypeOK MutexHeld NoLostWakeup
PROPERTIES ImplementsFifo Taken

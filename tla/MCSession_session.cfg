CONSTANTS
    Plans <- Crossing
    MaxLen = 2
SPECIFICATION FairSpec
INVARIANTS TypeOK InStep StopsOnlyWhen
PROPERTIES Delivered
CHECK_DEADLOCK FALSE

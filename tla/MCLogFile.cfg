\* Logs of up to two full groups and a part of a third.
CONSTANTS
    Group = 3
    Hashed = 3
    MaxTime = 8
SPECIFICATION Spec
INVARIANTS
    HashedBeforeGroup
    IndexComplete
    LiveSourceReads
PROPERTIES
    LogSpec
CHECK_DEADLOCK FALSE

CONSTANTS
    Processes = {p1, p2}
    MaxListed = 2
    ForFrame = {f}
    Forever = {}
    Values = {"a", "b"}
    ArgLists <- Args
    Results = {"value"}
SPECIFICATION Spec
INVARIANTS
    AllScheduledRun

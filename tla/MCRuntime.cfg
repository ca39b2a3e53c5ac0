CONSTANTS
    Processes = {p1, p2, p3}
    MaxListed = 3
    ForFrame = {f}
    Forever = {g}
    Values = {"a", "b"}
    ArgLists <- Args
    Results = {"value"}
SPECIFICATION FairSpec
INVARIANTS
    SkipsAreExcused
    CacheAnswersAreRight
    RegisteredWhenConnected
PROPERTIES
    EveryProcessRuns

\* A strategy that is first compiled by compileIfNecessary, beside another one;
\* compilations, file operations and scripts may fail.
CONSTANTS
    Strategies = {blue, yellow}
    Callers = {blue}
    MaxEdits = 0
    MaxOpens = 2
    Results = {"success", "warning", "error"}
    MayFail = TRUE
    TournamentMode = FALSE
SPECIFICATION FairSpec
INVARIANTS
    NoLostAnswer
PROPERTIES
    BlockingCompileReturns
CHECK_DEADLOCK FALSE

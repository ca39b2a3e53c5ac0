\* Two strategies that share one compiler.
CONSTANTS
    Strategies = {blue, yellow}
    Callers = {}
    MaxEdits = 1
    MaxOpens = 2
    Results = {"success"}
    MayFail = FALSE
    TournamentMode = FALSE
SPECIFICATION FairSpec
INVARIANTS
    TypeOK
    NoLostWakeup
    PauseProtectsReader
PROPERTIES
    LoadsAreAnswered
    EventuallyFresh
CHECK_DEADLOCK FALSE

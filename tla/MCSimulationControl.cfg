\* Two speeds, a pause by the user and one by a debugger.
CONSTANTS
    Speeds = {1, 2}
    Reasons = {"ui", "debugger"}
    UiReasons = {"ui"}
    MaxQueue = 3
SPECIFICATION FairSpec
INVARIANTS
    PauseRemembersSpeed
    ClockFollowsMode
    ThreadsAgree
    VisionFromOneSource
PROPERTIES
    PauseArrives

CONSTANTS
    Robots = {r1, r2}
    MaxTime = 3
    StandbyDelay = 1
    MoveCache = 1
SPECIFICATION RobotsSpec
SYMMETRY Symmetry
INVARIANTS
    RobotsTypeOK
    StandbyEarned
    HaltedRobotsStop

\* One robot and batches that may also name an unknown one; at most two events
\* wait for each thread.
CONSTANTS
    Robots = {r1}
    MaxBatch = 2
    MaxMail = 2
    MaxInbox = 2
SPECIFICATION FairSpec
INVARIANTS
    HaltReachesRobots
    RetryArmed
    ShownMatches
PROPERTIES
    RobotsStop

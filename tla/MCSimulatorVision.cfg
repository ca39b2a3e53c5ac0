\* Both ways of stepping, and a delay that is reduced and raised on the way.
CONSTANTS
    Delays = {1, 3}
    FirstDelay = 3
    Teams = {"old", "new"}
    FirstTeam = "old"
    MaxPackets = 4
    MaxQueue = 2
    MaxAge = 5
SPECIFICATION Spec
INVARIANTS
    
    NoOutdatedPackets

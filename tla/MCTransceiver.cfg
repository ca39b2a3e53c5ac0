\* A device that forgets its replies when it is closed.
CONSTANTS
    MaxQueue = 3
    MaxPackets = 2
    MaxOwed = 2
    KeepsReplies = FALSE
SPECIFICATION FairSpec
INVARIANTS
    StateMatchesDevice
    NoRadioInSimulation
    SilenceIsTimed
PROPERTIES
    SilenceIsNoticed
    HandshakeEnds

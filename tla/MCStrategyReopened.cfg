\* A closed strategy that is opened again without a load.
CONSTANTS
    Robots = {r1}
    MaxBatch = 1
    MaxMail = 2
    MaxInbox = 2
SPECIFICATION Spec
INVARIANTS
    ClosedStaysClosed

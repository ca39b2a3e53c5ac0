CONSTANTS
    Own = {r1, r2}
    Opponents = {o1}
    Places = {p}
    Outside = out
    OwnKeepers = {r1}
    OpponentKeepers = {o1}
    MaxObjects = 2
    FieldWidthHalf = 8
    FieldHeightHalf = 9
    GoalWidthHalf = 1
    GoalDepth = 1
    DefenseWidthHalf = 3
    DefenseHeight = 3
    FreeKickDist = 1
    CornerDist = 2
    CornerRadius = 3
    MaxRadius = 2
SPECIFICATION Spec
INVARIANTS
    OneWorld
    FieldAreas
    FieldLimits
    FieldSides
PROPERTIES
    DroppedForGood
    PessimisticTouch

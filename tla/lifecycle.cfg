SPECIFICATION Spec
CONSTANTS
    Legs = {0, 1}
    NoPrice = NoPrice
    Plans <- MCPlans
    BarShapes <- MCShapes
    MaxTime = 5
    MaxGap = 2
INVARIANTS
    FillWindow
    LockIsEarned
    NoPhantomExit
    HoldBounded
    RunnerLocksTp2
PROPERTIES
    StopNeverLoosens
CHECK_DEADLOCK FALSE

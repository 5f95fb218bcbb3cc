SPECIFICATION SharedSpec
CONSTANTS
    Legs = {0, 1}
    NoPrice = NoPrice
    Plans <- MCPlans
    BarShapes <- MCShapes
    Slips = {0, 1}
    Delays = {0, 1}
    MaxBars = 3
    Signals = {s1, s2}
    Deciders = {decide}
    Watchers = {watch}
    MaxFaults = 0
    Sent = {0}
    Entry <- MCEntry
    BaseSl <- MCBaseSl
    Tp <- MCTp
    Books <- MCBooks
    TrailStops = {2, 4}
    Lock2 = TRUE
    Buffer = 1
    MinStep = 2
    TrailStep = 1
    MinDist = 0
    Spread = 1
    MaxPrice = 6
    MaxHold = 1
    MaxClock = 1
    MaxErrors = 1
PROPERTY PruneOnlyDead
CHECK_DEADLOCK FALSE

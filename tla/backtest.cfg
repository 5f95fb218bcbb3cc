SPECIFICATION BacktestSpec
CONSTANTS
    Path <- MCPath
    Lives <- MCLives
    Configs <- MCConfigs
    Engines = {"M1", "TICK"}
    Capital = 120
    Lot = 16
    StopDistance = 1
    MinLot = 4
    MaxHold = 3
    PendingExpiry = 3
    DayLength = 2
    DayShift = 1
    Starts = {2}
    MaxSignals = 3
    MaxGap = 2
    MaxTick = 4
    Instants <- MCInstants
    TickDays <- MCTickDays
    WindowDays = 2
    HalfDay = 2
    Cap = 3
    Archives = {"parts", "halves", "dukascopy"}
    NA = NA
    Rows <- MCRows
    ArgSets <- MCArgs
    MaxRows = 7
    RowsInDay = 4
    StartHour = 20
INVARIANTS
    NeverBothWays
    NothingForgotten
    LoadedOnce
    ProbesAreSpaced
    NeverGoesDark
PROPERTY BreakerHolds
CHECK_DEADLOCK FALSE

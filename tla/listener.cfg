SPECIFICATION Spec
CONSTANTS
    Msgs = {1, 2}
    a = a
    b = b
    NoSignal = NoSignal
    Signals <- MCSignals
    MinuteOf <- MCMinuteOf
    MaxInbox = 2
    MayPost <- MCMayPost
    MaxActs = 2
    MaxFaults = 1
INVARIANTS
    UniqueNumbers
    FollowsWhenQuiet
PROPERTIES
    RemovalIsEarned
    Contract
    EventuallyJudged
CHECK_DEADLOCK FALSE

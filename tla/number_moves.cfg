SPECIFICATION ServiceSpec
CONSTANTS
    Minutes15 = 2
    HourLen = 4
    DayLen = 12
    Autumn = 7
    One = 10
    FeedZone = 0
    Plans <- MCFilterPlans
    Goods <- MCGoods
    Slips <- MCSlips
    ProviderZone = 4
    Rules <- MCRules
    Messages <- MCMessages
    PostTimes <- MCPostTimes
    MaxPosts = 2
    MaxEdits = 1
    MaxRestarts = 1
INVARIANT KeysMatchChannel
CHECK_DEADLOCK FALSE

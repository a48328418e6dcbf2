CONSTANTS
    DayLen = 6
    SnoozeLen = 2
    NoTime = NoTime
    Windows <- MCWindows
    ConfigWindow <- Night
    NoRow = NoRow
    LastInstant = 20
SPECIFICATION FairSpec
INVARIANTS
    TypeOK
    OverrideEnds
    LiveUntilWindowEnd
PROPERTIES
    CommandsSurviveCrash
    GateOpensByHand
    ShownCatchesUp

CONSTANTS
    DayLen = 6
    SnoozeLen = 2
    NoTime = NoTime
    Windows <- MCWindows
    ConfigWindow <- Night
    NoRow = NoRow
    LastInstant = 8
    Candidates = {c1}
    Hint = Hint
    MinGap = 2
    ResponseWindow = 3
    DailyCap = 1
SPECIFICATION DaemonSpec
PROPERTIES
    SpeaksOnlyWhenActive

CONSTANTS
    RecentTurns = 2
    CliModes = {"typed", "wav", "listen", "wakeword"}
    MaxTurns = 3
    MaxStarts = 3
SPECIFICATION DialogueSpec
INVARIANTS
    DialogueTypeOK
    RequestAccepted
    Remembers
    RowsPaired
CHECK_DEADLOCK FALSE

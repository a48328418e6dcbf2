CONSTANTS
    StartFrames = 2
    EndFrames = 2
    PrerollFrames = 2
    Timeout = 7
    MaxLag = 2
    CoreMax = 4
    LastSession = 3
SPECIFICATION ListenSpec
INVARIANTS
    ListenTypeOK
    OnsetKept
    ViewFollows
PROPERTIES
    RequestEndsOpenSession

CONSTANTS
    Machines <- AllMachines
    MaxPid = 2
    Processes <- MCProcesses
    ResumePolls = 1
    Deadline = 1
SPECIFICATION LauncherSpec
INVARIANTS
    VerdictHolds
    SingleDaemon
PROPERTIES
    StopReaches
    WindowFollows
CHECK_DEADLOCK FALSE

CONSTANTS
    Machines <- GeminiMachines
    MaxPid = 2
    Processes <- MCProcesses
    ResumePolls = 1
    Deadline = 1
SPECIFICATION LauncherSpec
INVARIANTS
    LitChipBoots
CHECK_DEADLOCK FALSE

CONSTANTS
    Mouths = {"supertonic"}
    Brains = {"partial"}
    Answers <- MCAnswers
    MaxToken = 2
    ScanLimit = 4
    MaxTurns = 2
    Faults <- MCFaults
SPECIFICATION StreamSpec
INVARIANTS
    QuietAfterTurn
CHECK_DEADLOCK FALSE

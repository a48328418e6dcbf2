CONSTANTS
    Mouths = {"supertonic", "gather", "text"}
    Brains = {"partial", "whole"}
    Answers <- MCAnswers
    MaxToken = 2
    ScanLimit = 4
    MaxTurns = 2
    Faults <- MCFaults
SPECIFICATION StreamSpec
INVARIANTS
    StreamTypeOK
    BodyWhole
    OneText
PROPERTIES
    KeepsPromise
CHECK_DEADLOCK FALSE

CONSTANTS
    Windows = {"gui"}
    CoreMax = 3
    GuiMax = 2
    RingMax = 2
    LastEvent = 5
SPECIFICATION FlowSpec
INVARIANTS
    FlowTypeOK
    InOrder
PROPERTIES
    StopHeeded
CHECK_DEADLOCK FALSE

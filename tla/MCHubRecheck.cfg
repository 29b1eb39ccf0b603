SPECIFICATION Spec
CONSTANTS
    SettleTicks = 1
    BoxOpTicks = 1
    MaxCommands = 1
INVARIANT RecheckReadsTheWan
CHECK_DEADLOCK FALSE

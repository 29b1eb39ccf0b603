SPECIFICATION Spec
CONSTANTS
    SettleTicks = 2
    BoxOpTicks = 2
    MaxCommands = 3
INVARIANTS ArmoredBeforeEngaged UnwindsOverRestoredLeaves CommittedStands
PROPERTIES RecoveryIsReal ImplementsGuardedChange CommandEnds
CHECK_DEADLOCK FALSE

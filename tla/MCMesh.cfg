SPECIFICATION Spec
CONSTANTS
    k1 = k1
    k2 = k2
    p1 = p1
    here = here
    there = there
    h1 = h1
    h2 = h2
    t1 = t1
    t2 = t2
    Key <- MCKey
    OwnKey <- MCOwnKey
    Peer <- MCPeer
    Addr <- MCAddr
    Here = here
    Hash <- MCHash
    Terminals <- MCTerminals
    ClockError <- MCClockError
    Skew = 1
    MaxClock = 1
    MaxCommands = 2
    MaxOthers = 2
INVARIANTS CreditIsEarned AcknowledgedStands RefusalRevealsNothing ChampionWasGated
PROPERTIES InviteIsEarned
SYMMETRY MCSymmetry
CHECK_DEADLOCK FALSE

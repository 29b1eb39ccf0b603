SPECIFICATION LiveSpec
CONSTANTS
    p1 = p1
    p2 = p2
    NoPid = NoPid
    LabelsAgree = TRUE
    Pids <- MCPids
    Found <- MCAbsent
    Deadline = 1
    Wall = 2
    Sight = 1
    BeatEvery = 6
    Stale = 6
    ProbeMax = 1
PROPERTY BeatsGoOn

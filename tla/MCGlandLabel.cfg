SPECIFICATION Spec
CONSTANTS
    p1 = p1
    p2 = p2
    NoPid = NoPid
    LabelsAgree = FALSE
    Pids <- MCPids
    Found <- MCAbsent
    Deadline = 1
    Wall = 2
    Sight = 1
    BeatEvery = 6
    Stale = 7
    ProbeMax = 1
INVARIANT NoBeatIsSkipped

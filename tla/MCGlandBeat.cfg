SPECIFICATION Spec
SYMMETRY MCSymmetry
CONSTANTS
    p1 = p1
    p2 = p2
    NoPid = NoPid
    LabelsAgree = TRUE
    Pids <- MCPids
    Found <- MCFound
    Deadline = 1
    Wall = 2
    Sight = 1
    BeatEvery = 6
    Stale = 7
    ProbeMax = 1
INVARIANT NoBeatIsSkipped
PROPERTY KillsAreDue
PROPERTY StoppedLoopIsNoticed

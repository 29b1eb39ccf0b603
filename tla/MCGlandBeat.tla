---------------------------- MODULE MCGlandBeat ----------------------------
EXTENDS GlandBeat, TLC
CONSTANTS p1, p2

MCPids == {p1, p2}
MCFound == {"absent", "garbage", "storm"}
MCAbsent == {"absent"}
MCSymmetry == Permutations(MCPids)

=============================================================================

------------------------------- MODULE MCMesh -------------------------------
EXTENDS Mesh, TLC
CONSTANTS k1, k2, p1, here, there, h1, h2, t1, t2

MCKey == {k1, k2, p1}
MCOwnKey == {k1, k2}
MCPeer == {p1}
MCAddr == {here, there}
MCHash == {h1}
MCHash2 == {h1, h2}
MCTerminals == {t1, t2}
MCClockError == {0, 2}
MCExactClock == {0}
MCSymmetry == Permutations(MCTerminals) \cup Permutations(MCOwnKey)
MCSymmetry2 == MCSymmetry \cup Permutations(MCHash2)

=============================================================================

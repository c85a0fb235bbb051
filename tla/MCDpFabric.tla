----------------------------- MODULE MCDpFabric -----------------------------
\* The three Type-C ports and the two external pipelines of the machine, the first of
\* which also has the HDMI output; both adapters of a port.
EXTENDS DpFabric, TLC

CONSTANTS p1, p2, p3, dpin0, dpin1

MCPorts == {p1, p2, p3}
MCPipes == {1, 2}
MCFixedPipes == {1}
MCDpins == {dpin0, dpin1}

Alike == Permutations(MCPorts) \cup Permutations(MCDpins)
=============================================================================

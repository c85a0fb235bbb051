----------------------------- MODULE MCDpinWork -----------------------------
\* Small instances of DpinWork for TLC: the two DP IN adapters of one router, or
\* one of them.
EXTENDS DpinWork

Both == {"dpin0", "dpin1"}
One == {"dpin0"}
=============================================================================

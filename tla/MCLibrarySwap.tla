--------------------------- MODULE MCLibrarySwap ---------------------------
\* Two updates, three steps that raise and two power cuts, so that one can fall
\* into the repair of another's damage.
EXTENDS LibrarySwap

MCUpdates == 2
MCFaults == 3
MCCuts == 2
=============================================================================

--------------------------- MODULE MCMessageSlot ---------------------------
EXTENDS MessageSlot

CONSTANTS t1, t2, t3, created, destroyed

ThreeThreads == {t1, t2, t3}
TwoLines     == {created, destroyed}
=============================================================================

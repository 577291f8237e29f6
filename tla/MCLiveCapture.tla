--------------------------- MODULE MCLiveCapture -----------------------------
EXTENDS LiveCapture

CONSTANTS k1, k2

MCKeys == {k1, k2}
==============================================================================

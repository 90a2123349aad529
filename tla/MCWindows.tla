---------------------------- MODULE MCWindows ----------------------------
EXTENDS Windows
\* A resize to each end of the allowed range.
MCDeltas == {-40, 40}
===========================================================================

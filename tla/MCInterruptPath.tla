--------------------------- MODULE MCInterruptPath ---------------------------
EXTENDS InterruptPath
==============================================================================

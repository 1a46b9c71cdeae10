--------------------------- MODULE MCHcs20Polling ---------------------------
EXTENDS Hcs20Polling
CONSTANTS c1, c2
=============================================================================

--------------------------- MODULE MCHistoryScan ---------------------------
EXTENDS HistoryScan
=============================================================================

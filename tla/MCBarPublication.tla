--------------------------- MODULE MCBarPublication ---------------------------
EXTENDS BarPublication
=============================================================================

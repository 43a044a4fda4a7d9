--------------------------- MODULE MCStraceInput ---------------------------
EXTENDS StraceInput

CONSTANTS p1, p2, p3
=============================================================================

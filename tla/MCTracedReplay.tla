-------------------------- MODULE MCTracedReplay ---------------------------
EXTENDS TracedReplay

CONSTANTS p1, p2, p3
=============================================================================

---------------------------- MODULE MCNetBuffer ----------------------------
EXTENDS NetBuffer
CONSTANTS p1, p2
=============================================================================

------------------------- MODULE MCElementDeletion -------------------------
EXTENDS ElementDeletion
CONSTANTS player, new, own1, own2, foreign1
=============================================================================

------------------------ MODULE MCSyncerAssignment ------------------------
EXTENDS SyncerAssignment
CONSTANTS v1, ped1, player1, player2
=============================================================================

SPECIFICATION FairSpec
CONSTANTS v1 = v1 ped1 = ped1 player1 = player1 player2 = player2
Vehicles = {v1}
Peds = {ped1}
Players = {player1, player2}
NoPlayer = NoPlayer
Persist = {TRUE, FALSE}
MaxCalls = 2
MaxMoves = 0
PROPERTY SyncerFound
CHECK_DEADLOCK FALSE

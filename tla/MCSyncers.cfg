SPECIFICATION Spec
CONSTANTS v1 = v1 ped1 = ped1 player1 = player1 player2 = player2
Vehicles = {v1}
Peds = {ped1}
Players = {player1, player2}
NoPlayer = NoPlayer
Persist = {TRUE, FALSE}
MaxCalls = 2
MaxMoves = 1
INVARIANTS TypeOK 
CHECK_DEADLOCK FALSE

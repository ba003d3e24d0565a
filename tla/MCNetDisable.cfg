SPECIFICATION Spec
CONSTANTS p1 = p1 p2 = p2
Players = {p1}
NoPlayer = NoPlayer
MaxJobs = 3
MaxSends = 1
MaxPackets = 1
MaxQueue = 2
MaxSwitches = 2
INVARIANT PacketsReachGame

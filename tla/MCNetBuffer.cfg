SPECIFICATION FairSpec
CONSTANTS p1 = p1 p2 = p2
Players = {p1}
NoPlayer = NoPlayer
MaxJobs = 4
MaxSends = 2
MaxPackets = 2
MaxQueue = 2
MaxSwitches = 2
INVARIANTS TypeOK JobPlacement SendsInOrder PacketsInOrder StopLosesNothing
PROPERTIES WaitReturns CallbackHappens

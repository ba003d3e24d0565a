SPECIFICATION FairSpec
CONSTANTS a = a b = b c = c
Resources = {a, b, c}
Order <- MCOrder
Includes <- MCIncludes
SyncDefined = {a, c}
MinClient = {c}
ScriptOps = {"start", "persist", "stop", "restart", "delete", "warp"}
MaxCalls = 3
MaxChanges = 1
MaxQueue = 2
INVARIANTS TypeOK Settled PointersLive IncludersAreDependents StateIsOneFrames
PROPERTY QueueDrains
CHECK_DEADLOCK FALSE

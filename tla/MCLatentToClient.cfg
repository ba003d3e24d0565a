SPECIFICATION FairSpec
CONSTANTS
    Transfers = {t1, t2, t3}
    t1 = t1
    t2 = t2
    t3 = t3
    v1 = v1
    VMs = {v1}
    NoVM = NoVM
    SizeOf <- MCSizeOf
    RateOf <- MCRateOf
    VMOf <- MCVMOf
    IdRange = 2
    MIN_SEND_RATE = 2
    MIN_PACKET_SIZE = 2
    MAX_PACKET_SIZE = 4
    LATENT_PACKET_MAX_SIZE = 5
    MIN_DATA_SIZE = 1
    HeadSize = 1
    MsPerSecond = 4
    MaxTimeMs = 4
    UintRange = 1024
    Deltas = {2, 4}
    ReceiverIsServer = FALSE
    LatePackets = FALSE
INVARIANTS NoReceiveError CurrentRateIsHighest
PROPERTY TransferCompletes

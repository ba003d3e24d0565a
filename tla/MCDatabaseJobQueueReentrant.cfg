CONSTANTS
    Jobs = {j1, j2, j3}
    Conns = {c1}
    NoJob = NoJob
    NoConn = NoConn
    ConnectionOf <- Unshared
    ReentrantHandler = TRUE
SYMMETRY JobSymmetry
SPECIFICATION Spec
INVARIANTS TypeOK JobPlacement ThreadHoldsFront NoDanglingJob FlushScheduled

CONSTANTS
    Jobs = {j1, j2, j3}
    Conns = {c1}
    NoJob = NoJob
    NoConn = NoConn
    ConnectionOf <- Unshared
    ReentrantHandler = FALSE
SYMMETRY JobSymmetry
SPECIFICATION Spec
INVARIANT DisconnectIgnoresResults

CONSTANTS
    Jobs = {j1, j2, j3}
    Conns = {c1, c2}
    NoJob = NoJob
    NoConn = NoConn
    ConnectionOf <- Shared
    ReentrantHandler = FALSE
SYMMETRY JobSymmetry
SPECIFICATION Spec
INVARIANTS QueriesPrecedeDisconnect ShutdownLosesNoQuery FreedNotCollected PollsUncollected
PROPERTIES CallbacksInOrder ImplementsQueryService

CONSTANTS
    Jobs = {j1, j2}
    Conns = {c1}
    NoJob = NoJob
    NoConn = NoConn
    ConnectionOf <- Unshared
    ReentrantHandler = FALSE
SPECIFICATION FairSpec
PROPERTIES PollReturns CallbackHappens ChangesFlushed

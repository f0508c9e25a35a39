SPECIFICATION ServerSpec
CONSTANTS
    Connections = {c1, c2}
    Users = {ann, bob}
    NoUser = NoUser
    NoConnection = NoConnection
    Workers = 4
    MaxTokens = 4
    MaxAccepts = 3
INVARIANTS ServerTypeOK ExactlyUnredeemed NewestIsReached
CHECK_DEADLOCK FALSE
PROPERTIES ConnectionsEnd StopReturns

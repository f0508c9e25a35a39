SPECIFICATION SMSpec
CONSTANTS
    Users = {1, 2}
    Commands <- MCOneCommand
    IntBits = 8
    MaxDelta = 3
    MaxInputsPerTickPerUser = 4
    SizeBits = 4
    c1 = c1
    c2 = c2
    c3 = c3
    Connections = {c1, c3}
    Owner <- MCOwner2
    NoConnection = NoConnection
    MaxTicks = 1
    MaxSessions = 2
    NamedSessions = {1}
    Workers = 2
PROPERTY
    InputsAnswered
CHECK_DEADLOCK FALSE

SPECIFICATION FairSpec
CONSTANTS
    Users = {1, 2, 3, 4}
    Commands = {}
    IntBits = 8
    MaxDelta = 3
    MaxInputsPerTickPerUser = 4
    SizeBits = 4
    Connections = {}
    Owner <- NoConnections
    NoConnection = NoConnection
    MaxTicks = 1
    MaxSessions = 2
    NamedSessions = {1}
    Workers = 5
    Timeouts <- MCTimeouts
    MaxTimeout = 3
    DefaultTimeout = 2
    TimerPeriod = 2
INVARIANTS  QueueIndex QueuedOrPlaying Routing
PROPERTIES ImplementsLifecycle UsesSessionManager WaitEnds

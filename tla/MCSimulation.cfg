SPECIFICATION LoopSpec
CONSTANTS
    Users <- MCUsers
    Commands <- MCCommands
    IntBits = 4
    MaxDelta = 1
    MaxInputsPerTickPerUser = 2
    MaxTicks = 3
INVARIANTS
    LoopTypeOK
    DeterministicReplay
    BufferIsTheFuture
PROPERTY
    BoundedMove

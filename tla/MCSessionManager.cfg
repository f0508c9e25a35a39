SPECIFICATION SMSafety
CONSTANTS
    Users = {1, 2}
    Commands <- MCCommands
    IntBits = 8
    MaxDelta = 3
    MaxInputsPerTickPerUser = 4
    SizeBits = 4
    c1 = c1
    c2 = c2
    c3 = c3
    Connections = {c1, c2}
    Owner <- MCOwnerOfBoth
    NoConnection = NoConnection
    MaxTicks = 1
    MaxSessions = 2
    NamedSessions = {1}
    Workers = 5
INVARIANTS ResultIsFinal ResultOnce
PROPERTIES EventOrder EndedIsFrozen

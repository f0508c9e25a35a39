SPECIFICATION WSSpec
CONSTANTS
    Senders = {e1}
    Workers = 1
    Sizes = {1, 2}
    MaxQueueMessages = 3
    MaxQueueBytes = 4
    MaxMessages = 5
INVARIANTS WSTypeOK WithinLimits  
PROPERTIES ImplementsChannel NothingAfterClosing BackpressureCloses
CHECK_DEADLOCK FALSE

SPECIFICATION WSSpec
CONSTANTS
    Senders = {e1}
    Workers = 1
    Sizes = {1, 2}
    MaxQueueMessages = 2
    MaxQueueBytes = 4
    MaxMessages = 4
INVARIANT WireIsMessages
CHECK_DEADLOCK FALSE

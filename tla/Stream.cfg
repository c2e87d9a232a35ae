SPECIFICATION Spec
CONSTANTS
    Fds = {0}
    Size = 3
    RebaseRatio = 3
    MaxBytes = 5
    MaxInits = 2
    MaxDepth = 2
INVARIANTS TypeOK ByteOrder EmptyIsRebased WatchedFdOpen CloseOnce
PROPERTIES SilentOnceClosed IsChannel BytesReceived
CHECK_DEADLOCK FALSE

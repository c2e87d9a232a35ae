SPECIFICATION Spec
CONSTANTS
    EvRead = {0}
    EvError = {31}
    MaxFd = 4
    Backlog = 3
INVARIANTS OneOwner WatchedFdOpen
PROPERTIES IncomingIsOffered

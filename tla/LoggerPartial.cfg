SPECIFICATION SafeSpec
CONSTANTS
    Threads = {t1, t2}
    Fds = {1, 2}
    Prelude = 1
    Lengths = {0, 1}
    MaxCalls = 2
INVARIANTS LineIntact
CHECK_DEADLOCK FALSE

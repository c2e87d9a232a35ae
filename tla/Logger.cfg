SPECIFICATION Spec
CONSTANTS
    Threads = {t1, t2}
    Fds = {1, 2}
    Prelude = 1
    Lengths = {0, 1}
    MaxCalls = 2
INVARIANTS LinesWhole
PROPERTIES CallsReturn
CHECK_DEADLOCK FALSE

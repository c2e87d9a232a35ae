SPECIFICATION SafeSpec
CONSTANTS
    Fds = {0}
    Ports = {0, 7}
    Lens = {16}
    Strays = {0}
    Huge = {2}
    Revents = {{"READ"}, {"ERROR"}}
    MaxMsgs = 1
    MaxQueue = 1
INVARIANTS AssertsHold
CHECK_DEADLOCK FALSE

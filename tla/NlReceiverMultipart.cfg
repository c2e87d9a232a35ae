SPECIFICATION Spec
CONSTANTS
    Fds = {0}
    Ports = {0, 7}
    Lens = {16, 20}
    Strays = {0}
    Huge = {2}
    Revents = {{"READ"}}
    MaxMsgs = 2
    MaxQueue = 1
PROPERTIES MessagesShown
CHECK_DEADLOCK FALSE

SPECIFICATION Spec
CONSTANTS
    Fds = {0, 1}
    Ports = {0, 7, 9}
    Lens = {18}
    Strays = {0}
    Huge = {2}
    Revents = {{"READ"}, {"ERROR"}, {"READ", "ERROR"}}
    MaxMsgs = 1
    MaxQueue = 2
INVARIANTS OneDescriptor
PROPERTIES MessagesShown RefusedStaysSilent DatagramReported
CHECK_DEADLOCK FALSE

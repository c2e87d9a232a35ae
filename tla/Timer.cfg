SPECIFICATION Spec
CONSTANTS
    NsPerMs = 3
    MsPerSec = 2
    IntSpan = 8
    MaxClock = 19
    MaxDelay = 5
INVARIANTS TypeOK DeadlineExact DifferencesExact LeftInMs

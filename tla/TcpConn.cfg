SPECIFICATION Spec
CONSTANTS
    Fds = {0}
    MaxTime = 3
    MaxAttempts = 3
INVARIANTS AssertsHold OutcomeTruthful QuietWhenIdle WatchedFdOpen ActivityKnown
PROPERTIES CallbackOrder OutcomeReported InputReported
CHECK_DEADLOCK FALSE

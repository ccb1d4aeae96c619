SPECIFICATION Spec
CONSTANTS
    NsPerSec = 2
    Window = 3
    Times <- MCTimes
    Skew = 3
    MaxEvents = 2
INVARIANTS
    NeverOvercounts
    ExactWhenOrdered
CHECK_DEADLOCK FALSE

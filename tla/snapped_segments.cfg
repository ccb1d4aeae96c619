SPECIFICATION Spec
CONSTANTS
    Filler = 80
    V4Bits = 4
    NsPerSec = 1
    SeqSpace = 65536
    SegmentLens = {100, 1000}
    MaxSent = 4000
INVARIANTS
    SameVerdicts
CHECK_DEADLOCK FALSE

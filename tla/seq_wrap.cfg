SPECIFICATION Spec
CONSTANTS
    NsPerSec = 1
    SeqSpace = 8
    Isn = 5
    MaxSegments = 7
    MaxLen = 3
INVARIANTS
    NextSeqTracksStream
    ClassifiedAsStream
CHECK_DEADLOCK FALSE

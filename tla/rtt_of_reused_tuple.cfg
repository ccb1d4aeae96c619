SPECIFICATION MCSpec
CONSTANTS
    NsPerSec = 2
    SeqSpace = 8
    RetransmitNum = 1
    RetransmitDen = 2
    DupAckThreshold = 1
    RttWarnNs = 3
    RstStormPerSec = 9
    SynBacklogThreshold = 9
    ChurnPerSec = 9
    AlertDebounceNs = 2
    Packets <- MCPackets
    Times <- MCTimes
    Skew = 0
    FlowTtlSecs = 2
    HandshakeTimeoutSecs = 1
    Scenes = {"reuse"}
    MaxSegments = 2
PROPERTIES
    RttFromOwnSyn
CHECK_DEADLOCK FALSE

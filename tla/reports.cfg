SPECIFICATION MCSpec
CONSTANTS
    NsPerSec = 1
    SeqSpace = 8
    RetransmitNum = 1
    RetransmitDen = 2
    DupAckThreshold = 2
    RttWarnNs = 9
    RstStormPerSec = 1
    SynBacklogThreshold = 1
    ChurnPerSec = 1
    AlertDebounceNs = 2
    Packets <- MCPackets
    Times <- MCTimes
    Skew = 1
    FlowTtlSecs = 1
    HandshakeTimeoutSecs = 1
    Scenes = {"alerts", "stalls", "opens"}
    MaxSegments = 2
INVARIANTS
    HistoryInv
    ReportedOncePerCause
    SynFirstServiceRight
PROPERTIES
    AlertsSpaced
    TimeoutMeansNoSynAck
CHECK_DEADLOCK FALSE

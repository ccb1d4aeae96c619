SPECIFICATION MCSpec
CONSTANTS
    NsPerSec = 1
    SeqSpace = 8
    RetransmitNum = 1
    RetransmitDen = 2
    DupAckThreshold = 1
    RttWarnNs = 9
    RstStormPerSec = 9
    SynBacklogThreshold = 9
    ChurnPerSec = 9
    AlertDebounceNs = 4
    Packets <- TwoClients
    Times <- WholeSeconds
    Skew = 1
    FlowTtlSecs = 2
    HandshakeTimeoutSecs = 1
    MaxRate = 1
    MaxDupAcks = 0
INVARIANTS
    TypeOK
    EngineInv
    HalfOpenExact
    HandshakeAccounting
    IdleFlowsEvicted
    UnansweredSynReported
PROPERTIES
    NoSilentEviction
    TimeoutReportedOnce
CHECK_DEADLOCK FALSE

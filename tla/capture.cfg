SPECIFICATION Spec
CONSTANTS
    Base = 4
    NsPerSec = 8
    NsPerMicro = 2
    MaxRecordLen = 3
    Backends = {"synthetic", "pcap_file", "live", "ebpf", "etw"}
    Streams <- MCStreams
    Script <- MCScript
    PipeSize = 5
    Cpus = {c1, c2}
    RingSize = 2
    MaxFrames = 4
    WallOffset = 7
INVARIANTS
    DisorderBounded
PROPERTIES
    SourceSafe
    SourceLive
    DropReturns

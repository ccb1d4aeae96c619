SPECIFICATION Spec
CONSTANTS
    Setups <- BareSetups
    Pods <- MCPods
    Outcomes <- MCOutcomes
    GaugeEvery = 2
INVARIANTS
    CaptureErrorFailsExit

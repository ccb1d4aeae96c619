SPECIFICATION Spec
CONSTANTS
    Setups <- MCSetups
    Pods <- MCPods
    Outcomes <- MCOutcomes
    GaugeEvery = 2
INVARIANTS
    TypeOK
    PagesCoherent
    PushesCumulative
    FinalFlushComplete
    SinksUpToDate
PROPERTIES
    ExportNeverBlocks
    ScrapesServed

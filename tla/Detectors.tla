------------------------------ MODULE Detectors -----------------------------
(* The detector chain of l4scope-detect/src/detectors.rs.  A detector sees   *)
(* the state after the packet was applied (the record s of FlowState) and    *)
(* yields at most one event.  Event values and texts are left out; a rate or *)
(* a ratio is compared with its threshold without division.                  *)
EXTENDS FlowState

CONSTANTS
    RetransmitNum, RetransmitDen,   \* retransmit_ratio_warn as a fraction
    DupAckThreshold,                \* dup_ack_threshold
    RttWarnNs,                      \* rtt_warn_ms, in nanoseconds
    RstStormPerSec,                 \* rst_storm_per_sec
    SynBacklogThreshold,            \* syn_backlog_threshold
    ChurnPerSec,                    \* churn_per_sec
    AlertDebounceNs                 \* alert_debounce_secs, in nanoseconds

ASSUME ThresholdAssumption ==
    /\ RetransmitNum \in Nat /\ RetransmitDen \in Nat \ {0}
    /\ DupAckThreshold \in Nat /\ RttWarnNs \in Nat
    /\ RstStormPerSec \in Nat /\ SynBacklogThreshold \in Nat /\ ChurnPerSec \in Nat
    /\ AlertDebounceNs \in Nat

EventKind == {"Retransmission", "DuplicateAck", "OutOfOrder", "ZeroWindow",
              "RstStorm", "HandshakeFailure", "HandshakeTimeout", "SynBacklog",
              "HighRtt", "ConnectionChurn"}

Severity == {"Info", "Warning", "Critical"}

L4Event == [kind : EventKind, severity : Severity, key : FlowKey]

Event(kind, severity, key) == [kind |-> kind, severity |-> severity, key |-> key]

-----------------------------------------------------------------------------
(* The detectors that look at one flow only.                                 *)

RetransmissionFires(s) ==
    /\ s.d.is_retransmit
    /\ s.flow.retransmits * RetransmitDen >= RetransmitNum * s.flow.data_segments

\* Exactly once, when the burst reaches the threshold.
DupAckFires(s) == s.d.is_dup_ack /\ s.d.dup_ack_count = DupAckThreshold

HighRttFires(s) == s.d.rtt_sample_ns # None /\ s.d.rtt_sample_ns >= RttWarnNs

\* The per-flow kinds that report.
FlowFires(s) ==
    UNION { IF RetransmissionFires(s)     THEN {"Retransmission"}   ELSE {},
            IF s.d.is_out_of_order        THEN {"OutOfOrder"}       ELSE {},
            IF DupAckFires(s)             THEN {"DuplicateAck"}     ELSE {},
            IF s.d.zero_window_edge       THEN {"ZeroWindow"}       ELSE {},
            IF HighRttFires(s)            THEN {"HighRtt"}          ELSE {},
            IF s.d.handshake_refused      THEN {"HandshakeFailure"} ELSE {} }

-----------------------------------------------------------------------------
(* The detectors that hold a Debounce.                                       *)

HostWide == {"RstStorm", "SynBacklog", "ConnectionChurn"}

ReadyAlways(last, now) == TRUE      \* mutant: no debounce

\* Debounce::ready.  A last emission of 0 means that there was none.
Ready(last, now) == SatSub(now, last) >= AlertDebounceNs \/ last = 0

RstStormTriggered(s, now) ==
    s.d.rst /\ PerSecAtLeast(s.rst_rate, RateWindow, now, RstStormPerSec)

SynBacklogTriggered(s) ==
    HalfOpenFor(s.half_open, s.flow.service) >= SynBacklogThreshold

ChurnTriggered(s, new_flow_rate, now) ==
    s.d.new_flow /\ PerSecAtLeast(new_flow_rate, RateWindow, now, ChurnPerSec)

\* A detector asks its Debounce only when its threshold is reached.
HostWideFires(debounce, s, new_flow_rate, now) ==
    {kind \in HostWide :
        /\ \/ kind = "RstStorm" /\ RstStormTriggered(s, now)
           \/ kind = "SynBacklog" /\ SynBacklogTriggered(s)
           \/ kind = "ConnectionChurn" /\ ChurnTriggered(s, new_flow_rate, now)
        /\ Ready(debounce[kind], now)}

\* Debounce::ready remembers the emission it allows.
DebounceAfter(debounce, fired, now) ==
    [kind \in HostWide |-> IF kind \in fired THEN now ELSE debounce[kind]]

-----------------------------------------------------------------------------

SeverityOf(kind, s) ==
    CASE kind \in {"OutOfOrder", "ConnectionChurn"} -> "Info"
      [] kind = "RstStorm" -> "Critical"
      [] kind = "HighRtt" ->
           IF s.d.rtt_sample_ns >= 4 * RttWarnNs THEN "Warning" ELSE "Info"
      [] kind \in {"Retransmission", "DuplicateAck", "ZeroWindow",
                   "HandshakeFailure", "SynBacklog"} -> "Warning"

\* The events of the whole chain for one packet.
Inspect(s, key, fired) ==
    {Event(kind, SeverityOf(kind, s), key) : kind \in FlowFires(s) \cup fired}

=============================================================================

--------------------------- MODULE BackendParity ----------------------------
(* One TCP stream observed twice: by the live backend, whose tool captures   *)
(* the first bytes of each frame only, and by the eBPF backend.  Each feeds  *)
(* the flow state machine of its own engine.                                 *)
EXTENDS WireFormat, FlowState

CONSTANTS
    SegmentLens,   \* payload lengths
    MaxSent        \* bound on the bytes sent

VARIABLES
    sent,          \* sequence number of the next new byte
    live,          \* what update works on behind the live backend
    ebpf           \* and behind the eBPF backend

vars == <<sent, live, ebpf>>

LiveSnapLen == 256     \* -s 256 in the tool's default command

Segment(seq, len) ==
    [link |-> "EN10MB", tags |-> 0, family |-> 4, words |-> 5, exts |-> <<>>, proto |-> TCP,
     later |-> FALSE, src |-> 2, dst |-> 1, doff |-> 5, seq |-> seq, flags |-> 16, payload |-> len,
     pad |-> 0]

NewWork ==
    [flow |-> NewFlow([ip |-> 1, port |-> Dport], 0), half_open |-> [ep \in {} |-> 0],
     rst_rate |-> NewRate(RateWindow), d |-> NoDelta]

\* What the engine makes of the packet, if the backend found one.
Observed(s, pkts) ==
    IF pkts = {} THEN s
    ELSE Update([s EXCEPT !.d = NoDelta], CHOOSE p \in pkts : TRUE, 0)

Init == sent = 0 /\ live = NewWork /\ ebpf = NewWork

\* A new segment, or an old one again.
Send(seq, len) ==
    LET w == Segment(seq, len)
    IN  /\ seq + len <= MaxSent
        /\ live' = Observed(live, ParseFrame(w.link, Captured(w, Less(FullLen(w), LiveSnapLen))))
        /\ ebpf' = Observed(ebpf, FromKernel(Captured(w, FullLen(w))))
        /\ sent' = IF seq + len > sent THEN seq + len ELSE sent

Next == \E len \in SegmentLens : Send(sent, len) \/ (sent >= len /\ Send(sent - len, len))

Spec == Init /\ [][Next]_vars

-----------------------------------------------------------------------------
(* A property that a document states and that the backends lack.             *)

(* README.md:78: every backend emits the same PacketMeta, so all detectors   *)
(* work identically on all backends: both engines call a segment the same.   *)
SameVerdicts ==
    /\ live.d = ebpf.d
    /\ live.flow.retransmits = ebpf.flow.retransmits

=============================================================================

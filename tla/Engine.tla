------------------------------- MODULE Engine -------------------------------
(* The detection engine of l4scope-detect/src/engine.rs: the flow table, the *)
(* host-wide signals and the detector chain behind two entry points, process *)
(* (one packet) and sweep (time-driven checks).                              *)
(*                                                                           *)
(* Capture timestamps need not arrive in order: several queues, or several   *)
(* CPUs, feed one stream.  Skew bounds how far a packet may lie behind the   *)
(* newest timestamp presented so far (clock, which is not engine state); 0   *)
(* is an ordered capture.                                                    *)
EXTENDS Detectors, FiniteSets

CONSTANTS
    Packets,               \* the packets that may arrive, without timestamp
    Times,                 \* capture timestamps, in nanoseconds
    Skew,                  \* bound on timestamp disorder, in nanoseconds
    FlowTtlSecs,           \* flow_ttl_secs
    HandshakeTimeoutSecs   \* handshake_timeout_secs

ASSUME EngineAssumption ==
    /\ Packets \subseteq {p \in PacketMeta : p.seq \in SeqNumber}
    /\ Times \subseteq Nat
    /\ Skew \in Nat
    /\ FlowTtlSecs \in Nat /\ HandshakeTimeoutSecs \in Nat

VARIABLES
    flows,           \* EngineState.flows: canonical key -> FlowState
    half_open,       \* Globals.half_open: endpoint -> count
    rst_rate,        \* Globals.rst_rate
    new_flow_rate,   \* Globals.new_flow_rate
    debounce,        \* last_ns of each debounced detector
    last_sweep_ns,   \* time of the last sweep made by process
    clock,           \* newest timestamp presented
    out              \* the events returned by the last call

vars == <<flows, half_open, rst_rate, new_flow_rate, debounce, last_sweep_ns, clock, out>>

FlowTtlNs          == FlowTtlSecs * NsPerSec
HandshakeTimeoutNs == HandshakeTimeoutSecs * NsPerSec
SweepIntervalNs    == NsPerSec

NoFlows == [k \in {} |-> None]

Init ==
    /\ flows = NoFlows
    /\ half_open = [ep \in {} |-> 0]
    /\ rst_rate = NewRate(RateWindow)
    /\ new_flow_rate = NewRate(RateWindow)
    /\ debounce = [kind \in HostWide |-> 0]
    /\ last_sweep_ns = 0
    /\ clock = 0
    /\ out = {}

-----------------------------------------------------------------------------
(* sweep, over a flow table and a half-open table.                           *)

TimedOutIgnoringFlag(table, now) == \* mutant: a reported flow is reported again
    {k \in DOMAIN table :
        /\ table[k].state = "SynSent"
        /\ SatSub(now, table[k].syn_time_ns) > HandshakeTimeoutNs}

\* Flows whose SYN has waited too long and was not reported yet.
TimedOut(table, now) ==
    {k \in DOMAIN table :
        /\ table[k].state = "SynSent"
        /\ ~ table[k].handshake_timeout_flagged
        /\ table[k].syn_time_ns # None
        /\ SatSub(now, table[k].syn_time_ns) > HandshakeTimeoutNs}

IdleByTwice(table, now) ==          \* mutant: flows are kept for two lifetimes
    {k \in DOMAIN table : SatSub(now, table[k].last_seen_ns) > 2 * FlowTtlNs}

\* Flows to evict.
Idle(table, now) ==
    {k \in DOMAIN table : SatSub(now, table[k].last_seen_ns) > FlowTtlNs}

\* The flows that leave the half-open count of ep: each one once, even when it
\* times out and is evicted by the same sweep.
Released(table, now, ep) ==
    {k \in TimedOut(table, now) \cup Idle(table, now) :
        table[k].half_open_counted /\ table[k].service = ep}

SweptHalfOpenTimedOutOnly(table, h, now) ==     \* mutant: eviction keeps the count
    [ep \in DOMAIN h |->
        SatSub(h[ep], Cardinality({k \in TimedOut(table, now) :
                                    table[k].half_open_counted /\ table[k].service = ep}))]

SweptHalfOpen(table, h, now) ==
    [ep \in DOMAIN h |-> SatSub(h[ep], Cardinality(Released(table, now, ep)))]

SweptFlows(table, now) ==
    [k \in DOMAIN table \ Idle(table, now) |->
        IF k \in TimedOut(table, now)
        THEN [table[k] EXCEPT !.handshake_timeout_flagged = TRUE,
                              !.half_open_counted = FALSE]
        ELSE table[k]]

SweepEventsOfKept(table, now) ==    \* mutant: flows are evicted first
    {Event("HandshakeTimeout", "Warning", k) : k \in TimedOut(table, now) \ Idle(table, now)}

SweepEvents(table, now) ==
    {Event("HandshakeTimeout", "Warning", k) : k \in TimedOut(table, now)}

-----------------------------------------------------------------------------
(* process, over the engine's state.                                         *)

IsNewFlow(pkt) == pkt.key \notin DOMAIN flows

\* The packet's flow, found or created, with the signals update works on.
Entry(pkt, now) ==
    [flow      |-> IF IsNewFlow(pkt) THEN NewFlow(GuessService(pkt), now)
                   ELSE flows[pkt.key],
     half_open |-> half_open,
     rst_rate  |-> rst_rate,
     d         |-> [NoDelta EXCEPT !.new_flow = IsNewFlow(pkt)]]

Applied(pkt, now) == Update(Entry(pkt, now), pkt, now)

NewFlowRate(pkt, now) ==
    IF IsNewFlow(pkt) THEN Record(new_flow_rate, RateWindow, now) ELSE new_flow_rate

\* The flow table once the packet is applied.
Table(pkt, now) ==
    [k \in DOMAIN flows \cup {pkt.key} |->
        IF k = pkt.key THEN Applied(pkt, now).flow ELSE flows[k]]

SweepDueOnSecond(now) ==            \* mutant: one tick late
    SatSub(now, last_sweep_ns) > SweepIntervalNs

SweepDue(now) == SatSub(now, last_sweep_ns) >= SweepIntervalNs

InOrder(now) == now + Skew >= clock

\* process: update, the detector chain, and the sweep when one is due.
Process(pkt, now) ==
    LET s     == Applied(pkt, now)
        fired == HostWideFires(debounce, s, NewFlowRate(pkt, now), now)
        table == Table(pkt, now)
    IN  /\ InOrder(now)
        /\ flows' = IF SweepDue(now) THEN SweptFlows(table, now) ELSE table
        /\ half_open' = IF SweepDue(now) THEN SweptHalfOpen(table, s.half_open, now)
                        ELSE s.half_open
        /\ rst_rate' = s.rst_rate
        /\ new_flow_rate' = NewFlowRate(pkt, now)
        /\ debounce' = DebounceAfter(debounce, fired, now)
        /\ last_sweep_ns' = IF SweepDue(now) THEN now ELSE last_sweep_ns
        /\ clock' = IF now > clock THEN now ELSE clock
        /\ out' = Inspect(s, pkt.key, fired)
                    \cup (IF SweepDue(now) THEN SweepEvents(table, now) ELSE {})

\* sweep called from outside, on a timer or at shutdown; it does not touch
\* last_sweep_ns.
Sweep(now) ==
    /\ InOrder(now)
    /\ flows' = SweptFlows(flows, now)
    /\ half_open' = SweptHalfOpen(flows, half_open, now)
    /\ out' = SweepEvents(flows, now)
    /\ UNCHANGED <<rst_rate, new_flow_rate, debounce, last_sweep_ns, clock>>

Next ==
    \/ \E pkt \in Packets, now \in Times : Process(pkt, now)
    \/ \E now \in Times : Sweep(now)

Spec == Init /\ [][Next]_vars

-----------------------------------------------------------------------------
(* Properties.                                                               *)

(* The engine's state keeps its types: sequence numbers stay in their space, *)
(* counts do not go below zero, and only known flows and events occur.       *)
TypeOK ==
    /\ flows \in [DOMAIN flows -> FlowState]
    /\ DOMAIN flows \subseteq FlowKey /\ IsFiniteSet(DOMAIN flows)
    /\ half_open \in [DOMAIN half_open -> Nat] /\ DOMAIN half_open \subseteq Endpoint
    /\ rst_rate \in Rate(RateWindow) /\ new_flow_rate \in Rate(RateWindow)
    /\ debounce \in [HostWide -> Nat]
    /\ last_sweep_ns \in Nat /\ clock \in Nat
    /\ out \subseteq L4Event

\* The flows that are counted as half-open towards ep.
HalfOpenFlows(table, ep) ==
    {k \in DOMAIN table : table[k].half_open_counted /\ table[k].service = ep}

(* The half-open count of every endpoint (the SYN backlog signal and the     *)
(* half_open_max gauge) is exactly the number of live flows that are marked  *)
(* as counted towards it: no path through SYN, RST, FIN, establishment,      *)
(* time-out and eviction counts a flow twice or releases it twice, and the   *)
(* saturating subtractions never hide a miscount.                            *)
HalfOpenExact ==
    \A ep \in DOMAIN half_open \cup {flows[k].service : k \in DOMAIN flows} :
        HalfOpenFor(half_open, ep) = Cardinality(HalfOpenFlows(flows, ep))

(* A counted flow really is in a handshake that was not reported as timed    *)
(* out, and a flow that waits for its SYN-ACK is counted until it is         *)
(* reported: the count neither keeps finished handshakes nor misses one.     *)
HandshakeAccounting == \A k \in DOMAIN flows : Accounted(flows[k])

Max2(a, b) == IF a > b THEN a ELSE b

\* How far the last sweep of process, and the newest timestamp, may be ahead
\* of a flow that is still in the table.
TimelyFlow(f, swept, newest) ==
    /\ f.last_seen_ns <= newest
    /\ swept <= f.last_seen_ns + Max2(FlowTtlNs, Skew)
    /\ f.state = "SynSent" /\ ~ f.handshake_timeout_flagged =>
         swept <= f.syn_time_ns + Max2(HandshakeTimeoutNs, Skew)
    /\ f.syn_time_ns # None =>
         /\ f.syn_time_ns <= newest
         /\ f.syn_time_ns <= f.last_seen_ns + Skew

(* Packets drive the sweeps often enough: less than a sweep interval of      *)
(* capture time has passed since the last one, and that one left nothing     *)
(* overdue behind (engine.rs:59-62 with engine.rs:75-86).                    *)
SweepKeepsUp ==
    /\ last_sweep_ns <= clock
    /\ clock < last_sweep_ns + SweepIntervalNs
    /\ \A k \in DOMAIN flows : TimelyFlow(flows[k], last_sweep_ns, clock)

\* The inductive invariant behind the safety properties.
EngineInv == TypeOK /\ HalfOpenExact /\ HandshakeAccounting /\ SweepKeepsUp

(* Memory stays bounded by recent traffic: no flow outlives its time to live *)
(* by a sweep interval or more, measured against the newest timestamp, when  *)
(* sweeps are driven by packets alone (engine.rs:59).                        *)
IdleFlowsEvicted ==
    \A k \in DOMAIN flows :
        clock < flows[k].last_seen_ns + Max2(FlowTtlNs, Skew) + SweepIntervalNs

(* An unanswered SYN is reported less than a sweep interval after its        *)
(* time-out, as long as packets arrive.                                      *)
UnansweredSynReported ==
    \A k \in DOMAIN flows :
        flows[k].state = "SynSent" /\ ~ flows[k].handshake_timeout_flagged =>
            clock < flows[k].syn_time_ns + Max2(HandshakeTimeoutNs, Skew) + SweepIntervalNs

(* A flow that waits for its SYN-ACK is never evicted silently: the sweep    *)
(* that drops it also reports its time-out, provided the time-out and the    *)
(* disorder together fit in the time to live.                                *)
NoSilentEviction ==
    [][HandshakeTimeoutNs + Skew <= FlowTtlNs =>
         \A k \in DOMAIN flows \ DOMAIN flows' :
            flows[k].state = "SynSent" /\ ~ flows[k].handshake_timeout_flagged =>
                Event("HandshakeTimeout", "Warning", k) \in out']_vars

(* A handshake is reported as timed out at most once in the life of a flow,  *)
(* whatever the later packets on it are.                                     *)
TimeoutReportedOnce ==
    [][\A k \in DOMAIN flows :
          flows[k].handshake_timeout_flagged =>
              /\ Event("HandshakeTimeout", "Warning", k) \notin out'
              /\ k \in DOMAIN flows' => flows'[k].handshake_timeout_flagged]_vars

=============================================================================

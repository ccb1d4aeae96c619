------------------------------ MODULE FlowState -----------------------------
(* The per-flow state machine of l4scope-detect/src/flow.rs as operators.    *)
(*                                                                           *)
(* EngineState::update works on one flow, the half-open table, the RST rate  *)
(* and the delta it returns.  Its body is a pipeline of steps over a record  *)
(*                                                                           *)
(*     s == [flow, half_open, rst_rate, d]                                   *)
(*                                                                           *)
(* Fields that are written and never read (proto, first_seen_ns,             *)
(* synack_time_ns, rtt_ns, established_now and the service of the delta) are *)
(* left out.  The half-open table is a partial function, as the HashMap is:  *)
(* an endpoint enters it with its first SYN and is never removed.            *)
EXTENDS PacketMeta, RollingRate

CONSTANT SeqSpace      \* size of the sequence-number space: 2^32 in the code

ASSUME SeqSpaceAssumption == SeqSpace \in Nat \ {0}

None == -1             \* Option::None

TcpState == {"New", "SynSent", "SynAckSeen", "Established", "Closing", "Reset"}

SeqNumber == 0 .. SeqSpace - 1

FlowState ==
    [state                     : TcpState,
     last_seen_ns              : Nat,
     syn_time_ns               : Nat \cup {None},
     established               : BOOLEAN,
     handshake_timeout_flagged : BOOLEAN,
     half_open_counted         : BOOLEAN,
     service                   : Endpoint,
     next_seq                  : [Direction -> SeqNumber \cup {None}],
     last_ack                  : [Direction -> Nat \cup {None}],
     dup_ack_count             : [Direction -> Nat],
     zero_window               : [Direction -> BOOLEAN],
     retransmits               : Nat,
     data_segments             : Nat]

PacketDelta ==
    [new_flow          : BOOLEAN,
     is_retransmit     : BOOLEAN,
     is_out_of_order   : BOOLEAN,
     is_dup_ack        : BOOLEAN,
     dup_ack_count     : Nat,
     zero_window_edge  : BOOLEAN,
     rtt_sample_ns     : Nat \cup {None},
     handshake_refused : BOOLEAN,
     rst               : BOOLEAN]

RateWindow == 1        \* both host-wide rates use RollingRate::new(1)

HalfOpenTable == UNION {[S -> Nat] : S \in SUBSET Endpoint}

\* What one call of update works on.
Work == [flow : FlowState, half_open : HalfOpenTable,
         rst_rate : Rate(RateWindow), d : PacketDelta]

-----------------------------------------------------------------------------
(* The half-open table.                                                      *)

HalfOpenFor(h, ep) == IF ep \in DOMAIN h THEN h[ep] ELSE 0

Increment(h, ep) ==
    [e \in DOMAIN h \cup {ep} |-> IF e = ep THEN HalfOpenFor(h, ep) + 1 ELSE h[e]]

Decrement(h, ep) ==
    IF ep \in DOMAIN h THEN [h EXCEPT ![ep] = SatSub(@, 1)] ELSE h

ClearHalfOpenKeepingFlag(s) ==      \* mutant: the flow stays marked as counted
    [s EXCEPT !.half_open = IF s.flow.half_open_counted
                            THEN Decrement(s.half_open, s.flow.service)
                            ELSE s.half_open]

\* clear_half_open: the flow leaves the count of its service, once.
ClearHalfOpen(s) ==
    IF s.flow.half_open_counted
    THEN [s EXCEPT !.flow.half_open_counted = FALSE,
                   !.half_open = Decrement(s.half_open, s.flow.service)]
    ELSE s

-----------------------------------------------------------------------------
(* Sequence numbers.                                                         *)

AddWithoutWrap(a, n) == a + n       \* mutant: a sequence number leaves its space

WrappingAdd(a, n) == (a + n) % SeqSpace

SeqDiffWithoutWrap(a, expected) ==  \* mutant: plain subtraction
    a - expected

\* seq_diff: a.wrapping_sub(expected) read as a signed number.
SeqDiff(a, expected) ==
    LET w == (a - expected) % SeqSpace
    IN  IF 2 * w < SeqSpace THEN w ELSE w - SeqSpace

-----------------------------------------------------------------------------
(* A flow's first packet.                                                    *)

GuessServiceByPort(pkt) ==          \* mutant: a SYN is not treated specially
    IF Destination(pkt).port <= Source(pkt).port THEN Destination(pkt) ELSE Source(pkt)

\* A bare SYN names the server; otherwise the lower port is taken for it.
GuessService(pkt) ==
    IF \/ pkt.proto = "Tcp" /\ IsSynOnly(pkt.flags)
       \/ Destination(pkt).port <= Source(pkt).port
    THEN Destination(pkt)
    ELSE Source(pkt)

NewFlow(service, now) ==
    [state                     |-> "New",
     last_seen_ns              |-> now,
     syn_time_ns               |-> None,
     established               |-> FALSE,
     handshake_timeout_flagged |-> FALSE,
     half_open_counted         |-> FALSE,
     service                   |-> service,
     next_seq                  |-> [i \in Direction |-> None],
     last_ack                  |-> [i \in Direction |-> None],
     dup_ack_count             |-> [i \in Direction |-> 0],
     zero_window               |-> [i \in Direction |-> FALSE],
     retransmits               |-> 0,
     data_segments             |-> 0]

NoDelta ==
    [new_flow          |-> FALSE,
     is_retransmit     |-> FALSE,
     is_out_of_order   |-> FALSE,
     is_dup_ack        |-> FALSE,
     dup_ack_count     |-> 0,
     zero_window_edge  |-> FALSE,
     rtt_sample_ns     |-> None,
     handshake_refused |-> FALSE,
     rst               |-> FALSE]

-----------------------------------------------------------------------------
(* The steps of update, one per branch of the flag analysis.                 *)

\* The first SYN of a flow, and only that one, opens the handshake.
OpenHandshake(s, now) ==
    IF s.flow.syn_time_ns # None
    THEN s
    ELSE [s EXCEPT !.flow.syn_time_ns = now,
                   !.flow.state = "SynSent",
                   !.flow.half_open_counted = TRUE,
                   !.half_open = IF s.flow.half_open_counted
                                 THEN s.half_open
                                 ELSE Increment(s.half_open, s.flow.service)]

\* A SYN takes one sequence number.
ExpectAfterSyn(s, pkt) ==
    [s EXCEPT !.flow.next_seq[pkt.dir] = WrappingAdd(pkt.seq, 1)]

SynStep(s, pkt, now) == ExpectAfterSyn(OpenHandshake(s, now), pkt)

SynAckStepKeepsState(s, pkt, now) ==    \* mutant: the SYN counts as unanswered
    ExpectAfterSyn(
      [s EXCEPT !.d.rtt_sample_ns = IF s.flow.syn_time_ns # None
                                    THEN SatSub(now, s.flow.syn_time_ns)
                                    ELSE None], pkt)

\* A SYN-ACK gives a round-trip sample when the SYN was seen.
SynAckStep(s, pkt, now) ==
    ExpectAfterSyn(
      [s EXCEPT !.flow.state = "SynAckSeen",
                !.d.rtt_sample_ns = IF s.flow.syn_time_ns # None
                                    THEN SatSub(now, s.flow.syn_time_ns)
                                    ELSE None], pkt)

RstStep(s, now) ==
    ClearHalfOpen(
      [s EXCEPT !.d.rst = TRUE,
                !.rst_rate = Record(s.rst_rate, RateWindow, now),
                !.d.handshake_refused = s.flow.state \in {"SynSent", "SynAckSeen"},
                !.flow.state = "Reset"])

\* The ACK that completes a handshake.
EstablishStep(s, pkt) ==
    IF s.flow.state = "SynAckSeen" /\ "ACK" \in pkt.flags
    THEN ClearHalfOpen([s EXCEPT !.flow.state = "Established",
                                 !.flow.established = TRUE])
    ELSE s

FinStepKeepsCount(s, pkt) ==        \* mutant: a FIN leaves the half-open count
    IF "FIN" \in pkt.flags THEN [s EXCEPT !.flow.state = "Closing"] ELSE s

FinStep(s, pkt) ==
    IF "FIN" \in pkt.flags
    THEN ClearHalfOpen([s EXCEPT !.flow.state = "Closing"])
    ELSE s

ZeroWindowStepLevel(s, pkt) ==      \* mutant: every zero window counts as an edge
    IF (s.flow.established \/ s.flow.state = "Closing") /\ pkt.window = 0
    THEN [s EXCEPT !.d.zero_window_edge = TRUE,
                   !.flow.zero_window[pkt.dir] = TRUE]
    ELSE s

\* The edge from an open to a closed receive window, on an active connection.
ZeroWindowStep(s, pkt) ==
    IF s.flow.established \/ s.flow.state = "Closing"
    THEN [s EXCEPT !.d.zero_window_edge = pkt.window = 0 /\ ~ s.flow.zero_window[pkt.dir],
                   !.flow.zero_window[pkt.dir] = pkt.window = 0]
    ELSE s

SegmentStepAlwaysAdvances(s, pkt) ==    \* mutant: next_seq follows every segment
    LET exp == s.flow.next_seq[pkt.dir]
    IN  IF pkt.payload_len = 0 THEN s
        ELSE [s EXCEPT
                !.flow.data_segments = @ + 1,
                !.d.is_retransmit = exp # None /\ SeqDiff(pkt.seq, exp) < 0,
                !.d.is_out_of_order = exp # None /\ SeqDiff(pkt.seq, exp) > 0,
                !.flow.next_seq[pkt.dir] = WrappingAdd(pkt.seq, pkt.payload_len)]

\* A data segment is old, in order or ahead of next_seq, which never retreats.
SegmentStep(s, pkt) ==
    LET exp == s.flow.next_seq[pkt.dir]
        end == WrappingAdd(pkt.seq, pkt.payload_len)
        old == exp # None /\ SeqDiff(pkt.seq, exp) < 0
    IN  IF pkt.payload_len = 0 THEN s
        ELSE [s EXCEPT
                !.flow.data_segments = @ + 1,
                !.flow.retransmits = IF old THEN @ + 1 ELSE @,
                !.d.is_retransmit = old,
                !.d.is_out_of_order = exp # None /\ SeqDiff(pkt.seq, exp) > 0,
                !.flow.next_seq[pkt.dir] =
                    IF exp = None \/ SeqDiff(end, exp) > 0 THEN end ELSE exp]

\* A bare ACK either repeats the last one of its direction or starts afresh.
DupAckStep(s, pkt) ==
    IF ~ ("ACK" \in pkt.flags /\ pkt.payload_len = 0 /\ "FIN" \notin pkt.flags)
    THEN s
    ELSE IF s.flow.last_ack[pkt.dir] = pkt.ack
    THEN [s EXCEPT !.flow.dup_ack_count[pkt.dir] = @ + 1,
                   !.d.is_dup_ack = TRUE,
                   !.d.dup_ack_count = s.flow.dup_ack_count[pkt.dir] + 1]
    ELSE [s EXCEPT !.flow.last_ack[pkt.dir] = pkt.ack,
                   !.flow.dup_ack_count[pkt.dir] = 0]

\* Established, data, pure ACK and FIN segments.
DataStep(s, pkt) ==
    DupAckStep(SegmentStep(ZeroWindowStep(FinStep(EstablishStep(s, pkt), pkt), pkt), pkt), pkt)

TcpStep(s, pkt, now) ==
    CASE IsSynOnly(pkt.flags) -> SynStep(s, pkt, now)
      [] IsSynAck(pkt.flags)  -> SynAckStep(s, pkt, now)
      [] "SYN" \notin pkt.flags /\ "RST" \in pkt.flags    -> RstStep(s, now)
      [] "SYN" \notin pkt.flags /\ "RST" \notin pkt.flags -> DataStep(s, pkt)

\* update from the point where the flow is in the table.
Update(s, pkt, now) ==
    LET seen == [s EXCEPT !.flow.last_seen_ns = now]
    IN  IF pkt.proto = "Tcp" THEN TcpStep(seen, pkt, now) ELSE seen

-----------------------------------------------------------------------------
\* What half_open_counted and handshake_timeout_flagged say of one flow.
Accounted(f) ==
    /\ f.half_open_counted =>
         /\ f.state \in {"SynSent", "SynAckSeen"}
         /\ ~ f.handshake_timeout_flagged
    /\ f.state = "SynSent" =>
         /\ f.syn_time_ns # None
         /\ f.half_open_counted \/ f.handshake_timeout_flagged
    /\ f.handshake_timeout_flagged => f.syn_time_ns # None

=============================================================================

---------------------------- MODULE EngineProofs ----------------------------
(* Proofs about Engine, and about what its reports say of the traffic        *)
(* (EngineHistory), for every set of packets and timestamps, every skew and  *)
(* every threshold.                                                          *)
EXTENDS EngineHistory, FiniteSetTheorems, TLAPS

-----------------------------------------------------------------------------
(* The steps of EngineState::update: each preserves the types, and none      *)
(* counts a flow as half-open twice or releases it twice.                    *)

\* A packet as the engine receives it.
Received == {p \in PacketMeta : p.seq \in SeqNumber}

\* wrapping_add stays in the sequence space.
LEMMA WrappingAddType ==
    ASSUME NEW a \in Nat, NEW n \in Nat PROVE WrappingAdd(a, n) \in SeqNumber
BY SeqSpaceAssumption DEF WrappingAdd, SeqNumber

\* Counting a flow keeps the half-open table well formed.
LEMMA IncrementType ==
    ASSUME NEW h \in HalfOpenTable, NEW ep \in Endpoint
    PROVE  Increment(h, ep) \in HalfOpenTable
<1>1. PICK S \in SUBSET Endpoint : h \in [S -> Nat]
    BY DEF HalfOpenTable
<1>2. Increment(h, ep) \in [S \cup {ep} -> Nat]
    BY <1>1 DEF Increment, HalfOpenFor
<1> QED BY <1>1, <1>2 DEF HalfOpenTable

\* Releasing a flow keeps it well formed: the subtraction saturates.
LEMMA DecrementType ==
    ASSUME NEW h \in HalfOpenTable, NEW ep \in Endpoint
    PROVE  Decrement(h, ep) \in HalfOpenTable
<1>1. PICK S \in SUBSET Endpoint : h \in [S -> Nat]
    BY DEF HalfOpenTable
<1>2. Decrement(h, ep) \in [S -> Nat]
    BY <1>1 DEF Decrement, SatSub
<1> QED BY <1>1, <1>2 DEF HalfOpenTable

\* RollingRate::record writes inside its ring.
LEMMA RecordType ==
    ASSUME NEW r \in Rate(RateWindow), NEW now \in Nat
    PROVE  Record(r, RateWindow, now) \in Rate(RateWindow)
<1>1. Second(now) \in Nat
    BY NsPerSecAssumption DEF Second
<1>2. Second(now) % RateWindow \in 0 .. RateWindow - 1
    BY <1>1 DEF RateWindow
<1> QED BY <1>1, <1>2 DEF Record, Rate, RateWindow

\* clear_half_open preserves the types of all that update works on.
LEMMA ClearHalfOpenType ==
    ASSUME NEW s \in Work PROVE ClearHalfOpen(s) \in Work
BY DecrementType DEF ClearHalfOpen, Work, FlowState

\* Setting next_seq after a SYN preserves types.
LEMMA ExpectAfterSynType ==
    ASSUME NEW s \in Work, NEW pkt \in Received
    PROVE  ExpectAfterSyn(s, pkt) \in Work
BY WrappingAddType, SeqSpaceAssumption
   DEF ExpectAfterSyn, Received, Work, FlowState, PacketMeta, SeqNumber

\* The first-SYN branch (flow.rs:179-185) preserves types.
LEMMA OpenHandshakeType ==
    ASSUME NEW s \in Work, NEW now \in Nat
    PROVE  OpenHandshake(s, now) \in Work
BY IncrementType DEF OpenHandshake, Work, FlowState, TcpState

\* The SYN-ACK branch (flow.rs:188-196) preserves types; the sample is not negative.
LEMMA SynAckStepType ==
    ASSUME NEW s \in Work, NEW pkt \in Received, NEW now \in Nat
    PROVE  SynAckStep(s, pkt, now) \in Work
<1> DEFINE rtt == IF s.flow.syn_time_ns # None THEN SatSub(now, s.flow.syn_time_ns) ELSE None
           fl  == [s.flow EXCEPT !.state = "SynAckSeen"]
           t   == [s EXCEPT !.flow = fl, !.d = [s.d EXCEPT !.rtt_sample_ns = rtt]]
<1>1. rtt \in Nat \cup {None}
    BY DEF Work, FlowState, SatSub, None
<1>2. fl \in FlowState
    BY DEF Work, FlowState, TcpState
<1>3. [s.d EXCEPT !.rtt_sample_ns = rtt] \in PacketDelta
    BY <1>1 DEF Work, PacketDelta
<1>4. t \in Work
    BY <1>2, <1>3 DEF Work
<1>5. SynAckStep(s, pkt, now) = ExpectAfterSyn(t, pkt)
    BY DEF SynAckStep, Work
<1> QED BY <1>4, <1>5, ExpectAfterSynType

\* The RST branch (flow.rs:197-204) preserves types.
LEMMA RstStepType ==
    ASSUME NEW s \in Work, NEW now \in Nat
    PROVE  RstStep(s, now) \in Work
<1> DEFINE refused == s.flow.state \in {"SynSent", "SynAckSeen"}
           fl == [s.flow EXCEPT !.state = "Reset"]
           dl == [s.d EXCEPT !.rst = TRUE, !.handshake_refused = refused]
           t  == [s EXCEPT !.flow = fl, !.d = dl,
                           !.rst_rate = Record(s.rst_rate, RateWindow, now)]
<1>1. fl \in FlowState
    BY DEF Work, FlowState, TcpState
<1>2. dl \in PacketDelta
  <2>1. refused \in BOOLEAN
      OBVIOUS
  <2> HIDE DEF refused
  <2> QED BY <2>1 DEF Work, PacketDelta
<1>3. t \in Work
    BY <1>1, <1>2, RecordType DEF Work
<1>4. RstStep(s, now) = ClearHalfOpen(t)
    BY DEF RstStep, Work
<1> QED BY <1>3, <1>4, ClearHalfOpenType

\* Completing a handshake (flow.rs:207-212) preserves types.
LEMMA EstablishStepType ==
    ASSUME NEW s \in Work, NEW pkt \in Received
    PROVE  EstablishStep(s, pkt) \in Work
<1> DEFINE fl == [s.flow EXCEPT !.state = "Established", !.established = TRUE]
           t  == [s EXCEPT !.flow = fl]
<1>1. fl \in FlowState
    BY DEF Work, FlowState, TcpState
<1>2. t \in Work
    BY <1>1 DEF Work
<1>3. EstablishStep(s, pkt) \in {s, ClearHalfOpen(t)}
    BY DEF EstablishStep, Work
<1> QED BY <1>2, <1>3, ClearHalfOpenType

\* The FIN branch (flow.rs:213-216) preserves types.
LEMMA FinStepType ==
    ASSUME NEW s \in Work, NEW pkt \in Received
    PROVE  FinStep(s, pkt) \in Work
BY ClearHalfOpenType DEF FinStep, Work, FlowState, TcpState

\* The zero-window edge (flow.rs:219-226) preserves types.
LEMMA ZeroWindowStepType ==
    ASSUME NEW s \in Work, NEW pkt \in Received
    PROVE  ZeroWindowStep(s, pkt) \in Work
<1> DEFINE edge  == pkt.window = 0 /\ ~ s.flow.zero_window[pkt.dir]
           zero  == pkt.window = 0
           dl    == [s.d EXCEPT !.zero_window_edge = edge]
           fl    == [s.flow EXCEPT !.zero_window[pkt.dir] = zero]
<1>1. edge \in BOOLEAN /\ zero \in BOOLEAN
    OBVIOUS
<1>2. pkt.dir \in Direction
    BY DEF Received, PacketMeta
<1>3. ZeroWindowStep(s, pkt) \in {s, [s EXCEPT !.d = dl, !.flow = fl]}
    BY DEF ZeroWindowStep, Work
<1> HIDE DEF edge, zero
<1>4. dl \in PacketDelta
    BY <1>1 DEF Work, PacketDelta
<1>5. fl \in FlowState
    BY <1>1, <1>2 DEF Work, FlowState
<1> HIDE DEF dl, fl
<1> QED BY <1>3, <1>4, <1>5 DEF Work

\* Sequence analysis (flow.rs:229-247) preserves types: next_seq stays in its space.
LEMMA SegmentStepType ==
    ASSUME NEW s \in Work, NEW pkt \in Received
    PROVE  SegmentStep(s, pkt) \in Work
<1> DEFINE exp == s.flow.next_seq[pkt.dir]
           end == WrappingAdd(pkt.seq, pkt.payload_len)
           old == exp # None /\ SeqDiff(pkt.seq, exp) < 0
           ooo == exp # None /\ SeqDiff(pkt.seq, exp) > 0
           nxt == IF exp = None \/ SeqDiff(end, exp) > 0 THEN end ELSE exp
           ret == IF old THEN s.flow.retransmits + 1 ELSE s.flow.retransmits
           dl  == [s.d EXCEPT !.is_retransmit = old, !.is_out_of_order = ooo]
           fl  == [s.flow EXCEPT !.data_segments = @ + 1, !.retransmits = ret,
                                 !.next_seq[pkt.dir] = nxt]
<1>1. old \in BOOLEAN /\ ooo \in BOOLEAN
    OBVIOUS
<1>2. pkt.dir \in Direction /\ pkt.seq \in Nat /\ pkt.payload_len \in Nat
    BY DEF Received, PacketMeta
<1>3. end \in SeqNumber
    BY <1>2, WrappingAddType
<1>4. nxt \in SeqNumber \cup {None}
    BY <1>2, <1>3 DEF Work, FlowState
<1>5. ret \in Nat
    BY DEF Work, FlowState
<1>6. SegmentStep(s, pkt) \in {s, [s EXCEPT !.d = dl, !.flow = fl]}
    BY ZenonT(30) DEF SegmentStep, Work, FlowState
<1> HIDE DEF old, ooo, nxt, ret
<1>7. dl \in PacketDelta
    BY <1>1 DEF Work, PacketDelta
<1>8. fl \in FlowState
  <2>1. [s.flow.next_seq EXCEPT ![pkt.dir] = nxt] \in [Direction -> SeqNumber \cup {None}]
      BY <1>2, <1>4 DEF Work, FlowState
  <2>2. s.flow.data_segments + 1 \in Nat
      BY DEF Work, FlowState
  <2>3. fl = [s.flow EXCEPT !.data_segments = s.flow.data_segments + 1,
                            !.retransmits = ret,
                            !.next_seq = [s.flow.next_seq EXCEPT ![pkt.dir] = nxt]]
      BY DEF Work, FlowState
  <2> QED BY <1>5, <2>1, <2>2, <2>3 DEF Work, FlowState
<1> HIDE DEF dl, fl
<1> QED BY <1>6, <1>7, <1>8 DEF Work

\* Duplicate-ACK counting (flow.rs:250-262) preserves types.
LEMMA DupAckStepType ==
    ASSUME NEW s \in Work, NEW pkt \in Received
    PROVE  DupAckStep(s, pkt) \in Work
<1> DEFINE n   == s.flow.dup_ack_count[pkt.dir] + 1
           dup == [s EXCEPT !.d = [s.d EXCEPT !.is_dup_ack = TRUE, !.dup_ack_count = n],
                            !.flow = [s.flow EXCEPT !.dup_ack_count[pkt.dir] = n]]
           new == [s EXCEPT !.flow = [s.flow EXCEPT !.last_ack[pkt.dir] = pkt.ack,
                                                    !.dup_ack_count[pkt.dir] = 0]]
<1>1. pkt.dir \in Direction /\ pkt.ack \in Nat
    BY DEF Received, PacketMeta
<1>2. n \in Nat
    BY <1>1 DEF Work, FlowState
<1>3. DupAckStep(s, pkt) \in {s, dup, new}
    BY <1>1 DEF DupAckStep, Work, FlowState
<1> HIDE DEF n
<1>4. [s.d EXCEPT !.is_dup_ack = TRUE, !.dup_ack_count = n] \in PacketDelta
    BY <1>2 DEF Work, PacketDelta
<1>5. [s.flow EXCEPT !.dup_ack_count[pkt.dir] = n] \in FlowState
    BY <1>1, <1>2 DEF Work, FlowState
<1>6. [s.flow EXCEPT !.last_ack[pkt.dir] = pkt.ack, !.dup_ack_count[pkt.dir] = 0] \in FlowState
    BY <1>1 DEF Work, FlowState
<1> QED BY <1>3, <1>4, <1>5, <1>6 DEF Work

-----------------------------------------------------------------------------
(* What a step of update does to the half-open accounting of its flow.       *)

\* The table agrees with this flow and with the number of other counted flows.
Balanced(s, others) ==
    \A ep \in Endpoint :
        HalfOpenFor(s.half_open, ep) =
            others[ep] + (IF s.flow.half_open_counted /\ s.flow.service = ep THEN 1 ELSE 0)

\* A step that leaves the handshake alone.
Neutral(s, t) ==
    /\ t.half_open = s.half_open
    /\ t.flow.state = s.flow.state
    /\ t.flow.service = s.flow.service
    /\ t.flow.last_seen_ns = s.flow.last_seen_ns
    /\ t.flow.syn_time_ns = s.flow.syn_time_ns
    /\ t.flow.half_open_counted = s.flow.half_open_counted
    /\ t.flow.handshake_timeout_flagged = s.flow.handshake_timeout_flagged

\* What every step at time now preserves.
Keeps(s, t, now, others) ==
    /\ t.flow.service = s.flow.service
    /\ t.flow.last_seen_ns = s.flow.last_seen_ns
    /\ t.flow.handshake_timeout_flagged = s.flow.handshake_timeout_flagged
    /\ t.flow.syn_time_ns \in {s.flow.syn_time_ns, now}
    /\ t.flow.state = "SynSent" =>
         \/ s.flow.state = "SynSent" /\ t.flow.syn_time_ns = s.flow.syn_time_ns
         \/ t.flow.syn_time_ns = now
    /\ Balanced(s, others) => Balanced(t, others)
    /\ Accounted(s.flow) => Accounted(t.flow)

\* A step that touches no handshake field keeps the accounting facts.
LEMMA NeutralKeeps ==
    ASSUME NEW s \in Work, NEW t \in Work, NEW now, NEW others, Neutral(s, t)
    PROVE  Keeps(s, t, now, others)
BY DEF Neutral, Keeps, Balanced, Accounted

\* Keeping the accounting facts composes along the pipeline of update.
LEMMA KeepsTransitive ==
    ASSUME NEW s, NEW t, NEW u, NEW now, NEW others,
           Keeps(s, t, now, others), Keeps(t, u, now, others)
    PROVE  Keeps(s, u, now, others)
BY DEF Keeps

\* Window, sequence and ACK analysis touch no handshake field.
LEMMA NeutralSteps ==
    ASSUME NEW s \in Work, NEW pkt \in Received
    PROVE  /\ Neutral(s, ZeroWindowStep(s, pkt))
           /\ Neutral(s, SegmentStep(s, pkt))
           /\ Neutral(s, DupAckStep(s, pkt))
           /\ Neutral(s, ExpectAfterSyn(s, pkt))
<1>1. Neutral(s, ZeroWindowStep(s, pkt))
    BY DEF Neutral, ZeroWindowStep, Work, FlowState
<1>2. Neutral(s, SegmentStep(s, pkt))
    BY DEF Neutral, SegmentStep, Work, FlowState
<1>3. Neutral(s, DupAckStep(s, pkt))
    BY DEF Neutral, DupAckStep, Work, FlowState
<1>4. Neutral(s, ExpectAfterSyn(s, pkt))
    BY DEF Neutral, ExpectAfterSyn, Work, FlowState
<1> QED BY <1>1, <1>2, <1>3, <1>4

\* clear_half_open balances whatever the state of the flow became.
LEMMA ClearHalfOpenEffect ==
    ASSUME NEW s \in Work, NEW others \in [Endpoint -> Nat]
    PROVE  LET t == ClearHalfOpen(s)
           IN  /\ t.flow.half_open_counted = FALSE
               /\ t.flow.state = s.flow.state
               /\ t.flow.service = s.flow.service
               /\ t.flow.last_seen_ns = s.flow.last_seen_ns
               /\ t.flow.syn_time_ns = s.flow.syn_time_ns
               /\ t.flow.handshake_timeout_flagged = s.flow.handshake_timeout_flagged
               /\ Balanced(s, others) => Balanced(t, others)
<1> DEFINE t == ClearHalfOpen(s)
<1>1. CASE ~ s.flow.half_open_counted
    BY <1>1 DEF ClearHalfOpen, Work, FlowState
<1>2. CASE s.flow.half_open_counted
  <2>1. t = [s EXCEPT !.flow = [s.flow EXCEPT !.half_open_counted = FALSE],
                      !.half_open = Decrement(s.half_open, s.flow.service)]
      BY <1>2 DEF ClearHalfOpen, Work
  <2>2. /\ t.flow.half_open_counted = FALSE
        /\ t.flow.state = s.flow.state
        /\ t.flow.service = s.flow.service
        /\ t.flow.last_seen_ns = s.flow.last_seen_ns
        /\ t.flow.syn_time_ns = s.flow.syn_time_ns
        /\ t.flow.handshake_timeout_flagged = s.flow.handshake_timeout_flagged
      BY <2>1 DEF Work, FlowState
  <2>3. t.half_open = Decrement(s.half_open, s.flow.service)
      BY <2>1 DEF Work
  <2>4. ASSUME Balanced(s, others), NEW ep \in Endpoint
        PROVE  HalfOpenFor(t.half_open, ep) = others[ep]
    <3>1. PICK S \in SUBSET Endpoint : s.half_open \in [S -> Nat]
        BY DEF Work, HalfOpenTable
    <3>2. HalfOpenFor(s.half_open, ep) =
            others[ep] + (IF s.flow.service = ep THEN 1 ELSE 0)
        BY <1>2, <2>4 DEF Balanced
    <3> QED BY <2>3, <3>1, <3>2 DEF HalfOpenFor, Decrement, SatSub
  <2> QED BY <2>2, <2>4 DEF Balanced
<1> QED BY <1>1, <1>2

\* Counting a flow adds one at its service and nothing elsewhere.
LEMMA IncrementEffect ==
    ASSUME NEW h \in HalfOpenTable, NEW ep \in Endpoint, NEW e \in Endpoint
    PROVE  HalfOpenFor(Increment(h, ep), e) =
             HalfOpenFor(h, e) + (IF e = ep THEN 1 ELSE 0)
<1>1. PICK S \in SUBSET Endpoint : h \in [S -> Nat]
    BY DEF HalfOpenTable
<1> QED BY <1>1 DEF Increment, HalfOpenFor

\* The first SYN counts the flow exactly once.
LEMMA OpenHandshakeKeeps ==
    ASSUME NEW s \in Work, NEW now \in Nat, NEW others \in [Endpoint -> Nat]
    PROVE  Keeps(s, OpenHandshake(s, now), now, others)
<1> DEFINE h == IF s.flow.half_open_counted THEN s.half_open
                ELSE Increment(s.half_open, s.flow.service)
           t == [s EXCEPT !.flow = [s.flow EXCEPT !.syn_time_ns = now,
                                                  !.state = "SynSent",
                                                  !.half_open_counted = TRUE],
                          !.half_open = h]
<1>1. CASE s.flow.syn_time_ns # None
    BY <1>1 DEF OpenHandshake, Keeps
<1>2. CASE s.flow.syn_time_ns = None
  <2>1. OpenHandshake(s, now) = t
      BY <1>2 DEF OpenHandshake, Work
  <2>2. /\ t.flow.service = s.flow.service
        /\ t.flow.last_seen_ns = s.flow.last_seen_ns
        /\ t.flow.handshake_timeout_flagged = s.flow.handshake_timeout_flagged
        /\ t.flow.syn_time_ns = now
        /\ t.flow.state = "SynSent"
        /\ t.flow.half_open_counted = TRUE
        /\ t.half_open = h
      BY DEF Work, FlowState
  <2>3. now # None
      BY DEF None
  <2> HIDE DEF t
  <2>4. ASSUME Balanced(s, others) PROVE Balanced(t, others)
    <3> SUFFICES ASSUME NEW ep \in Endpoint
                 PROVE  HalfOpenFor(h, ep) =
                          others[ep] + (IF s.flow.service = ep THEN 1 ELSE 0)
        BY <2>2 DEF Balanced
    <3>1. HalfOpenFor(s.half_open, ep) =
            others[ep] + (IF s.flow.half_open_counted /\ s.flow.service = ep THEN 1 ELSE 0)
        BY <2>4 DEF Balanced
    <3>2. s.half_open \in HalfOpenTable /\ s.flow.service \in Endpoint
        BY DEF Work, FlowState
    <3> QED BY <3>1, <3>2, IncrementEffect
  <2>5. ASSUME Accounted(s.flow) PROVE Accounted(t.flow)
    <3>1. s.flow.handshake_timeout_flagged = FALSE
        BY <1>2, <2>5 DEF Accounted, Work, FlowState
    <3> QED BY <2>2, <2>3, <3>1 DEF Accounted
  <2> QED BY <2>1, <2>2, <2>4, <2>5 DEF Keeps
<1> QED BY <1>1, <1>2

\* The SYN branch of update keeps the accounting facts.
LEMMA SynStepKeeps ==
    ASSUME NEW s \in Work, NEW pkt \in Received, NEW now \in Nat,
           NEW others \in [Endpoint -> Nat]
    PROVE  /\ SynStep(s, pkt, now) \in Work
           /\ Keeps(s, SynStep(s, pkt, now), now, others)
<1> DEFINE t == OpenHandshake(s, now)
<1>1. t \in Work /\ Keeps(s, t, now, others)
    BY OpenHandshakeType, OpenHandshakeKeeps
<1>2. ExpectAfterSyn(t, pkt) \in Work /\ Neutral(t, ExpectAfterSyn(t, pkt))
    BY <1>1, NeutralSteps, ExpectAfterSynType
<1>3. SynStep(s, pkt, now) = ExpectAfterSyn(t, pkt)
    BY DEF SynStep
<1> HIDE DEF t
<1>4. Keeps(t, ExpectAfterSyn(t, pkt), now, others)
    BY <1>1, <1>2, NeutralKeeps
<1> QED BY <1>1, <1>2, <1>3, <1>4, KeepsTransitive

\* A SYN-ACK changes the state and leaves the count alone.
LEMMA SynAckStepKeeps ==
    ASSUME NEW s \in Work, NEW pkt \in Received, NEW now \in Nat,
           NEW others \in [Endpoint -> Nat]
    PROVE  Keeps(s, SynAckStep(s, pkt, now), now, others)
<1> DEFINE t == SynAckStep(s, pkt, now)
<1>1. /\ t.half_open = s.half_open
      /\ t.flow.state = "SynAckSeen"
      /\ t.flow.service = s.flow.service
      /\ t.flow.last_seen_ns = s.flow.last_seen_ns
      /\ t.flow.syn_time_ns = s.flow.syn_time_ns
      /\ t.flow.half_open_counted = s.flow.half_open_counted
      /\ t.flow.handshake_timeout_flagged = s.flow.handshake_timeout_flagged
    BY DEF SynAckStep, ExpectAfterSyn, Work, FlowState
<1> HIDE DEF t
<1> QED BY <1>1 DEF Keeps, Balanced, Accounted, t

\* A RST releases the flow from the count.
LEMMA RstStepKeeps ==
    ASSUME NEW s \in Work, NEW now \in Nat, NEW others \in [Endpoint -> Nat]
    PROVE  Keeps(s, RstStep(s, now), now, others)
<1> DEFINE fl == [s.flow EXCEPT !.state = "Reset"]
           dl == [s.d EXCEPT !.rst = TRUE,
                             !.handshake_refused = s.flow.state \in {"SynSent", "SynAckSeen"}]
           t  == [s EXCEPT !.flow = fl, !.d = dl,
                           !.rst_rate = Record(s.rst_rate, RateWindow, now)]
<1>1. RstStep(s, now) = ClearHalfOpen(t)
    BY DEF RstStep, Work
<1>2. t \in Work
  <2>1. fl \in FlowState
      BY DEF Work, FlowState, TcpState
  <2>2. dl \in PacketDelta
    <3> DEFINE refused == s.flow.state \in {"SynSent", "SynAckSeen"}
    <3>1. refused \in BOOLEAN
        OBVIOUS
    <3> HIDE DEF refused
    <3> QED BY <3>1 DEF Work, PacketDelta, refused
  <2> HIDE DEF fl, dl
  <2> QED BY <2>1, <2>2, RecordType DEF Work
<1>3. /\ t.half_open = s.half_open
      /\ t.flow.state = "Reset"
      /\ t.flow.service = s.flow.service
      /\ t.flow.last_seen_ns = s.flow.last_seen_ns
      /\ t.flow.syn_time_ns = s.flow.syn_time_ns
      /\ t.flow.half_open_counted = s.flow.half_open_counted
      /\ t.flow.handshake_timeout_flagged = s.flow.handshake_timeout_flagged
    BY DEF Work, FlowState
<1> HIDE DEF t
<1>4. Balanced(s, others) => Balanced(t, others)
    BY <1>3 DEF Balanced
<1> QED BY <1>1, <1>2, <1>3, <1>4, ClearHalfOpenEffect DEF Keeps, Accounted

\* Completing a handshake releases the flow from the count.
LEMMA EstablishStepKeeps ==
    ASSUME NEW s \in Work, NEW pkt \in Received, NEW now \in Nat,
           NEW others \in [Endpoint -> Nat]
    PROVE  Keeps(s, EstablishStep(s, pkt), now, others)
<1> DEFINE fl == [s.flow EXCEPT !.state = "Established", !.established = TRUE]
           t  == [s EXCEPT !.flow = fl]
<1>1. EstablishStep(s, pkt) \in {s, ClearHalfOpen(t)}
    BY DEF EstablishStep, Work
<1>2. t \in Work
    BY DEF Work, FlowState, TcpState
<1>3. /\ t.half_open = s.half_open
      /\ t.flow.state = "Established"
      /\ t.flow.service = s.flow.service
      /\ t.flow.last_seen_ns = s.flow.last_seen_ns
      /\ t.flow.syn_time_ns = s.flow.syn_time_ns
      /\ t.flow.half_open_counted = s.flow.half_open_counted
      /\ t.flow.handshake_timeout_flagged = s.flow.handshake_timeout_flagged
    BY DEF Work, FlowState
<1> HIDE DEF t
<1>4. Balanced(s, others) => Balanced(t, others)
    BY <1>3 DEF Balanced
<1>5. Keeps(s, s, now, others)
    BY DEF Keeps
<1> QED BY <1>1, <1>2, <1>3, <1>4, <1>5, ClearHalfOpenEffect, ZenonT(30) DEF Keeps, Accounted

\* A FIN releases the flow from the count.
LEMMA FinStepKeeps ==
    ASSUME NEW s \in Work, NEW pkt \in Received, NEW now \in Nat,
           NEW others \in [Endpoint -> Nat]
    PROVE  Keeps(s, FinStep(s, pkt), now, others)
<1> DEFINE t == [s EXCEPT !.flow = [s.flow EXCEPT !.state = "Closing"]]
<1>1. FinStep(s, pkt) \in {s, ClearHalfOpen(t)}
    BY DEF FinStep, Work
<1>2. t \in Work
    BY DEF Work, FlowState, TcpState
<1>3. /\ t.half_open = s.half_open
      /\ t.flow.state = "Closing"
      /\ t.flow.service = s.flow.service
      /\ t.flow.last_seen_ns = s.flow.last_seen_ns
      /\ t.flow.syn_time_ns = s.flow.syn_time_ns
      /\ t.flow.half_open_counted = s.flow.half_open_counted
      /\ t.flow.handshake_timeout_flagged = s.flow.handshake_timeout_flagged
    BY DEF Work, FlowState
<1> HIDE DEF t
<1>4. Balanced(s, others) => Balanced(t, others)
    BY <1>3 DEF Balanced
<1>5. Keeps(s, s, now, others)
    BY DEF Keeps
<1> QED BY <1>1, <1>2, <1>3, <1>4, <1>5, ClearHalfOpenEffect, ZenonT(30) DEF Keeps, Accounted

\* The branch of update for established, data, ACK and FIN segments.
LEMMA DataStepKeeps ==
    ASSUME NEW s \in Work, NEW pkt \in Received, NEW now \in Nat,
           NEW others \in [Endpoint -> Nat]
    PROVE  DataStep(s, pkt) \in Work /\ Keeps(s, DataStep(s, pkt), now, others)
<1> DEFINE a == EstablishStep(s, pkt)
           b == FinStep(a, pkt)
           c == ZeroWindowStep(b, pkt)
           d == SegmentStep(c, pkt)
           e == DupAckStep(d, pkt)
<1>1. a \in Work /\ Keeps(s, a, now, others)
    BY EstablishStepType, EstablishStepKeeps
<1> HIDE DEF a
<1>2. b \in Work /\ Keeps(a, b, now, others)
    BY <1>1, FinStepType, FinStepKeeps
<1> HIDE DEF b
<1>3. c \in Work /\ Keeps(b, c, now, others)
    BY <1>2, ZeroWindowStepType, NeutralSteps, NeutralKeeps
<1> HIDE DEF c
<1>4. d \in Work /\ Keeps(c, d, now, others)
    BY <1>3, SegmentStepType, NeutralSteps, NeutralKeeps
<1> HIDE DEF d
<1>5. e \in Work /\ Keeps(d, e, now, others)
    BY <1>4, DupAckStepType, NeutralSteps, NeutralKeeps
<1>6. DataStep(s, pkt) = e
    BY DEF DataStep, a, b, c, d
<1> HIDE DEF e
<1>7. Keeps(s, c, now, others)
    BY <1>1, <1>2, <1>3, KeepsTransitive
<1>8. Keeps(s, e, now, others)
    BY <1>4, <1>5, <1>7, KeepsTransitive
<1> QED BY <1>5, <1>6, <1>8

(* The whole of update, from any flow: the result is well typed, the packet's *)
(* time becomes the flow's, and the accounting facts survive.                *)
LEMMA UpdateKeeps ==
    ASSUME NEW s \in Work, NEW pkt \in Received, NEW now \in Nat,
           NEW others \in [Endpoint -> Nat]
    PROVE  LET seen == [s EXCEPT !.flow.last_seen_ns = now]
           IN  /\ Update(s, pkt, now) \in Work
               /\ Keeps(seen, Update(s, pkt, now), now, others)
<1> DEFINE seen == [s EXCEPT !.flow.last_seen_ns = now]
<1>1. seen \in Work
    BY DEF Work, FlowState
<1>2. Keeps(seen, seen, now, others)
    BY DEF Keeps
<1>3. Update(s, pkt, now) = IF pkt.proto = "Tcp" THEN TcpStep(seen, pkt, now) ELSE seen
    BY DEF Update
<1> HIDE DEF seen
<1>4. TcpStep(seen, pkt, now) \in {SynStep(seen, pkt, now), SynAckStep(seen, pkt, now),
                                  RstStep(seen, now), DataStep(seen, pkt)}
    BY DEF TcpStep, IsSynOnly, IsSynAck
<1>5. /\ TcpStep(seen, pkt, now) \in Work
      /\ Keeps(seen, TcpStep(seen, pkt, now), now, others)
    BY <1>1, <1>4, SynStepKeeps, SynAckStepKeeps, SynAckStepType, RstStepKeeps,
       RstStepType, DataStepKeeps
<1> QED BY <1>1, <1>2, <1>3, <1>5 DEF seen

-----------------------------------------------------------------------------
(* The engine.                                                               *)

\* The durations that sweep computes from the configuration are natural numbers.
LEMMA Durations ==
    FlowTtlNs \in Nat /\ HandshakeTimeoutNs \in Nat /\ Skew \in Nat
    /\ SweepIntervalNs \in Nat \ {0}
BY EngineAssumption, NsPerSecAssumption
   DEF FlowTtlNs, HandshakeTimeoutNs, SweepIntervalNs

-----------------------------------------------------------------------------
(* The half-open table against a flow table.                                 *)

GoodTable(table) ==
    /\ table \in [DOMAIN table -> FlowState]
    /\ DOMAIN table \subseteq FlowKey
    /\ IsFiniteSet(DOMAIN table)
    /\ \A k \in DOMAIN table : Accounted(table[k])

Exact(table, h) ==
    \A ep \in Endpoint : HalfOpenFor(h, ep) = Cardinality(HalfOpenFlows(table, ep))

\* The counted flows of ep other than key.
OtherFlows(table, key, ep) == HalfOpenFlows(table, ep) \ {key}

Others(table, key) == [ep \in Endpoint |-> Cardinality(OtherFlows(table, key, ep))]

\* The flows counted towards an endpoint can be counted.
LEMMA HalfOpenFlowsFinite ==
    ASSUME NEW table, IsFiniteSet(DOMAIN table), NEW ep
    PROVE  /\ IsFiniteSet(HalfOpenFlows(table, ep))
           /\ Cardinality(HalfOpenFlows(table, ep)) \in Nat
BY FS_Subset, FS_CardinalityType DEF HalfOpenFlows

\* The counts without one flow are natural numbers.
LEMMA OthersType ==
    ASSUME NEW table, IsFiniteSet(DOMAIN table), NEW key
    PROVE  Others(table, key) \in [Endpoint -> Nat]
<1>1. ASSUME NEW ep \in Endpoint
      PROVE  Cardinality(OtherFlows(table, key, ep)) \in Nat
    BY HalfOpenFlowsFinite, FS_Subset, FS_CardinalityType DEF OtherFlows
<1> QED BY <1>1 DEF Others

\* Splitting one flow off the count of an endpoint.
LEMMA CountSplit ==
    ASSUME NEW table, IsFiniteSet(DOMAIN table), NEW key \in DOMAIN table,
           NEW ep \in Endpoint
    PROVE  Cardinality(HalfOpenFlows(table, ep)) =
             Others(table, key)[ep]
             + (IF table[key].half_open_counted /\ table[key].service = ep THEN 1 ELSE 0)
<1> DEFINE A == HalfOpenFlows(table, ep)
           B == OtherFlows(table, key, ep)
<1>1. IsFiniteSet(A) /\ IsFiniteSet(B) /\ Cardinality(B) \in Nat
    BY HalfOpenFlowsFinite, FS_Subset, FS_CardinalityType DEF OtherFlows
<1>2. Others(table, key)[ep] = Cardinality(B)
    BY DEF Others
<1>3. CASE table[key].half_open_counted /\ table[key].service = ep
  <2>1. A = B \cup {key} /\ key \notin B
      BY <1>3 DEF OtherFlows, HalfOpenFlows
  <2>2. Cardinality(A) = Cardinality(B) + 1
      BY <1>1, <2>1, FS_AddElement
  <2> QED BY <1>2, <1>3, <2>2
<1>4. CASE ~ (table[key].half_open_counted /\ table[key].service = ep)
  <2>1. A = B
      BY <1>4 DEF OtherFlows, HalfOpenFlows
  <2> QED BY <1>1, <1>2, <1>4, <2>1
<1> QED BY <1>3, <1>4

\* Marking a flow as reported (engine.rs:90-92) preserves its type.
LEMMA FlaggedType ==
    ASSUME NEW f \in FlowState
    PROVE  [f EXCEPT !.handshake_timeout_flagged = TRUE, !.half_open_counted = FALSE]
             \in FlowState
BY DEF FlowState

\* A sweep releases exactly the counted flows it reports or evicts.
LEMMA SweepExact ==
    ASSUME NEW table, GoodTable(table), NEW h \in HalfOpenTable, Exact(table, h),
           NEW now \in Nat
    PROVE  /\ GoodTable(SweptFlows(table, now))
           /\ SweptHalfOpen(table, h, now) \in HalfOpenTable
           /\ Exact(SweptFlows(table, now), SweptHalfOpen(table, h, now))
<1> DEFINE T == SweptFlows(table, now)
           H == SweptHalfOpen(table, h, now)
<1>1. DOMAIN T = DOMAIN table \ Idle(table, now)
    BY DEF SweptFlows
<1>2. ASSUME NEW k \in DOMAIN T
      PROVE  /\ T[k] = IF k \in TimedOut(table, now)
                       THEN [table[k] EXCEPT !.handshake_timeout_flagged = TRUE,
                                             !.half_open_counted = FALSE]
                       ELSE table[k]
             /\ k \in DOMAIN table /\ table[k] \in FlowState /\ Accounted(table[k])
    BY <1>1 DEF SweptFlows, GoodTable
<1>3. GoodTable(T)
  <2>1. ASSUME NEW k \in DOMAIN T PROVE T[k] \in FlowState /\ Accounted(T[k])
    <3>1. CASE k \notin TimedOut(table, now)
        BY <1>2, <3>1
    <3>2. CASE k \in TimedOut(table, now)
      <4>1. table[k].syn_time_ns # None
          BY <3>2 DEF TimedOut
      <4>2. T[k].half_open_counted = FALSE /\ T[k].handshake_timeout_flagged = TRUE
            /\ T[k].syn_time_ns = table[k].syn_time_ns
          BY <1>2, <3>2, ZenonT(30) DEF FlowState
      <4>3. T[k] \in FlowState
          BY <1>2, <3>2, FlaggedType
      <4> QED BY <4>1, <4>2, <4>3 DEF Accounted
    <3> QED BY <3>1, <3>2
  <2>2. T = [k \in DOMAIN T |-> T[k]]
      BY <1>1 DEF SweptFlows
  <2>3. IsFiniteSet(DOMAIN T)
      BY <1>1, FS_Subset DEF GoodTable
  <2>4. T \in [DOMAIN T -> FlowState]
      BY <2>1, <2>2
  <2> HIDE DEF T
  <2> QED BY <1>1, <2>1, <2>3, <2>4 DEF GoodTable
<1>4. ASSUME NEW ep \in Endpoint
      PROVE  /\ HalfOpenFlows(T, ep) = HalfOpenFlows(table, ep) \ Released(table, now, ep)
             /\ Released(table, now, ep) \subseteq HalfOpenFlows(table, ep)
  <2>1. Released(table, now, ep) \subseteq HalfOpenFlows(table, ep)
      BY DEF Released, HalfOpenFlows, TimedOut, Idle
  <2>2. ASSUME NEW k \in DOMAIN T
        PROVE  k \in HalfOpenFlows(T, ep) <=>
                 k \in HalfOpenFlows(table, ep) /\ k \notin TimedOut(table, now)
      BY <1>2, <2>2 DEF HalfOpenFlows, FlowState
  <2>3. HalfOpenFlows(T, ep) \subseteq DOMAIN T
      BY DEF HalfOpenFlows
  <2>4. HalfOpenFlows(table, ep) \subseteq DOMAIN table
      BY DEF HalfOpenFlows
  <2>5. ASSUME NEW k \in HalfOpenFlows(table, ep)
        PROVE  k \in Released(table, now, ep) <=>
                 k \in TimedOut(table, now) \cup Idle(table, now)
      BY DEF Released, HalfOpenFlows
  <2> HIDE DEF T
  <2> QED BY <1>1, <2>1, <2>2, <2>3, <2>4, <2>5
<1>5. PICK S \in SUBSET Endpoint : h \in [S -> Nat]
    BY DEF HalfOpenTable
<1>6. ASSUME NEW ep \in Endpoint
      PROVE  /\ Cardinality(Released(table, now, ep)) \in Nat
             /\ Cardinality(HalfOpenFlows(table, ep)) \in Nat
             /\ Cardinality(HalfOpenFlows(T, ep)) =
                  Cardinality(HalfOpenFlows(table, ep)) - Cardinality(Released(table, now, ep))
             /\ Cardinality(Released(table, now, ep)) <= Cardinality(HalfOpenFlows(table, ep))
  <2>1. IsFiniteSet(HalfOpenFlows(table, ep))
      BY HalfOpenFlowsFinite DEF GoodTable
  <2>2. HalfOpenFlows(table, ep) \cap Released(table, now, ep) = Released(table, now, ep)
      BY <1>4
  <2>3. IsFiniteSet(Released(table, now, ep))
      BY <1>4, <2>1, FS_Subset
  <2>4. /\ Cardinality(Released(table, now, ep)) \in Nat
        /\ Cardinality(HalfOpenFlows(table, ep)) \in Nat
      BY <2>1, <2>3, FS_CardinalityType
  <2>5. Cardinality(Released(table, now, ep)) <= Cardinality(HalfOpenFlows(table, ep))
      BY <1>4, <2>1, FS_Subset
  <2>6. Cardinality(HalfOpenFlows(table, ep) \ Released(table, now, ep)) =
          Cardinality(HalfOpenFlows(table, ep)) - Cardinality(Released(table, now, ep))
      BY <2>1, <2>2, FS_Difference, ZenonT(30)
  <2> QED BY <1>4, <2>4, <2>5, <2>6
<1>7. H \in [S -> Nat]
  <2>1. ASSUME NEW ep \in S PROVE SatSub(h[ep], Cardinality(Released(table, now, ep))) \in Nat
      BY <1>5, <1>6 DEF SatSub
  <2> QED BY <1>5, <2>1 DEF SweptHalfOpen
<1>8. H \in HalfOpenTable
    BY <1>7 DEF HalfOpenTable
<1>9. Exact(T, H)
  <2> SUFFICES ASSUME NEW ep \in Endpoint
               PROVE  HalfOpenFor(H, ep) = Cardinality(HalfOpenFlows(T, ep))
      BY DEF Exact
  <2> DEFINE all == Cardinality(HalfOpenFlows(table, ep))
             gone == Cardinality(Released(table, now, ep))
  <2>0. /\ all \in Nat /\ gone \in Nat /\ gone <= all
        /\ Cardinality(HalfOpenFlows(T, ep)) = all - gone
      BY <1>6
  <2>1. HalfOpenFor(h, ep) = all
      BY DEF Exact
  <2> HIDE DEF all, gone, H, T
  <2>2. CASE ep \in S
    <3>1. HalfOpenFor(H, ep) = SatSub(h[ep], gone)
        BY <1>5, <1>7, <2>2 DEF HalfOpenFor, SweptHalfOpen, H, gone
    <3>2. HalfOpenFor(h, ep) = h[ep]
        BY <1>5, <2>2 DEF HalfOpenFor
    <3> QED BY <2>0, <2>1, <3>1, <3>2 DEF SatSub
  <2>3. CASE ep \notin S
    <3>1. HalfOpenFor(H, ep) = 0 /\ HalfOpenFor(h, ep) = 0
        BY <1>5, <1>7, <2>3 DEF HalfOpenFor
    <3> QED BY <2>0, <2>1, <3>1
  <2> QED BY <2>2, <2>3
<1> QED BY <1>3, <1>8, <1>9

-----------------------------------------------------------------------------
(* A packet against the flow table.                                          *)

\* A new flow is well typed and not counted.
LEMMA NewFlowType ==
    ASSUME NEW ep \in Endpoint, NEW now \in Nat
    PROVE  NewFlow(ep, now) \in FlowState /\ Accounted(NewFlow(ep, now))
<1>1. NewFlow(ep, now) \in FlowState
    BY DEF NewFlow, FlowState, TcpState, None
<1>2. Accounted(NewFlow(ep, now))
    BY DEF NewFlow, Accounted
<1> QED BY <1>1, <1>2

\* guess_service returns one of the two endpoints.
LEMMA GuessServiceType ==
    ASSUME NEW pkt \in PacketMeta PROVE GuessService(pkt) \in Endpoint
BY DEF GuessService, Source, Destination, PacketMeta, FlowKey

\* What the engine is fed lies in the packets that the flow lemmas speak of.
LEMMA ReceivedPackets == Packets \subseteq Received
BY EngineAssumption DEF Received

\* The half-open table and the RST rate as the flow lemmas want them.
LEMMA TypeOKParts ==
    ASSUME TypeOK
    PROVE  half_open \in HalfOpenTable /\ rst_rate \in Rate(RateWindow)
BY DEF TypeOK, HalfOpenTable

\* The flow that a packet finds or creates, and how it is balanced.
LEMMA EntryFacts ==
    ASSUME TypeOK, HandshakeAccounting, Exact(flows, half_open),
           NEW pkt \in Packets, NEW now \in Nat
    PROVE  /\ Entry(pkt, now) \in Work
           /\ Accounted(Entry(pkt, now).flow)
           /\ Balanced(Entry(pkt, now), Others(flows, pkt.key))
<1> DEFINE e == Entry(pkt, now)
<1>0. pkt \in PacketMeta /\ pkt.key \in FlowKey
    BY ReceivedPackets DEF Received, PacketMeta
<1>1. e.flow \in FlowState /\ Accounted(e.flow)
  <2>1. CASE IsNewFlow(pkt)
      BY <1>0, <2>1, NewFlowType, GuessServiceType DEF Entry
  <2>2. CASE ~ IsNewFlow(pkt)
      BY <2>2 DEF Entry, IsNewFlow, TypeOK, HandshakeAccounting
  <2> QED BY <2>1, <2>2
<1>2. e.d \in PacketDelta
  <2>1. IsNewFlow(pkt) \in BOOLEAN
      BY DEF IsNewFlow
  <2> QED BY <2>1 DEF Entry, NoDelta, PacketDelta, None
<1>3. e \in Work
  <2>1. e = [flow |-> e.flow, half_open |-> half_open, rst_rate |-> rst_rate, d |-> e.d]
      BY DEF Entry
  <2> HIDE DEF e
  <2> QED BY <1>1, <1>2, <2>1, TypeOKParts DEF Work
<1>4. Balanced(e, Others(flows, pkt.key))
  <2> SUFFICES ASSUME NEW ep \in Endpoint
               PROVE  HalfOpenFor(half_open, ep) =
                        Others(flows, pkt.key)[ep]
                        + (IF e.flow.half_open_counted /\ e.flow.service = ep THEN 1 ELSE 0)
      BY DEF Balanced, Entry
  <2>1. HalfOpenFor(half_open, ep) = Cardinality(HalfOpenFlows(flows, ep))
      BY DEF Exact
  <2>2. IsFiniteSet(DOMAIN flows)
      BY DEF TypeOK
  <2>3. CASE ~ IsNewFlow(pkt)
    <3>1. e.flow = flows[pkt.key] /\ pkt.key \in DOMAIN flows
        BY <2>3 DEF Entry, IsNewFlow
    <3> QED BY <2>1, <2>2, <3>1, CountSplit
  <2>4. CASE IsNewFlow(pkt)
    <3>1. e.flow.half_open_counted = FALSE
        BY <2>4 DEF Entry, NewFlow
    <3>2. OtherFlows(flows, pkt.key, ep) = HalfOpenFlows(flows, ep)
        BY <2>4 DEF OtherFlows, HalfOpenFlows, IsNewFlow
    <3>3. Others(flows, pkt.key)[ep] = Cardinality(HalfOpenFlows(flows, ep))
        BY <3>2 DEF Others
    <3>4. Cardinality(HalfOpenFlows(flows, ep)) \in Nat
        BY <2>2, HalfOpenFlowsFinite
    <3> QED BY <2>1, <3>1, <3>3, <3>4
  <2> QED BY <2>3, <2>4
<1> QED BY <1>1, <1>3, <1>4

\* The flow after the packet.
LEMMA AppliedFacts ==
    ASSUME TypeOK, HandshakeAccounting, Exact(flows, half_open),
           NEW pkt \in Packets, NEW now \in Nat
    PROVE  LET s == Applied(pkt, now)
               e == Entry(pkt, now)
           IN  /\ s \in Work
               /\ Accounted(s.flow)
               /\ Balanced(s, Others(flows, pkt.key))
               /\ s.flow.last_seen_ns = now
               /\ s.flow.handshake_timeout_flagged = e.flow.handshake_timeout_flagged
               /\ s.flow.syn_time_ns \in {e.flow.syn_time_ns, now}
               /\ s.flow.state = "SynSent" =>
                    \/ e.flow.state = "SynSent" /\ s.flow.syn_time_ns = e.flow.syn_time_ns
                    \/ s.flow.syn_time_ns = now
<1> DEFINE s == Applied(pkt, now)
           e == Entry(pkt, now)
           seen == [e EXCEPT !.flow.last_seen_ns = now]
           oth == Others(flows, pkt.key)
<1>1. e \in Work /\ Accounted(e.flow) /\ Balanced(e, oth)
    BY EntryFacts
<1>2. oth \in [Endpoint -> Nat]
    BY OthersType DEF TypeOK
<1>3. s = Update(e, pkt, now)
    BY DEF Applied
<1>4. pkt \in Received
    BY ReceivedPackets
<1> HIDE DEF e, s, oth
<1>5. s \in Work /\ Keeps(seen, s, now, oth)
    BY <1>1, <1>2, <1>3, <1>4, UpdateKeeps
<1>6. /\ seen.half_open = e.half_open
      /\ seen.flow.state = e.flow.state
      /\ seen.flow.service = e.flow.service
      /\ seen.flow.last_seen_ns = now
      /\ seen.flow.syn_time_ns = e.flow.syn_time_ns
      /\ seen.flow.half_open_counted = e.flow.half_open_counted
      /\ seen.flow.handshake_timeout_flagged = e.flow.handshake_timeout_flagged
    BY <1>1 DEF Work, FlowState
<1> HIDE DEF seen
<1>7. Balanced(seen, oth) /\ Accounted(seen.flow)
    BY <1>1, <1>6 DEF Balanced, Accounted
<1> QED BY <1>5, <1>6, <1>7 DEF Keeps, s, e, oth

\* The flow table and the half-open table after the packet, before any sweep.
LEMMA TableFacts ==
    ASSUME TypeOK, HandshakeAccounting, Exact(flows, half_open),
           NEW pkt \in Packets, NEW now \in Nat
    PROVE  /\ GoodTable(Table(pkt, now))
           /\ Applied(pkt, now).half_open \in HalfOpenTable
           /\ Exact(Table(pkt, now), Applied(pkt, now).half_open)
<1> DEFINE T == Table(pkt, now)
           s == Applied(pkt, now)
           key == pkt.key
<1>1. s \in Work /\ Accounted(s.flow) /\ Balanced(s, Others(flows, key))
    BY AppliedFacts
<1>2. key \in FlowKey
    BY ReceivedPackets DEF Received, PacketMeta
<1>3. DOMAIN T = DOMAIN flows \cup {key} /\ T[key] = s.flow
      /\ \A k \in DOMAIN flows : k # key => T[k] = flows[k]
    BY DEF Table
<1>4. T = [k \in DOMAIN T |-> T[k]]
    BY DEF Table
<1> HIDE DEF T, s, key
<1>5. IsFiniteSet(DOMAIN T)
    BY <1>3, FS_AddElement DEF TypeOK
<1>6. GoodTable(T)
  <2>1. s.flow \in FlowState
      BY <1>1 DEF Work
  <2>2. ASSUME NEW k \in DOMAIN T PROVE T[k] \in FlowState /\ Accounted(T[k])
      BY <1>1, <1>3, <2>1 DEF TypeOK, HandshakeAccounting
  <2> QED BY <1>2, <1>3, <1>4, <1>5, <2>2 DEF GoodTable, TypeOK
<1>7. Exact(T, s.half_open)
  <2> SUFFICES ASSUME NEW ep \in Endpoint
               PROVE  HalfOpenFor(s.half_open, ep) = Cardinality(HalfOpenFlows(T, ep))
      BY DEF Exact
  <2>1. OtherFlows(T, key, ep) = OtherFlows(flows, key, ep)
      BY <1>3 DEF OtherFlows, HalfOpenFlows
  <2>2. Others(T, key)[ep] = Others(flows, key)[ep]
      BY <2>1 DEF Others
  <2>3. Cardinality(HalfOpenFlows(T, ep)) =
          Others(T, key)[ep]
          + (IF T[key].half_open_counted /\ T[key].service = ep THEN 1 ELSE 0)
      BY <1>3, <1>5, CountSplit
  <2> QED BY <1>1, <1>3, <2>2, <2>3 DEF Balanced
<1>8. s.half_open \in HalfOpenTable
    BY <1>1 DEF Work
<1> QED BY <1>6, <1>7, <1>8 DEF T, s

-----------------------------------------------------------------------------
(* Timeliness.                                                               *)

\* What TimelyFlow says when nothing is claimed about the last sweep.
Dated(f, newest) ==
    /\ f.last_seen_ns <= newest
    /\ f.syn_time_ns # None =>
         /\ f.syn_time_ns <= newest
         /\ f.syn_time_ns <= f.last_seen_ns + Skew

\* A sweep at now leaves nothing overdue at now.
LEMMA SweepTimely ==
    ASSUME NEW table, GoodTable(table), NEW now \in Nat, NEW newest \in Nat,
           \A k \in DOMAIN table : Dated(table[k], newest)
    PROVE  \A k \in DOMAIN SweptFlows(table, now) :
               TimelyFlow(SweptFlows(table, now)[k], now, newest)
<1> SUFFICES ASSUME NEW k \in DOMAIN SweptFlows(table, now)
             PROVE  TimelyFlow(SweptFlows(table, now)[k], now, newest)
    OBVIOUS
<1> DEFINE f == table[k]
           g == SweptFlows(table, now)[k]
<1>1. k \in DOMAIN table /\ k \notin Idle(table, now) /\ f \in FlowState
      /\ Accounted(f) /\ Dated(f, newest)
    BY DEF SweptFlows, GoodTable
<1>2. now <= f.last_seen_ns + FlowTtlNs
    BY <1>1, Durations DEF Idle, SatSub, FlowState
<1>3. CASE k \in TimedOut(table, now)
  <2>1. g = [f EXCEPT !.handshake_timeout_flagged = TRUE, !.half_open_counted = FALSE]
      BY <1>3 DEF SweptFlows
  <2>2. g.last_seen_ns = f.last_seen_ns /\ g.syn_time_ns = f.syn_time_ns
        /\ g.handshake_timeout_flagged = TRUE
      BY <1>1, <2>1 DEF FlowState
  <2>3. f.last_seen_ns \in Nat
      BY <1>1 DEF FlowState
  <2> HIDE DEF g, f
  <2>4. now <= g.last_seen_ns + Max2(FlowTtlNs, Skew)
      BY <1>2, <2>2, <2>3, Durations DEF Max2
  <2>5. TimelyFlow(g, now, newest)
      BY <1>1, <2>2, <2>4 DEF TimelyFlow, Dated
  <2> QED BY <2>5 DEF g
<1>4. CASE k \notin TimedOut(table, now)
  <2>1. g = f
      BY <1>4 DEF SweptFlows
  <2>2. ASSUME f.state = "SynSent", ~ f.handshake_timeout_flagged
        PROVE  now <= f.syn_time_ns + HandshakeTimeoutNs /\ f.syn_time_ns \in Nat
      BY <1>1, <1>4, <2>2, Durations DEF TimedOut, SatSub, Accounted, FlowState
  <2>3. f.last_seen_ns \in Nat
      BY <1>1 DEF FlowState
  <2> HIDE DEF g, f
  <2>4. now <= f.last_seen_ns + Max2(FlowTtlNs, Skew)
      BY <1>2, <2>3, Durations DEF Max2
  <2>5. f.state = "SynSent" /\ ~ f.handshake_timeout_flagged =>
          now <= f.syn_time_ns + Max2(HandshakeTimeoutNs, Skew)
      BY <2>2, Durations DEF Max2
  <2>6. TimelyFlow(f, now, newest)
      BY <1>1, <2>4, <2>5 DEF TimelyFlow, Dated
  <2> QED BY <2>1, <2>6 DEF g
<1> QED BY <1>3, <1>4

\* An extra sweep at any time keeps what the last one had established.
LEMMA SweepKeepsTimely ==
    ASSUME NEW table, GoodTable(table), NEW now \in Nat, NEW swept, NEW newest,
           \A k \in DOMAIN table : TimelyFlow(table[k], swept, newest)
    PROVE  \A k \in DOMAIN SweptFlows(table, now) :
               TimelyFlow(SweptFlows(table, now)[k], swept, newest)
<1> SUFFICES ASSUME NEW k \in DOMAIN SweptFlows(table, now)
             PROVE  TimelyFlow(SweptFlows(table, now)[k], swept, newest)
    OBVIOUS
<1> DEFINE f == table[k]
           g == SweptFlows(table, now)[k]
<1>1. k \in DOMAIN table /\ f \in FlowState /\ TimelyFlow(f, swept, newest)
    BY DEF SweptFlows, GoodTable
<1>2. g \in {f, [f EXCEPT !.handshake_timeout_flagged = TRUE, !.half_open_counted = FALSE]}
    BY DEF SweptFlows
<1>3. g.last_seen_ns = f.last_seen_ns /\ g.syn_time_ns = f.syn_time_ns
      /\ (g = f \/ g.handshake_timeout_flagged = TRUE)
    BY <1>1, <1>2 DEF FlowState
<1> HIDE DEF f, g
<1>4. TimelyFlow(g, swept, newest)
    BY <1>1, <1>3 DEF TimelyFlow
<1> QED BY <1>4 DEF g

\* The newest timestamp once now was presented.
Newest(now) == IF now > clock THEN now ELSE clock

\* After the packet, before any sweep.
LEMMA TableTimely ==
    ASSUME EngineInv, Exact(flows, half_open), NEW pkt \in Packets,
           NEW now \in Nat, InOrder(now)
    PROVE  \A k \in DOMAIN Table(pkt, now) :
               /\ TimelyFlow(Table(pkt, now)[k], last_sweep_ns, Newest(now))
               /\ Dated(Table(pkt, now)[k], Newest(now))
<1> SUFFICES ASSUME NEW k \in DOMAIN Table(pkt, now)
             PROVE  TimelyFlow(Table(pkt, now)[k], last_sweep_ns, Newest(now))
    BY DEF TimelyFlow, Dated
<1>1. TypeOK /\ HandshakeAccounting /\ SweepKeepsUp
    BY DEF EngineInv
<1>2. clock \in Nat /\ last_sweep_ns \in Nat /\ last_sweep_ns <= clock
      /\ clock <= now + Skew
    BY <1>1, Durations DEF TypeOK, SweepKeepsUp, InOrder
<1>3. clock <= Newest(now) /\ now <= Newest(now) /\ Newest(now) \in Nat
    BY <1>2 DEF Newest
<1>4. CASE k # pkt.key
  <2>1. k \in DOMAIN flows /\ Table(pkt, now)[k] = flows[k]
      BY <1>4 DEF Table
  <2>2. TimelyFlow(flows[k], last_sweep_ns, clock) /\ flows[k] \in FlowState
      BY <1>1, <2>1 DEF SweepKeepsUp, TypeOK
  <2>3. flows[k].last_seen_ns \in Nat /\ flows[k].syn_time_ns \in Nat \cup {None}
      BY <2>2 DEF FlowState
  <2> QED BY <1>2, <1>3, <2>1, <2>2, <2>3 DEF TimelyFlow, None
<1>5. CASE k = pkt.key
  <2> DEFINE s == Applied(pkt, now)
             e == Entry(pkt, now)
  <2>1. Table(pkt, now)[k] = s.flow
      BY <1>5 DEF Table
  <2>2. /\ s.flow.last_seen_ns = now
        /\ s.flow.handshake_timeout_flagged = e.flow.handshake_timeout_flagged
        /\ s.flow.syn_time_ns \in {e.flow.syn_time_ns, now}
        /\ s.flow.state = "SynSent" =>
             \/ e.flow.state = "SynSent" /\ s.flow.syn_time_ns = e.flow.syn_time_ns
             \/ s.flow.syn_time_ns = now
      BY <1>1, AppliedFacts
  <2>3. /\ e.flow.syn_time_ns # None => e.flow.syn_time_ns \in Nat /\ e.flow.syn_time_ns <= clock
        /\ e.flow.state = "SynSent" /\ ~ e.flow.handshake_timeout_flagged =>
             last_sweep_ns <= e.flow.syn_time_ns + Max2(HandshakeTimeoutNs, Skew)
    <3>1. CASE IsNewFlow(pkt)
        BY <3>1 DEF Entry, NewFlow, None
    <3>2. CASE ~ IsNewFlow(pkt)
      <4>1. pkt.key \in DOMAIN flows /\ e.flow = flows[pkt.key]
          BY <3>2 DEF IsNewFlow, Entry
      <4>2. TimelyFlow(flows[pkt.key], last_sweep_ns, clock) /\ flows[pkt.key] \in FlowState
          BY <1>1, <4>1 DEF SweepKeepsUp, TypeOK
      <4> QED BY <4>1, <4>2 DEF TimelyFlow, FlowState
    <3> QED BY <3>1, <3>2
  <2> HIDE DEF s, e
  <2>4. last_sweep_ns <= now + Max2(FlowTtlNs, Skew)
        /\ last_sweep_ns <= now + Max2(HandshakeTimeoutNs, Skew)
      BY <1>2, Durations DEF Max2
  <2>5. TimelyFlow(s.flow, last_sweep_ns, Newest(now))
    <3>1. s.flow.last_seen_ns <= Newest(now)
        BY <1>3, <2>2
    <3>2. last_sweep_ns <= s.flow.last_seen_ns + Max2(FlowTtlNs, Skew)
        BY <2>2, <2>4
    <3>3. s.flow.state = "SynSent" /\ ~ s.flow.handshake_timeout_flagged =>
            last_sweep_ns <= s.flow.syn_time_ns + Max2(HandshakeTimeoutNs, Skew)
        BY <2>2, <2>3, <2>4
    <3>4. s.flow.syn_time_ns # None =>
            /\ s.flow.syn_time_ns <= Newest(now)
            /\ s.flow.syn_time_ns <= s.flow.last_seen_ns + Skew
        BY <1>2, <1>3, <2>2, <2>3, Durations
    <3> QED BY <3>1, <3>2, <3>3, <3>4 DEF TimelyFlow
  <2> QED BY <2>1, <2>5
<1> QED BY <1>4, <1>5

-----------------------------------------------------------------------------
(* The inductive invariant.                                                  *)

\* HalfOpenExact ranges over the endpoints that occur; no other one counts.
LEMMA ExactEverywhere ==
    ASSUME TypeOK PROVE HalfOpenExact <=> Exact(flows, half_open)
<1>1. ASSUME HalfOpenExact, NEW ep \in Endpoint
      PROVE  HalfOpenFor(half_open, ep) = Cardinality(HalfOpenFlows(flows, ep))
  <2>1. CASE ep \in DOMAIN half_open \cup {flows[k].service : k \in DOMAIN flows}
      BY <1>1, <2>1 DEF HalfOpenExact
  <2>2. CASE ep \notin DOMAIN half_open \cup {flows[k].service : k \in DOMAIN flows}
    <3>1. HalfOpenFlows(flows, ep) = {}
        BY <2>2 DEF HalfOpenFlows
    <3>2. HalfOpenFor(half_open, ep) = 0
        BY <2>2 DEF HalfOpenFor
    <3> QED BY <3>1, <3>2, FS_EmptySet
  <2> QED BY <2>1, <2>2
<1>2. DOMAIN half_open \cup {flows[k].service : k \in DOMAIN flows} \subseteq Endpoint
    BY DEF TypeOK, FlowState
<1> QED BY <1>1, <1>2 DEF HalfOpenExact, Exact

\* A new engine satisfies the invariant.
LEMMA InitInv == Init => EngineInv
<1> SUFFICES ASSUME Init PROVE EngineInv
    OBVIOUS
<1>1. DOMAIN flows = {} /\ DOMAIN half_open = {} /\ clock = 0 /\ last_sweep_ns = 0
    BY DEF Init, NoFlows
<1>2. TypeOK
  <2>1. NewRate(RateWindow) \in Rate(RateWindow)
      BY DEF NewRate, Rate, RateWindow, NoEpoch
  <2>2. IsFiniteSet(DOMAIN flows)
      BY <1>1, FS_EmptySet
  <2>3. flows \in [DOMAIN flows -> FlowState] /\ half_open \in [DOMAIN half_open -> Nat]
      BY DEF Init, NoFlows
  <2>4. debounce \in [HostWide -> Nat] /\ out \subseteq L4Event
      BY DEF Init
  <2> QED BY <1>1, <2>1, <2>2, <2>3, <2>4 DEF Init, TypeOK
<1>3. HalfOpenExact
    BY <1>1 DEF HalfOpenExact
<1>4. HandshakeAccounting
    BY <1>1 DEF HandshakeAccounting
<1>5. SweepKeepsUp
    BY <1>1, Durations DEF SweepKeepsUp
<1> QED BY <1>2, <1>3, <1>4, <1>5 DEF EngineInv

\* From a good flow table and an exact half-open table back to the invariant.
LEMMA GoodTableParts ==
    ASSUME EngineInv
    PROVE  /\ GoodTable(flows) /\ half_open \in HalfOpenTable /\ Exact(flows, half_open)
BY ExactEverywhere, TypeOKParts DEF EngineInv, TypeOK, HandshakeAccounting, GoodTable

\* A sweep returns well-formed events.
LEMMA SweepEventsType ==
    ASSUME NEW table, GoodTable(table), NEW now
    PROVE  SweepEvents(table, now) \subseteq L4Event
BY DEF SweepEvents, TimedOut, GoodTable, Event, L4Event, EventKind, Severity

\* The detector chain returns well-formed events, and never a HandshakeTimeout.
LEMMA InspectType ==
    ASSUME NEW s, NEW key \in FlowKey, NEW fired \in SUBSET HostWide
    PROVE  /\ Inspect(s, key, fired) \subseteq L4Event
           /\ \A ev \in Inspect(s, key, fired) : ev.kind # "HandshakeTimeout"
<1> DEFINE kinds == EventKind \ {"HandshakeTimeout"}
<1>1. FlowFires(s) \cup fired \subseteq kinds
    BY DEF FlowFires, HostWide, EventKind
<1>2. ASSUME NEW kind \in kinds PROVE SeverityOf(kind, s) \in Severity
    BY DEF SeverityOf, Severity, EventKind
<1> HIDE DEF kinds
<1>3. ASSUME NEW ev \in Inspect(s, key, fired)
      PROVE  \E kind \in kinds : ev = Event(kind, SeverityOf(kind, s), key)
    BY <1>1 DEF Inspect
<1> QED BY <1>2, <1>3 DEF Event, L4Event, kinds

\* A sweep made from outside keeps the invariant.
LEMMA SweepInv ==
    ASSUME EngineInv, NEW now \in Times, Sweep(now)
    PROVE  EngineInv'
<1>1. now \in Nat
    BY EngineAssumption
<1>2. GoodTable(flows) /\ half_open \in HalfOpenTable /\ Exact(flows, half_open)
    BY GoodTableParts
<1>3. GoodTable(flows') /\ half_open' \in HalfOpenTable /\ Exact(flows', half_open')
    BY <1>1, <1>2, SweepExact DEF Sweep
<1>4. \A k \in DOMAIN flows' : TimelyFlow(flows'[k], last_sweep_ns, clock)
    BY <1>1, <1>2, SweepKeepsTimely DEF Sweep, EngineInv, SweepKeepsUp
<1>5. out' \subseteq L4Event
    BY <1>2, SweepEventsType DEF Sweep
<1>6. half_open' \in [DOMAIN half_open' -> Nat] /\ DOMAIN half_open' \subseteq Endpoint
    BY <1>3 DEF HalfOpenTable
<1>7. TypeOK'
    BY <1>3, <1>5, <1>6 DEF Sweep, EngineInv, TypeOK, GoodTable
<1>8. HalfOpenExact'
  <2>1. ASSUME NEW k \in DOMAIN flows' PROVE flows'[k].service \in Endpoint
      BY <1>3 DEF GoodTable, FlowState
  <2> QED BY <1>3, <1>6, <2>1 DEF HalfOpenExact, Exact
<1>9. HandshakeAccounting'
    BY <1>3 DEF HandshakeAccounting, GoodTable
<1>10. SweepKeepsUp'
    BY <1>4 DEF Sweep, EngineInv, SweepKeepsUp
<1> QED BY <1>7, <1>8, <1>9, <1>10 DEF EngineInv

\* Processing a packet, with the sweep it may trigger, keeps the invariant.
LEMMA ProcessInv ==
    ASSUME EngineInv, NEW pkt \in Packets, NEW now \in Times, Process(pkt, now)
    PROVE  EngineInv'
<1> DEFINE s     == Applied(pkt, now)
           table == Table(pkt, now)
           fired == HostWideFires(debounce, s, NewFlowRate(pkt, now), now)
<1>1. now \in Nat
    BY EngineAssumption
<1>2. TypeOK /\ HandshakeAccounting /\ SweepKeepsUp
    BY DEF EngineInv
<1>3. GoodTable(flows) /\ half_open \in HalfOpenTable /\ Exact(flows, half_open)
    BY GoodTableParts
<1>4. GoodTable(table) /\ s.half_open \in HalfOpenTable /\ Exact(table, s.half_open)
    BY <1>1, <1>2, <1>3, TableFacts
<1>5. InOrder(now)
    BY DEF Process
<1>6. \A k \in DOMAIN table :
          TimelyFlow(table[k], last_sweep_ns, Newest(now)) /\ Dated(table[k], Newest(now))
    BY <1>1, <1>3, <1>5, TableTimely
<1>7. /\ flows' = IF SweepDue(now) THEN SweptFlows(table, now) ELSE table
      /\ half_open' = IF SweepDue(now) THEN SweptHalfOpen(table, s.half_open, now)
                      ELSE s.half_open
      /\ rst_rate' = s.rst_rate
      /\ new_flow_rate' = NewFlowRate(pkt, now)
      /\ debounce' = DebounceAfter(debounce, fired, now)
      /\ last_sweep_ns' = IF SweepDue(now) THEN now ELSE last_sweep_ns
      /\ clock' = Newest(now)
      /\ out' = Inspect(s, pkt.key, fired)
                  \cup (IF SweepDue(now) THEN SweepEvents(table, now) ELSE {})
    BY DEF Process, Newest
<1>8. s \in Work
    BY <1>1, <1>2, <1>3, AppliedFacts
<1>9. pkt.key \in FlowKey
    BY ReceivedPackets DEF Received, PacketMeta
<1>10. fired \subseteq HostWide
    BY DEF HostWideFires
<1> HIDE DEF s, table, fired
<1>11. GoodTable(flows') /\ half_open' \in HalfOpenTable /\ Exact(flows', half_open')
    BY <1>1, <1>4, <1>7, SweepExact
<1>12. half_open' \in [DOMAIN half_open' -> Nat] /\ DOMAIN half_open' \subseteq Endpoint
    BY <1>11 DEF HalfOpenTable
<1>13. TypeOK'
  <2>1. out' \subseteq L4Event
      BY <1>4, <1>7, <1>9, <1>10, InspectType, SweepEventsType
  <2>2. debounce' \in [HostWide -> Nat]
      BY <1>1, <1>2, <1>7 DEF DebounceAfter, TypeOK
  <2>3. rst_rate' \in Rate(RateWindow) /\ new_flow_rate' \in Rate(RateWindow)
      BY <1>1, <1>2, <1>7, <1>8, RecordType DEF Work, NewFlowRate, TypeOK
  <2>4. last_sweep_ns' \in Nat /\ clock' \in Nat
      BY <1>1, <1>2, <1>7 DEF TypeOK, Newest
  <2> QED BY <1>11, <1>12, <2>1, <2>2, <2>3, <2>4 DEF TypeOK, GoodTable
<1>14. HalfOpenExact'
  <2>1. ASSUME NEW k \in DOMAIN flows' PROVE flows'[k].service \in Endpoint
      BY <1>11 DEF GoodTable, FlowState
  <2> QED BY <1>11, <1>12, <2>1 DEF HalfOpenExact, Exact
<1>15. HandshakeAccounting'
    BY <1>11 DEF HandshakeAccounting, GoodTable
<1>16. SweepKeepsUp'
  <2>1. clock \in Nat /\ last_sweep_ns \in Nat /\ last_sweep_ns <= clock
        /\ clock < last_sweep_ns + SweepIntervalNs
      BY <1>2 DEF TypeOK, SweepKeepsUp
  <2>2. CASE SweepDue(now)
    <3>1. Newest(now) = now
        BY <1>1, <2>1, <2>2, Durations DEF SweepDue, SatSub, Newest
    <3>2. \A k \in DOMAIN flows' : TimelyFlow(flows'[k], now, now)
        BY <1>1, <1>4, <1>6, <1>7, <2>2, <3>1, SweepTimely
    <3> QED BY <1>1, <1>7, <2>2, <3>1, <3>2, Durations DEF SweepKeepsUp
  <2>3. CASE ~ SweepDue(now)
    <3>1. last_sweep_ns <= Newest(now) /\ Newest(now) < last_sweep_ns + SweepIntervalNs
        BY <1>1, <2>1, <2>3, Durations DEF SweepDue, SatSub, Newest
    <3> QED BY <1>6, <1>7, <2>3, <3>1 DEF SweepKeepsUp
  <2> QED BY <2>2, <2>3
<1> QED BY <1>13, <1>14, <1>15, <1>16 DEF EngineInv

\* A step that changes nothing keeps the invariant.
LEMMA StutterInv == EngineInv /\ UNCHANGED vars => EngineInv'
BY DEF EngineInv, TypeOK, HalfOpenExact, HandshakeAccounting, SweepKeepsUp, vars

(* The inductive invariant holds in every reachable state of the engine.     *)
THEOREM Invariant == Spec => []EngineInv
<1>1. EngineInv /\ [Next]_vars => EngineInv'
  <2> SUFFICES ASSUME EngineInv, [Next]_vars PROVE EngineInv'
      OBVIOUS
  <2>1. CASE \E pkt \in Packets, now \in Times : Process(pkt, now)
      BY <2>1, ProcessInv
  <2>2. CASE \E now \in Times : Sweep(now)
      BY <2>2, SweepInv
  <2>3. CASE UNCHANGED vars
      BY <2>3, StutterInv
  <2> QED BY <2>1, <2>2, <2>3 DEF Next
<1> QED BY <1>1, InitInv, PTL DEF Spec

-----------------------------------------------------------------------------
(* What the invariant gives.                                                 *)

(* The engine's state is well typed in every reachable state.                *)
THEOREM TypeCorrect == Spec => []TypeOK
<1>1. EngineInv => TypeOK
    BY DEF EngineInv
<1> QED BY <1>1, Invariant, PTL

(* For every capture, ordered or not, the half-open count of every endpoint  *)
(* is the number of live flows counted towards it (flow.rs:178-216 and       *)
(* 277-284, engine.rs:88-118).                                               *)
THEOREM HalfOpenCountsAreExact == Spec => []HalfOpenExact
<1>1. EngineInv => HalfOpenExact
    BY DEF EngineInv
<1> QED BY <1>1, Invariant, PTL

(* Only handshakes that are neither finished nor reported are counted, and   *)
(* all of those that wait for a SYN-ACK are.                                 *)
THEOREM HandshakesAreAccounted == Spec => []HandshakeAccounting
<1>1. EngineInv => HandshakeAccounting
    BY DEF EngineInv
<1> QED BY <1>1, Invariant, PTL

(* A flow is evicted less than one sweep interval after its time to live     *)
(* (or after the capture's disorder, if that is longer) is over.             *)
THEOREM FlowsAreEvictedInTime == Spec => []IdleFlowsEvicted
<1>1. EngineInv => IdleFlowsEvicted
  <2> SUFFICES ASSUME EngineInv, NEW k \in DOMAIN flows
               PROVE  clock < flows[k].last_seen_ns + Max2(FlowTtlNs, Skew) + SweepIntervalNs
      BY DEF IdleFlowsEvicted
  <2>1. flows[k].last_seen_ns \in Nat /\ clock \in Nat /\ last_sweep_ns \in Nat
      BY DEF EngineInv, TypeOK, FlowState
  <2>2. last_sweep_ns <= flows[k].last_seen_ns + Max2(FlowTtlNs, Skew)
        /\ clock < last_sweep_ns + SweepIntervalNs
      BY DEF EngineInv, SweepKeepsUp, TimelyFlow
  <2>3. Max2(FlowTtlNs, Skew) \in Nat
      BY Durations DEF Max2
  <2> QED BY <2>1, <2>2, <2>3, Durations
<1> QED BY <1>1, Invariant, PTL

(* A SYN without SYN-ACK is reported less than one sweep interval after its  *)
(* time-out (or the capture's disorder) is over.                             *)
THEOREM SynsAreReportedInTime == Spec => []UnansweredSynReported
<1>1. EngineInv => UnansweredSynReported
  <2> SUFFICES ASSUME EngineInv, NEW k \in DOMAIN flows, flows[k].state = "SynSent",
                      ~ flows[k].handshake_timeout_flagged
               PROVE  clock < flows[k].syn_time_ns + Max2(HandshakeTimeoutNs, Skew)
                              + SweepIntervalNs
      BY DEF UnansweredSynReported
  <2>1. flows[k].syn_time_ns \in Nat /\ clock \in Nat /\ last_sweep_ns \in Nat
      BY DEF EngineInv, TypeOK, FlowState, HandshakeAccounting, Accounted
  <2>2. last_sweep_ns <= flows[k].syn_time_ns + Max2(HandshakeTimeoutNs, Skew)
        /\ clock < last_sweep_ns + SweepIntervalNs
      BY DEF EngineInv, SweepKeepsUp, TimelyFlow
  <2>3. Max2(HandshakeTimeoutNs, Skew) \in Nat
      BY Durations DEF Max2
  <2> QED BY <2>1, <2>2, <2>3, Durations
<1> QED BY <1>1, Invariant, PTL

\* A sweep that evicts a waiting handshake also reports it.
LEMMA EvictedIsTimedOut ==
    ASSUME NEW table, NEW now \in Nat, NEW k \in Idle(table, now),
           table[k] \in FlowState, Accounted(table[k]), NEW newest,
           Dated(table[k], newest), table[k].state = "SynSent",
           ~ table[k].handshake_timeout_flagged,
           HandshakeTimeoutNs + Skew <= FlowTtlNs
    PROVE  Event("HandshakeTimeout", "Warning", k) \in SweepEvents(table, now)
<1> DEFINE f == table[k]
<1>1. f.syn_time_ns \in Nat /\ f.last_seen_ns \in Nat
    BY DEF Accounted, FlowState
<1>2. SatSub(now, f.last_seen_ns) > FlowTtlNs /\ k \in DOMAIN table
    BY DEF Idle
<1>3. f.syn_time_ns <= f.last_seen_ns + Skew
    BY <1>1 DEF Dated, None
<1>4. SatSub(now, f.syn_time_ns) > HandshakeTimeoutNs
    BY <1>1, <1>2, <1>3, Durations DEF SatSub
<1>5. k \in TimedOut(table, now)
    BY <1>1, <1>2, <1>4 DEF TimedOut, None
<1> QED BY <1>5 DEF SweepEvents

(* No flow that waits for its SYN-ACK leaves the table without a             *)
(* HandshakeTimeout event, when the time-out plus the disorder fit in the    *)
(* time to live.                                                             *)
THEOREM EvictionIsNeverSilent == Spec => NoSilentEviction
<1> DEFINE Reported ==
        HandshakeTimeoutNs + Skew <= FlowTtlNs =>
          \A k \in DOMAIN flows \ DOMAIN flows' :
            flows[k].state = "SynSent" /\ ~ flows[k].handshake_timeout_flagged =>
                Event("HandshakeTimeout", "Warning", k) \in out'
<1>1. EngineInv /\ [Next]_vars => [Reported]_vars
  <2> SUFFICES ASSUME EngineInv, Next, HandshakeTimeoutNs + Skew <= FlowTtlNs,
                      NEW k \in DOMAIN flows \ DOMAIN flows',
                      flows[k].state = "SynSent",
                      ~ flows[k].handshake_timeout_flagged
               PROVE  Event("HandshakeTimeout", "Warning", k) \in out'
      OBVIOUS
  <2>1. flows[k] \in FlowState /\ Accounted(flows[k]) /\ Dated(flows[k], clock)
      BY DEF EngineInv, TypeOK, HandshakeAccounting, SweepKeepsUp, TimelyFlow, Dated
  <2>2. ASSUME NEW now \in Times, Sweep(now)
        PROVE  Event("HandshakeTimeout", "Warning", k) \in out'
    <3>1. k \in Idle(flows, now) /\ now \in Nat
        BY <2>2, EngineAssumption DEF Sweep, SweptFlows
    <3> QED BY <2>1, <2>2, <3>1, EvictedIsTimedOut DEF Sweep
  <2>3. ASSUME NEW pkt \in Packets, NEW now \in Times, Process(pkt, now)
        PROVE  Event("HandshakeTimeout", "Warning", k) \in out'
    <3> DEFINE table == Table(pkt, now)
    <3>1. DOMAIN table = DOMAIN flows \cup {pkt.key}
        BY DEF Table
    <3>2. SweepDue(now) /\ DOMAIN flows' = DOMAIN table \ Idle(table, now)
        BY <2>3, <3>1 DEF Process, SweptFlows
    <3>3. k \in Idle(table, now) /\ now \in Nat
        BY <3>1, <3>2, EngineAssumption
    <3>4. k # pkt.key
      <4>1. TypeOK /\ HandshakeAccounting /\ Exact(flows, half_open)
          BY GoodTableParts DEF EngineInv
      <4>2. table[pkt.key].last_seen_ns = now
          BY <3>3, <4>1, AppliedFacts DEF Table
      <4> QED BY <3>3, <4>2, Durations DEF Idle, SatSub
    <3>5. table[k] = flows[k]
        BY <3>1, <3>4 DEF Table
    <3> HIDE DEF table
    <3>6. Event("HandshakeTimeout", "Warning", k) \in SweepEvents(table, now)
        BY <2>1, <3>3, <3>5, EvictedIsTimedOut
    <3> QED BY <2>3, <3>2, <3>6 DEF Process, table
  <2> QED BY <2>2, <2>3 DEF Next
<1> QED BY <1>1, Invariant, PTL DEF Spec, NoSilentEviction

(* A flow is reported as timed out at most once, whatever arrives later.     *)
THEOREM TimeoutIsReportedOnce == Spec => TimeoutReportedOnce
<1> DEFINE Once ==
        \A k \in DOMAIN flows :
          flows[k].handshake_timeout_flagged =>
              /\ Event("HandshakeTimeout", "Warning", k) \notin out'
              /\ k \in DOMAIN flows' => flows'[k].handshake_timeout_flagged
<1>1. EngineInv /\ [Next]_vars => [Once]_vars
  <2> SUFFICES ASSUME EngineInv, Next, NEW k \in DOMAIN flows,
                      flows[k].handshake_timeout_flagged
               PROVE  /\ Event("HandshakeTimeout", "Warning", k) \notin out'
                      /\ k \in DOMAIN flows' => flows'[k].handshake_timeout_flagged
      OBVIOUS
  <2>1. ASSUME NEW table, NEW now, k \in DOMAIN table,
               table[k].handshake_timeout_flagged
        PROVE  /\ Event("HandshakeTimeout", "Warning", k) \notin SweepEvents(table, now)
               /\ k \in DOMAIN SweptFlows(table, now) =>
                    SweptFlows(table, now)[k] = table[k]
      BY <2>1 DEF SweepEvents, TimedOut, Event, SweptFlows
  <2>2. ASSUME NEW now \in Times, Sweep(now)
        PROVE  /\ Event("HandshakeTimeout", "Warning", k) \notin out'
               /\ k \in DOMAIN flows' => flows'[k].handshake_timeout_flagged
      BY <2>1, <2>2 DEF Sweep
  <2>3. ASSUME NEW pkt \in Packets, NEW now \in Times, Process(pkt, now)
        PROVE  /\ Event("HandshakeTimeout", "Warning", k) \notin out'
               /\ k \in DOMAIN flows' => flows'[k].handshake_timeout_flagged
    <3> DEFINE table == Table(pkt, now)
               s     == Applied(pkt, now)
               fired == HostWideFires(debounce, s, NewFlowRate(pkt, now), now)
    <3>1. TypeOK /\ HandshakeAccounting /\ Exact(flows, half_open) /\ now \in Nat
        BY GoodTableParts, EngineAssumption DEF EngineInv
    <3>2. k \in DOMAIN table /\ table[k].handshake_timeout_flagged
      <4>1. CASE k = pkt.key
        <5>1. s.flow.handshake_timeout_flagged = Entry(pkt, now).flow.handshake_timeout_flagged
            BY <3>1, AppliedFacts
        <5>2. Entry(pkt, now).flow = flows[k]
            BY <4>1 DEF Entry, IsNewFlow
        <5> QED BY <4>1, <5>1, <5>2 DEF Table
      <4>2. CASE k # pkt.key
          BY <4>2 DEF Table
      <4> QED BY <4>1, <4>2
    <3>3. pkt.key \in FlowKey /\ fired \subseteq HostWide
        BY ReceivedPackets DEF Received, PacketMeta, HostWideFires
    <3>4. Event("HandshakeTimeout", "Warning", k) \notin Inspect(s, pkt.key, fired)
      <4>1. Event("HandshakeTimeout", "Warning", k).kind = "HandshakeTimeout"
          BY DEF Event
      <4> HIDE DEF s, fired
      <4> QED BY <3>3, <4>1, InspectType
    <3>5. /\ flows' = IF SweepDue(now) THEN SweptFlows(table, now) ELSE table
          /\ out' = Inspect(s, pkt.key, fired)
                      \cup (IF SweepDue(now) THEN SweepEvents(table, now) ELSE {})
        BY <2>3 DEF Process
    <3> HIDE DEF table, s, fired
    <3> QED BY <2>1, <3>2, <3>4, <3>5
  <2> QED BY <2>2, <2>3 DEF Next
<1> QED BY <1>1, Invariant, PTL DEF Spec, TimeoutReportedOnce

-----------------------------------------------------------------------------
(* What a step of update does to windows and ACK counts.                     *)

SameWindows(s, t) ==
    /\ t.flow.zero_window = s.flow.zero_window
    /\ t.d.zero_window_edge = s.d.zero_window_edge

SameAcks(s, t) ==
    /\ t.flow.last_ack = s.flow.last_ack
    /\ t.flow.dup_ack_count = s.flow.dup_ack_count
    /\ t.d.is_dup_ack = s.d.is_dup_ack
    /\ t.d.dup_ack_count = s.d.dup_ack_count

\* A step that neither looks at windows nor counts ACKs.
Indifferent(s, t) == SameWindows(s, t) /\ SameAcks(s, t)

\* clear_half_open touches the half-open fields only.
LEMMA ClearHalfOpenIndifferent ==
    ASSUME NEW s \in Work PROVE Indifferent(s, ClearHalfOpen(s))
BY DEF Indifferent, SameWindows, SameAcks, ClearHalfOpen, Work, FlowState

\* Both SYN branches set next_seq and handshake fields only.
LEMMA SynIndifferent ==
    ASSUME NEW s \in Work, NEW pkt \in Received, NEW now \in Nat
    PROVE  /\ Indifferent(s, SynStep(s, pkt, now))
           /\ Indifferent(s, SynAckStep(s, pkt, now))
<1>1. Indifferent(s, OpenHandshake(s, now))
    BY DEF Indifferent, SameWindows, SameAcks, OpenHandshake, Work, FlowState
<1>2. ASSUME NEW t \in Work PROVE Indifferent(t, ExpectAfterSyn(t, pkt))
    BY DEF Indifferent, SameWindows, SameAcks, ExpectAfterSyn, Work, FlowState
<1>3. Indifferent(s, SynStep(s, pkt, now))
  <2> DEFINE t == OpenHandshake(s, now)
  <2>1. t \in Work /\ SynStep(s, pkt, now) = ExpectAfterSyn(t, pkt)
      BY OpenHandshakeType DEF SynStep
  <2>2. Indifferent(t, ExpectAfterSyn(t, pkt))
      BY <1>2, <2>1
  <2> HIDE DEF t
  <2> QED BY <1>1, <2>1, <2>2 DEF Indifferent, SameWindows, SameAcks, t
<1>4. Indifferent(s, SynAckStep(s, pkt, now))
    BY DEF Indifferent, SameWindows, SameAcks, SynAckStep, ExpectAfterSyn, Work, FlowState,
           PacketDelta
<1> QED BY <1>3, <1>4

\* The RST branch records the reset and releases the flow.
LEMMA RstIndifferent ==
    ASSUME NEW s \in Work, NEW now \in Nat PROVE Indifferent(s, RstStep(s, now))
<1> DEFINE refused == s.flow.state \in {"SynSent", "SynAckSeen"}
           fl == [s.flow EXCEPT !.state = "Reset"]
           dl == [s.d EXCEPT !.rst = TRUE, !.handshake_refused = refused]
           t  == [s EXCEPT !.flow = fl, !.d = dl,
                           !.rst_rate = Record(s.rst_rate, RateWindow, now)]
<1>1. RstStep(s, now) = ClearHalfOpen(t)
    BY DEF RstStep, Work
<1>2. refused \in BOOLEAN
    OBVIOUS
<1> HIDE DEF refused
<1>3. fl \in FlowState /\ dl \in PacketDelta
    BY <1>2 DEF Work, FlowState, TcpState, PacketDelta
<1>4. Indifferent(s, t)
    BY DEF Indifferent, SameWindows, SameAcks, Work, FlowState, PacketDelta
<1>5. t \in Work
  <2> HIDE DEF fl, dl
  <2> QED BY <1>3, RecordType DEF Work
<1> HIDE DEF t
<1> QED BY <1>1, <1>4, <1>5, ClearHalfOpenIndifferent DEF Indifferent, SameWindows, SameAcks

\* Completing or closing a connection touches handshake fields only.
LEMMA EstablishFinIndifferent ==
    ASSUME NEW s \in Work, NEW pkt \in Received
    PROVE  Indifferent(s, EstablishStep(s, pkt)) /\ Indifferent(s, FinStep(s, pkt))
<1> DEFINE est == [s EXCEPT !.flow = [s.flow EXCEPT !.state = "Established",
                                                    !.established = TRUE]]
           fin == [s EXCEPT !.flow = [s.flow EXCEPT !.state = "Closing"]]
<1>1. EstablishStep(s, pkt) \in {s, ClearHalfOpen(est)}
    BY DEF EstablishStep, Work
<1>2. FinStep(s, pkt) \in {s, ClearHalfOpen(fin)}
    BY DEF FinStep, Work
<1>3. est \in Work /\ fin \in Work
    BY DEF Work, FlowState, TcpState
<1>4. Indifferent(s, est) /\ Indifferent(s, fin) /\ Indifferent(s, s)
    BY DEF Indifferent, SameWindows, SameAcks, Work, FlowState
<1> HIDE DEF est, fin
<1>5. Indifferent(s, ClearHalfOpen(est)) /\ Indifferent(s, ClearHalfOpen(fin))
    BY <1>3, <1>4, ClearHalfOpenIndifferent DEF Indifferent, SameWindows, SameAcks
<1> QED BY <1>1, <1>2, <1>4, <1>5

\* Sequence analysis touches neither.
LEMMA SegmentIndifferent ==
    ASSUME NEW s \in Work, NEW pkt \in Received
    PROVE  Indifferent(s, SegmentStep(s, pkt))
BY DEF Indifferent, SameWindows, SameAcks, SegmentStep, Work, FlowState, PacketDelta

\* What update makes of the windows: an edge is a window that was open before
\* and is closed after, and only an open window reopens one.
WindowEffect(s, t, pkt) ==
    /\ t.d.zero_window_edge =>
         /\ pkt.window = 0 /\ ~ s.flow.zero_window[pkt.dir]
         /\ t.flow.zero_window[pkt.dir]
    /\ \A i \in Direction :
         s.flow.zero_window[i] /\ (i # pkt.dir \/ pkt.window = 0) => t.flow.zero_window[i]

\* A bare ACK in the sense of flow.rs:250.
BareAck(pkt) ==
    /\ "ACK" \in pkt.flags /\ pkt.payload_len = 0
    /\ pkt.flags \cap {"SYN", "FIN", "RST"} = {}

\* What it makes of the ACK counts: a repeated ACK adds one to the count of its
\* direction, a new one clears it, and nothing else touches a count.
AckEffect(s, t, pkt) ==
    /\ t.d.is_dup_ack =>
         /\ t.d.dup_ack_count = s.flow.dup_ack_count[pkt.dir] + 1
         /\ t.flow.dup_ack_count =
              [s.flow.dup_ack_count EXCEPT ![pkt.dir] = s.flow.dup_ack_count[pkt.dir] + 1]
    /\ ~ t.d.is_dup_ack =>
         \A i \in Direction :
            \/ t.flow.dup_ack_count[i] = s.flow.dup_ack_count[i]
            \/ i = pkt.dir /\ BareAck(pkt) /\ s.flow.last_ack[pkt.dir] # pkt.ack

\* A delta as update starts from it.
Fresh(s) == s.d.zero_window_edge = FALSE /\ s.d.is_dup_ack = FALSE

\* A branch that looks at neither has neither effect.
LEMMA IndifferentEffects ==
    ASSUME NEW s \in Work, NEW t, NEW pkt, Fresh(s), Indifferent(s, t)
    PROVE  WindowEffect(s, t, pkt) /\ AckEffect(s, t, pkt)
BY DEF Indifferent, SameWindows, SameAcks, WindowEffect, AckEffect, Fresh

\* The zero-window step (flow.rs:219-226).
LEMMA ZeroWindowEffect ==
    ASSUME NEW s \in Work, NEW pkt \in Received, s.d.zero_window_edge = FALSE
    PROVE  WindowEffect(s, ZeroWindowStep(s, pkt), pkt) /\ SameAcks(s, ZeroWindowStep(s, pkt))
<1> DEFINE edge == pkt.window = 0 /\ ~ s.flow.zero_window[pkt.dir]
           zero == pkt.window = 0
           t    == ZeroWindowStep(s, pkt)
<1>1. pkt.dir \in Direction
    BY DEF Received, PacketMeta
<1>2. CASE s.flow.established \/ s.flow.state = "Closing"
  <2>1. t = [s EXCEPT !.d = [s.d EXCEPT !.zero_window_edge = edge],
                      !.flow = [s.flow EXCEPT !.zero_window[pkt.dir] = zero]]
      BY <1>2 DEF ZeroWindowStep, Work
  <2>2. /\ t.d.zero_window_edge = edge
        /\ t.flow.zero_window = [s.flow.zero_window EXCEPT ![pkt.dir] = zero]
        /\ SameAcks(s, t)
      BY <2>1 DEF Work, FlowState, PacketDelta, SameAcks
  <2>3. s.flow.zero_window \in [Direction -> BOOLEAN]
      BY DEF Work, FlowState
  <2>4. WindowEffect(s, t, pkt)
    <3> HIDE DEF t
    <3> QED BY <1>1, <2>2, <2>3 DEF WindowEffect
  <2> QED BY <2>2, <2>4
<1>3. CASE ~ (s.flow.established \/ s.flow.state = "Closing")
    BY <1>3 DEF ZeroWindowStep, WindowEffect, SameAcks
<1> QED BY <1>2, <1>3

\* The duplicate-ACK step (flow.rs:250-262).
LEMMA DupAckEffect ==
    ASSUME NEW s \in Work, NEW pkt \in Received, s.d.is_dup_ack = FALSE,
           "SYN" \notin pkt.flags, "RST" \notin pkt.flags
    PROVE  AckEffect(s, DupAckStep(s, pkt), pkt) /\ SameWindows(s, DupAckStep(s, pkt))
<1> DEFINE n   == s.flow.dup_ack_count[pkt.dir] + 1
           t   == DupAckStep(s, pkt)
           dup == [s EXCEPT !.d = [s.d EXCEPT !.is_dup_ack = TRUE, !.dup_ack_count = n],
                            !.flow = [s.flow EXCEPT !.dup_ack_count[pkt.dir] = n]]
           new == [s EXCEPT !.flow = [s.flow EXCEPT !.last_ack[pkt.dir] = pkt.ack,
                                                    !.dup_ack_count[pkt.dir] = 0]]
<1>1. pkt.dir \in Direction
    BY DEF Received, PacketMeta
<1>2. BareAck(pkt) <=> "ACK" \in pkt.flags /\ pkt.payload_len = 0 /\ "FIN" \notin pkt.flags
    BY DEF BareAck
<1>3. CASE ~ BareAck(pkt)
  <2>1. t = s
      BY <1>2, <1>3 DEF DupAckStep
  <2> QED BY <2>1 DEF AckEffect, SameWindows
<1>4. CASE BareAck(pkt) /\ s.flow.last_ack[pkt.dir] = pkt.ack
  <2>1. t = dup
      BY <1>1, <1>2, <1>4 DEF DupAckStep, Work, FlowState
  <2>2. /\ dup.d.is_dup_ack = TRUE /\ dup.d.dup_ack_count = n
        /\ dup.flow.dup_ack_count = [s.flow.dup_ack_count EXCEPT ![pkt.dir] = n]
        /\ SameWindows(s, dup)
      BY DEF Work, FlowState, PacketDelta, SameWindows
  <2> HIDE DEF t, dup
  <2>3. AckEffect(s, dup, pkt)
      BY <2>2 DEF AckEffect
  <2> QED BY <2>1, <2>2, <2>3 DEF t
<1>5. CASE BareAck(pkt) /\ s.flow.last_ack[pkt.dir] # pkt.ack
  <2>1. t = new
      BY <1>1, <1>2, <1>5 DEF DupAckStep, Work, FlowState
  <2>2. /\ new.d.is_dup_ack = FALSE
        /\ new.flow.dup_ack_count = [s.flow.dup_ack_count EXCEPT ![pkt.dir] = 0]
        /\ SameWindows(s, new)
      BY DEF Work, FlowState, PacketDelta, SameWindows
  <2>3. s.flow.dup_ack_count \in [Direction -> Nat]
      BY DEF Work, FlowState
  <2> HIDE DEF t, new
  <2>4. AckEffect(s, new, pkt)
      BY <1>1, <1>5, <2>2, <2>3 DEF AckEffect
  <2> QED BY <2>1, <2>2, <2>4 DEF t
<1> QED BY <1>3, <1>4, <1>5

\* The branch for established, data, ACK and FIN segments.
LEMMA DataStepEffects ==
    ASSUME NEW s \in Work, NEW pkt \in Received, Fresh(s),
           "SYN" \notin pkt.flags, "RST" \notin pkt.flags
    PROVE  WindowEffect(s, DataStep(s, pkt), pkt) /\ AckEffect(s, DataStep(s, pkt), pkt)
<1> DEFINE a == EstablishStep(s, pkt)
           b == FinStep(a, pkt)
           c == ZeroWindowStep(b, pkt)
           d == SegmentStep(c, pkt)
           e == DupAckStep(d, pkt)
<1>1. a \in Work /\ Indifferent(s, a)
    BY EstablishStepType, EstablishFinIndifferent
<1> HIDE DEF a
<1>2. b \in Work /\ Indifferent(a, b)
    BY <1>1, FinStepType, EstablishFinIndifferent
<1> HIDE DEF b
<1>3. Indifferent(s, b)
    BY <1>1, <1>2 DEF Indifferent, SameWindows, SameAcks
<1>4. c \in Work /\ WindowEffect(b, c, pkt) /\ SameAcks(b, c)
    BY <1>2, <1>3, ZeroWindowStepType, ZeroWindowEffect
       DEF Fresh, Indifferent, SameWindows
<1> HIDE DEF c
<1>5. d \in Work /\ Indifferent(c, d)
    BY <1>4, SegmentStepType, SegmentIndifferent
<1> HIDE DEF d
<1>6. d.d.is_dup_ack = FALSE
    BY <1>3, <1>4, <1>5 DEF Fresh, Indifferent, SameAcks
<1>7. AckEffect(d, e, pkt) /\ SameWindows(d, e)
    BY <1>5, <1>6, DupAckEffect
<1>8. DataStep(s, pkt) = e
    BY DEF DataStep, a, b, c, d
<1> HIDE DEF e
<1>9. WindowEffect(s, e, pkt)
    BY <1>3, <1>4, <1>5, <1>7 DEF WindowEffect, Indifferent, SameWindows
<1>10. AckEffect(s, e, pkt)
    BY <1>3, <1>4, <1>5, <1>7 DEF AckEffect, Indifferent, SameAcks
<1> QED BY <1>8, <1>9, <1>10

-----------------------------------------------------------------------------
(* What update does to the handshake.                                        *)

\* Only a SYN opens a handshake, once in the life of a flow, and a SYN-ACK
\* ends the wait for it.
HandshakeEffect(s, t, pkt) ==
    /\ t.flow.service = s.flow.service
    /\ IsSynOnly(pkt.flags) =>
         /\ t.flow.syn_time_ns # None
         /\ s.flow.syn_time_ns # None => t.flow.state = s.flow.state
    /\ ~ IsSynOnly(pkt.flags) =>
         /\ t.flow.syn_time_ns = s.flow.syn_time_ns
         /\ t.flow.state = "SynSent" => s.flow.state = "SynSent"
    /\ IsSynAck(pkt.flags) => t.flow.state = "SynAckSeen"

\* The SYN branch.
LEMMA SynHandshake ==
    ASSUME NEW s \in Work, NEW pkt \in Received, NEW now \in Nat, IsSynOnly(pkt.flags)
    PROVE  HandshakeEffect(s, SynStep(s, pkt, now), pkt)
<1> DEFINE t == OpenHandshake(s, now)
<1>1. t \in Work
    BY OpenHandshakeType
<1>2. /\ t.flow.service = s.flow.service
      /\ t.flow.syn_time_ns # None
      /\ s.flow.syn_time_ns # None => t.flow.state = s.flow.state
  <2>1. CASE s.flow.syn_time_ns # None
      BY <2>1 DEF OpenHandshake
  <2>2. CASE s.flow.syn_time_ns = None
    <3>1. t.flow.syn_time_ns = now /\ t.flow.service = s.flow.service
        BY <2>2 DEF OpenHandshake, Work, FlowState
    <3> QED BY <2>2, <3>1 DEF None
  <2> QED BY <2>1, <2>2
<1>3. SynStep(s, pkt, now) = ExpectAfterSyn(t, pkt)
    BY DEF SynStep
<1>4. Neutral(t, ExpectAfterSyn(t, pkt))
    BY <1>1, NeutralSteps
<1> HIDE DEF t
<1> QED BY <1>2, <1>3, <1>4 DEF Neutral, HandshakeEffect, IsSynOnly, IsSynAck

\* The SYN-ACK branch.
LEMMA SynAckHandshake ==
    ASSUME NEW s \in Work, NEW pkt \in Received, NEW now \in Nat, IsSynAck(pkt.flags)
    PROVE  HandshakeEffect(s, SynAckStep(s, pkt, now), pkt)
<1> DEFINE t == SynAckStep(s, pkt, now)
<1>1. /\ t.flow.state = "SynAckSeen"
      /\ t.flow.service = s.flow.service
      /\ t.flow.syn_time_ns = s.flow.syn_time_ns
    BY DEF SynAckStep, ExpectAfterSyn, Work, FlowState
<1> HIDE DEF t
<1> QED BY <1>1 DEF HandshakeEffect, IsSynOnly, IsSynAck, t

\* A segment that is no SYN leaves the time of the SYN alone and never goes back
\* to waiting.
Onward(s, t) ==
    /\ t.flow.service = s.flow.service
    /\ t.flow.syn_time_ns = s.flow.syn_time_ns
    /\ t.flow.state = "SynSent" => s.flow.state = "SynSent"

\* clear_half_open leaves state, service and SYN time alone.
LEMMA ClearHalfOpenOnward ==
    ASSUME NEW s \in Work PROVE Onward(s, ClearHalfOpen(s))
BY DEF Onward, ClearHalfOpen, Work, FlowState

\* The RST, establishment and FIN steps.
LEMMA ClosingOnward ==
    ASSUME NEW s \in Work, NEW pkt \in Received, NEW now \in Nat
    PROVE  /\ Onward(s, RstStep(s, now))
           /\ Onward(s, EstablishStep(s, pkt))
           /\ Onward(s, FinStep(s, pkt))
<1> DEFINE refused == s.flow.state \in {"SynSent", "SynAckSeen"}
           fl  == [s.flow EXCEPT !.state = "Reset"]
           dl  == [s.d EXCEPT !.rst = TRUE, !.handshake_refused = refused]
           rst == [s EXCEPT !.flow = fl, !.d = dl,
                            !.rst_rate = Record(s.rst_rate, RateWindow, now)]
           est == [s EXCEPT !.flow = [s.flow EXCEPT !.state = "Established",
                                                    !.established = TRUE]]
           fin == [s EXCEPT !.flow = [s.flow EXCEPT !.state = "Closing"]]
<1>1. RstStep(s, now) = ClearHalfOpen(rst)
    BY DEF RstStep, Work
<1>2. EstablishStep(s, pkt) \in {s, ClearHalfOpen(est)}
    BY DEF EstablishStep, Work
<1>3. FinStep(s, pkt) \in {s, ClearHalfOpen(fin)}
    BY DEF FinStep, Work
<1>4. rst \in Work
  <2>1. refused \in BOOLEAN
      OBVIOUS
  <2> HIDE DEF refused
  <2>2. fl \in FlowState /\ dl \in PacketDelta
      BY <2>1 DEF Work, FlowState, TcpState, PacketDelta
  <2> HIDE DEF fl, dl
  <2> QED BY <2>2, RecordType DEF Work
<1>5. est \in Work /\ fin \in Work
    BY DEF Work, FlowState, TcpState
<1>6. Onward(s, s) /\ Onward(s, rst) /\ Onward(s, est) /\ Onward(s, fin)
    BY DEF Onward, Work, FlowState
<1> HIDE DEF rst, est, fin
<1>7. ASSUME NEW t \in Work, Onward(s, t) PROVE Onward(s, ClearHalfOpen(t))
    BY <1>7, ClearHalfOpenOnward DEF Onward
<1> QED BY <1>1, <1>2, <1>3, <1>4, <1>5, <1>6, <1>7

\* The branch for established, data, ACK and FIN segments.
LEMMA DataStepOnward ==
    ASSUME NEW s \in Work, NEW pkt \in Received
    PROVE  Onward(s, DataStep(s, pkt))
<1> DEFINE a == EstablishStep(s, pkt)
           b == FinStep(a, pkt)
           c == ZeroWindowStep(b, pkt)
           d == SegmentStep(c, pkt)
           e == DupAckStep(d, pkt)
<1>0. 0 \in Nat
    OBVIOUS
<1>1. a \in Work /\ Onward(s, a)
    BY <1>0, EstablishStepType, ClosingOnward
<1> HIDE DEF a
<1>2. b \in Work /\ Onward(a, b)
    BY <1>0, <1>1, FinStepType, ClosingOnward
<1> HIDE DEF b
<1>3. c \in Work /\ Neutral(b, c)
    BY <1>2, ZeroWindowStepType, NeutralSteps
<1> HIDE DEF c
<1>4. d \in Work /\ Neutral(c, d)
    BY <1>3, SegmentStepType, NeutralSteps
<1> HIDE DEF d
<1>5. Neutral(d, e)
    BY <1>4, NeutralSteps
<1>6. DataStep(s, pkt) = e
    BY DEF DataStep, a, b, c, d
<1> HIDE DEF e
<1> QED BY <1>1, <1>2, <1>3, <1>4, <1>5, <1>6 DEF Onward, Neutral

(* The whole of update on a TCP segment: what it means for the handshake, the *)
(* windows and the ACK counts of the flow.                                   *)
LEMMA UpdateEffects ==
    ASSUME NEW s \in Work, NEW pkt \in Received, NEW now \in Nat, Fresh(s),
           pkt.proto = "Tcp"
    PROVE  LET t == Update(s, pkt, now)
           IN  /\ HandshakeEffect(s, t, pkt)
               /\ WindowEffect(s, t, pkt)
               /\ AckEffect(s, t, pkt)
<1> DEFINE r == [s EXCEPT !.flow.last_seen_ns = now]
           t == TcpStep(r, pkt, now)
<1>1. r \in Work
    BY DEF Work, FlowState
<1>2. Onward(s, r) /\ Indifferent(s, r) /\ r.flow.state = s.flow.state
    BY DEF Onward, Indifferent, SameWindows, SameAcks, Work, FlowState
<1>3. Update(s, pkt, now) = t
    BY DEF Update
<1> HIDE DEF r
<1>4. Fresh(r)
    BY <1>2 DEF Fresh, Indifferent, SameWindows, SameAcks
<1>5. HandshakeEffect(r, t, pkt) /\ WindowEffect(r, t, pkt) /\ AckEffect(r, t, pkt)
  <2>1. CASE IsSynOnly(pkt.flags)
    <3>1. t = SynStep(r, pkt, now)
        BY <2>1 DEF TcpStep, IsSynOnly, IsSynAck
    <3> QED BY <1>1, <1>4, <2>1, <3>1, SynHandshake, SynIndifferent, IndifferentEffects
  <2>2. CASE IsSynAck(pkt.flags)
    <3>1. t = SynAckStep(r, pkt, now)
        BY <2>2 DEF TcpStep, IsSynOnly, IsSynAck
    <3> QED BY <1>1, <1>4, <2>2, <3>1, SynAckHandshake, SynIndifferent, IndifferentEffects
  <2>3. CASE "SYN" \notin pkt.flags /\ "RST" \in pkt.flags
    <3>1. t = RstStep(r, now)
        BY <2>3 DEF TcpStep, IsSynOnly, IsSynAck
    <3>2. Onward(r, t) /\ Indifferent(r, t)
        BY <1>1, <3>1, ClosingOnward, RstIndifferent
    <3>3. HandshakeEffect(r, t, pkt)
        BY <2>3, <3>2 DEF Onward, HandshakeEffect, IsSynOnly, IsSynAck
    <3> QED BY <1>1, <1>4, <3>2, <3>3, IndifferentEffects
  <2>4. CASE "SYN" \notin pkt.flags /\ "RST" \notin pkt.flags
    <3>1. t = DataStep(r, pkt)
        BY <2>4 DEF TcpStep, IsSynOnly, IsSynAck
    <3>2. Onward(r, t)
        BY <1>1, <3>1, DataStepOnward
    <3>3. HandshakeEffect(r, t, pkt)
        BY <2>4, <3>2 DEF Onward, HandshakeEffect, IsSynOnly, IsSynAck
    <3>4. WindowEffect(r, t, pkt) /\ AckEffect(r, t, pkt)
        BY <1>1, <1>4, <2>4, <3>1, DataStepEffects
    <3> QED BY <3>3, <3>4
  <2> QED BY <2>1, <2>2, <2>3, <2>4 DEF IsSynOnly, IsSynAck
<1> HIDE DEF t
<1>6. HandshakeEffect(s, t, pkt)
    BY <1>2, <1>5 DEF HandshakeEffect, Onward
<1>7. WindowEffect(s, t, pkt) /\ AckEffect(s, t, pkt)
    BY <1>2, <1>5 DEF WindowEffect, AckEffect, Indifferent, SameWindows, SameAcks
<1> QED BY <1>3, <1>6, <1>7

-----------------------------------------------------------------------------
(* One packet against the history of its flow.                               *)

\* FaithfulFlow before the packet; the history of a flow that a SYN has just
\* created does not know its SYN yet.
FaithfulEntry(f, h, pkt) ==
    /\ f.syn_time_ns # None <=> h.syn_seq # None
    /\ h.answered => f.syn_time_ns # None /\ f.state # "SynSent"
    /\ h.syn_first =>
         \/ h.syn_seq # None /\ f.service = h.syn_dst
         \/ h.syn_seq = None /\ f.service = Destination(pkt) /\ IsSynOnly(pkt.flags)
    /\ h.stalled \subseteq {i \in Direction : f.zero_window[i]}
    /\ h.burst \subseteq {i \in Direction : f.dup_ack_count[i] >= DupAckThreshold}
    /\ h.repeated = {}

\* The events of one packet are faithful to what update found.
FaithfulEvents(events, t) ==
    /\ (\E ev \in events : ev.kind = "ZeroWindow") <=> t.d.zero_window_edge
    /\ (\E ev \in events : ev.kind = "DuplicateAck") <=> DupAckFires(t)

\* The history that a TCP segment extends stays faithful to the flow.
LEMMA FaithfulStep ==
    ASSUME NEW s \in Work, NEW t \in Work, NEW pkt \in Received, NEW now \in Nat,
           HandshakeEffect(s, t, pkt), WindowEffect(s, t, pkt), AckEffect(s, t, pkt),
           NEW h, FaithfulEntry(s.flow, h, pkt),
           NEW events, FaithfulEvents(events, t)
    PROVE  FaithfulFlow(t.flow, Extend(h, pkt, now, events, s.flow))
<1> DEFINE g    == Extend(h, pkt, now, events, s.flow)
           zero == \E ev \in events : ev.kind = "ZeroWindow"
           dup  == \E ev \in events : ev.kind = "DuplicateAck"
           same == BareAck(pkt) /\ s.flow.last_ack[pkt.dir] = pkt.ack
<1>1. pkt.dir \in Direction /\ pkt.seq \in Nat /\ pkt.seq # None
    BY DEF Received, PacketMeta, None
<1>2. zero <=> t.d.zero_window_edge
    BY DEF FaithfulEvents
<1>3. dup <=> t.d.is_dup_ack /\ t.d.dup_ack_count = DupAckThreshold
    BY DEF FaithfulEvents, DupAckFires
<1>4. /\ g.syn_first = h.syn_first
      /\ g.syn_dst = IF IsSynOnly(pkt.flags) /\ h.syn_seq = None
                     THEN Destination(pkt) ELSE h.syn_dst
      /\ g.syn_seq = IF IsSynOnly(pkt.flags) THEN pkt.seq ELSE h.syn_seq
      /\ g.answered <=> h.answered \/ (IsSynAck(pkt.flags) /\ h.syn_seq # None)
    BY DEF Extend
<1>5. g.stalled = IF zero THEN h.stalled \cup {pkt.dir}
                  ELSE IF pkt.window # 0 THEN h.stalled \ {pkt.dir} ELSE h.stalled
    BY DEF Extend
<1>6. g.burst = IF dup THEN h.burst \cup {pkt.dir}
                ELSE IF BareAck(pkt) /\ ~ same THEN h.burst \ {pkt.dir} ELSE h.burst
    BY DEF Extend, BareAck
<1>7. g.repeated = h.repeated
                     \cup (IF zero /\ pkt.dir \in h.stalled THEN {"ZeroWindow"} ELSE {})
                     \cup (IF dup /\ pkt.dir \in h.burst THEN {"DuplicateAck"} ELSE {})
    BY DEF Extend
<1> HIDE DEF g, zero, dup
<1>8. t.flow.syn_time_ns # None <=> g.syn_seq # None
    BY <1>1, <1>4 DEF HandshakeEffect, FaithfulEntry
<1>9. g.answered => t.flow.syn_time_ns # None /\ t.flow.state # "SynSent"
    BY <1>4 DEF HandshakeEffect, FaithfulEntry, IsSynOnly, IsSynAck
<1>10. g.syn_first => g.syn_seq # None /\ t.flow.service = g.syn_dst
    BY <1>1, <1>4 DEF HandshakeEffect, FaithfulEntry
<1>11. g.stalled \subseteq {i \in Direction : t.flow.zero_window[i]}
    BY <1>1, <1>2, <1>5 DEF WindowEffect, FaithfulEntry
<1>12. s.flow.dup_ack_count \in [Direction -> Nat] /\ t.flow.dup_ack_count \in [Direction -> Nat]
       /\ DupAckThreshold \in Nat
    BY ThresholdAssumption DEF Work, FlowState
<1>13. g.burst \subseteq {i \in Direction : t.flow.dup_ack_count[i] >= DupAckThreshold}
  <2> SUFFICES ASSUME NEW i \in g.burst
               PROVE  i \in Direction /\ t.flow.dup_ack_count[i] >= DupAckThreshold
      OBVIOUS
  <2>1. i \in h.burst \/ (dup /\ i = pkt.dir)
      BY <1>6
  <2>2. i \in Direction
      BY <1>1, <2>1 DEF FaithfulEntry
  <2>3. CASE t.d.is_dup_ack
    <3>1. /\ t.d.dup_ack_count = s.flow.dup_ack_count[pkt.dir] + 1
          /\ t.flow.dup_ack_count =
               [s.flow.dup_ack_count EXCEPT ![pkt.dir] = s.flow.dup_ack_count[pkt.dir] + 1]
        BY <2>3 DEF AckEffect
    <3>2. i \in h.burst => s.flow.dup_ack_count[i] >= DupAckThreshold
        BY DEF FaithfulEntry
    <3>3. CASE i = pkt.dir
      <4>1. t.flow.dup_ack_count[i] = s.flow.dup_ack_count[i] + 1
          BY <1>1, <1>12, <3>1, <3>3
      <4> QED BY <1>3, <1>12, <2>1, <2>2, <3>1, <3>2, <3>3, <4>1
    <3>4. CASE i # pkt.dir
        BY <1>12, <2>1, <2>2, <3>1, <3>2, <3>4
    <3> QED BY <3>3, <3>4
  <2>4. CASE ~ t.d.is_dup_ack
    <3>1. ~ dup
        BY <1>3, <2>4
    <3>2. i \in h.burst /\ s.flow.dup_ack_count[i] >= DupAckThreshold
        BY <2>1, <3>1 DEF FaithfulEntry
    <3>3. ~ (i = pkt.dir /\ BareAck(pkt) /\ s.flow.last_ack[pkt.dir] # pkt.ack)
        BY <1>6, <3>1
    <3> QED BY <2>2, <2>4, <3>2, <3>3 DEF AckEffect
  <2> QED BY <2>2, <2>3, <2>4
<1>14. g.repeated = {}
  <2>1. ~ (zero /\ pkt.dir \in h.stalled)
      BY <1>1, <1>2 DEF WindowEffect, FaithfulEntry
  <2>2. ~ (dup /\ pkt.dir \in h.burst)
    <3> SUFFICES ASSUME dup, pkt.dir \in h.burst PROVE FALSE
        OBVIOUS
    <3>1. s.flow.dup_ack_count[pkt.dir] >= DupAckThreshold
        BY DEF FaithfulEntry
    <3>2. DupAckThreshold = s.flow.dup_ack_count[pkt.dir] + 1
        BY <1>3 DEF AckEffect
    <3>3. s.flow.dup_ack_count[pkt.dir] \in Nat
        BY <1>1, <1>12
    <3> QED BY <1>12, <3>1, <3>2, <3>3
  <2> QED BY <1>7, <2>1, <2>2 DEF FaithfulEntry
<1>15. FaithfulFlow(t.flow, g)
    BY <1>8, <1>9, <1>10, <1>11, <1>13, <1>14 DEF FaithfulFlow
<1> QED BY <1>15 DEF g

-----------------------------------------------------------------------------
(* The engine with its history.                                              *)

\* The history before the packet, as HProcess takes it.
OldHistory(pkt) ==
    IF IsNewFlow(pkt)
    THEN [NoHistory EXCEPT !.syn_first = pkt.proto = "Tcp" /\ IsSynOnly(pkt.flags)]
    ELSE hist[pkt.key]

\* A flow and its history as the packet finds them.
LEMMA EntryFaithful ==
    ASSUME HistoryInv, NEW pkt \in Packets, NEW now \in Nat
    PROVE  /\ FaithfulEntry(Entry(pkt, now).flow, OldHistory(pkt), pkt)
           /\ pkt.proto # "Tcp" => FaithfulFlow(Entry(pkt, now).flow, OldHistory(pkt))
           /\ Fresh(Entry(pkt, now))
<1> DEFINE f == Entry(pkt, now).flow
           h == OldHistory(pkt)
<1>1. Fresh(Entry(pkt, now))
    BY DEF Entry, NoDelta, Fresh
<1>2. CASE IsNewFlow(pkt)
  <2> DEFINE first == pkt.proto = "Tcp" /\ IsSynOnly(pkt.flags)
  <2>1. f = NewFlow(GuessService(pkt), now)
      BY <1>2 DEF Entry
  <2>2. /\ f.syn_time_ns = None /\ f.service = GuessService(pkt)
      BY <2>1 DEF NewFlow
  <2>3. h = [NoHistory EXCEPT !.syn_first = first]
      BY <1>2 DEF OldHistory
  <2>4. /\ h.syn_first = first /\ h.syn_seq = None /\ h.answered = FALSE
        /\ h.stalled = {} /\ h.burst = {} /\ h.repeated = {}
      BY <2>3 DEF NoHistory
  <2>5. first => GuessService(pkt) = Destination(pkt)
      BY DEF GuessService
  <2> HIDE DEF f, h
  <2> QED BY <1>1, <2>2, <2>4, <2>5 DEF FaithfulEntry, FaithfulFlow, f, h
<1>3. CASE ~ IsNewFlow(pkt)
  <2>1. pkt.key \in DOMAIN flows /\ f = flows[pkt.key] /\ h = hist[pkt.key]
      BY <1>3 DEF IsNewFlow, Entry, OldHistory
  <2>2. FaithfulFlow(f, h)
      BY <2>1 DEF HistoryInv
  <2>3. FaithfulEntry(f, h, pkt)
    <3> HIDE DEF f, h
    <3> QED BY <2>2 DEF FaithfulFlow, FaithfulEntry
  <2> QED BY <1>1, <2>2, <2>3
<1> QED BY <1>2, <1>3

\* The flow-wide kinds that the chain reports, and the host-wide ones.
LEMMA InspectKinds ==
    ASSUME NEW s, NEW key, NEW fired \in SUBSET HostWide
    PROVE  /\ FaithfulEvents(Inspect(s, key, fired), s)
           /\ \A kind \in HostWide :
                (\E ev \in Inspect(s, key, fired) : ev.kind = kind) <=> kind \in fired
           /\ \A ev \in Inspect(s, key, fired) : ev.key = key
<1> DEFINE fires == FlowFires(s)
<1>1. ASSUME NEW kind
      PROVE  (\E ev \in Inspect(s, key, fired) : ev.kind = kind) <=> kind \in fires \cup fired
  <2> DEFINE ev(x) == Event(x, SeverityOf(x, s), key)
  <2>1. \A x : ev(x).kind = x
      BY DEF Event
  <2>2. Inspect(s, key, fired) = {ev(x) : x \in fires \cup fired}
      BY DEF Inspect
  <2> HIDE DEF ev, fires
  <2> QED BY <2>1, <2>2
<1>2. /\ "ZeroWindow" \in fires <=> s.d.zero_window_edge
      /\ "DuplicateAck" \in fires <=> DupAckFires(s)
      /\ fires \cap HostWide = {}
    BY DEF FlowFires, HostWide
<1>3. "ZeroWindow" \notin HostWide /\ "DuplicateAck" \notin HostWide
    BY DEF HostWide
<1>4. \A ev \in Inspect(s, key, fired) : ev.key = key
    BY DEF Inspect, Event
<1> HIDE DEF fires
<1>5. FaithfulEvents(Inspect(s, key, fired), s)
    BY <1>1, <1>2, <1>3 DEF FaithfulEvents
<1> QED BY <1>1, <1>2, <1>4, <1>5

\* A sweep reports time-outs only, of flows that wait for their SYN-ACK.
LEMMA SweepKinds ==
    ASSUME NEW table, NEW now, NEW ev \in SweepEvents(table, now)
    PROVE  /\ ev.kind = "HandshakeTimeout"
           /\ ev.key \in DOMAIN table
           /\ table[ev.key].state = "SynSent"
BY DEF SweepEvents, Event, TimedOut

\* Sweeping a table leaves every flow that stays faithful to its history.
LEMMA SweepFaithful ==
    ASSUME NEW table, GoodTable(table), NEW now, NEW h,
           \A k \in DOMAIN table : FaithfulFlow(table[k], h[k])
    PROVE  \A k \in DOMAIN SweptFlows(table, now) :
             k \in DOMAIN table /\ FaithfulFlow(SweptFlows(table, now)[k], h[k])
<1> SUFFICES ASSUME NEW k \in DOMAIN SweptFlows(table, now)
             PROVE  k \in DOMAIN table /\ FaithfulFlow(SweptFlows(table, now)[k], h[k])
    OBVIOUS
<1> DEFINE f == table[k]
           g == SweptFlows(table, now)[k]
<1>1. k \in DOMAIN table /\ f \in FlowState /\ FaithfulFlow(f, h[k])
    BY DEF SweptFlows, GoodTable
<1>2. g \in {f, [f EXCEPT !.handshake_timeout_flagged = TRUE, !.half_open_counted = FALSE]}
    BY DEF SweptFlows
<1>3. /\ g.state = f.state /\ g.syn_time_ns = f.syn_time_ns /\ g.service = f.service
      /\ g.zero_window = f.zero_window /\ g.dup_ack_count = f.dup_ack_count
    BY <1>1, <1>2 DEF FlowState
<1> HIDE DEF f, g
<1>4. FaithfulFlow(g, h[k])
    BY <1>1, <1>3 DEF FaithfulFlow
<1> QED BY <1>1, <1>4 DEF g

\* The history after the packet, and the histories of the whole table before
\* any sweep, as HProcess computes them.
NewHistory(pkt, now) ==
    IF pkt.proto = "Tcp"
    THEN Extend(OldHistory(pkt), pkt, now, {ev \in out' : ev.key = pkt.key},
                Entry(pkt, now).flow)
    ELSE OldHistory(pkt)

TableHistory(pkt, now) ==
    [k \in DOMAIN Table(pkt, now) |-> IF k = pkt.key THEN NewHistory(pkt, now) ELSE hist[k]]

\* Processing a packet keeps every flow of the table faithful to its history.
LEMMA TableFaithful ==
    ASSUME EngineInv, HistoryInv, NEW pkt \in Packets, NEW now \in Times,
           HProcess(pkt, now)
    PROVE  /\ \A k \in DOMAIN Table(pkt, now) :
                FaithfulFlow(Table(pkt, now)[k], TableHistory(pkt, now)[k])
           /\ \A k \in DOMAIN flows : hist[k].answered => TableHistory(pkt, now)[k].answered
           /\ DOMAIN flows' \subseteq DOMAIN Table(pkt, now)
           /\ hist' = [k \in DOMAIN flows' |-> TableHistory(pkt, now)[k]]
<1> DEFINE table == Table(pkt, now)
           s     == Applied(pkt, now)
           e     == Entry(pkt, now)
           h     == OldHistory(pkt)
           new   == NewHistory(pkt, now)
           fired == HostWideFires(debounce, s, NewFlowRate(pkt, now), now)
           evs   == {ev \in out' : ev.key = pkt.key}
<1>1. now \in Nat /\ TypeOK /\ HandshakeAccounting /\ Exact(flows, half_open)
    BY EngineAssumption, GoodTableParts DEF EngineInv
<1>2. pkt \in Received
    BY ReceivedPackets
<1>3. e \in Work /\ s \in Work /\ s = Update(e, pkt, now)
    BY <1>1, EntryFacts, AppliedFacts DEF Applied
<1>4. /\ FaithfulEntry(e.flow, h, pkt) /\ Fresh(e)
      /\ pkt.proto # "Tcp" => FaithfulFlow(e.flow, h)
    BY <1>1, EntryFaithful
<1>5. /\ DOMAIN table = DOMAIN flows \cup {pkt.key}
      /\ table[pkt.key] = s.flow
      /\ \A k \in DOMAIN flows : k # pkt.key => table[k] = flows[k]
    BY DEF Table
<1>6. /\ TableHistory(pkt, now)[pkt.key] = new
      /\ \A k \in DOMAIN flows : k # pkt.key => TableHistory(pkt, now)[k] = hist[k]
    BY <1>5 DEF TableHistory
<1>7. /\ flows' = IF SweepDue(now) THEN SweptFlows(table, now) ELSE table
      /\ out' = Inspect(s, pkt.key, fired)
                  \cup (IF SweepDue(now) THEN SweepEvents(table, now) ELSE {})
    BY DEF HProcess, Process
<1>8. fired \subseteq HostWide
    BY DEF HostWideFires
<1>9. DOMAIN flows' \subseteq DOMAIN table
    BY <1>7 DEF SweptFlows
<1>10. hist' = [k \in DOMAIN flows' |-> TableHistory(pkt, now)[k]]
  <2>1. hist' = [k \in DOMAIN flows' |-> IF k = pkt.key THEN new ELSE hist[k]]
      BY DEF HProcess, NewHistory, OldHistory
  <2> HIDE DEF new, table
  <2> QED BY <1>5, <1>6, <1>9, <2>1
<1>11. new = IF pkt.proto = "Tcp" THEN Extend(h, pkt, now, evs, e.flow) ELSE h
    BY DEF NewHistory
<1> HIDE DEF table, s, e, h, new, fired
<1>12. FaithfulEvents(evs, s)
  <2>1. /\ FaithfulEvents(Inspect(s, pkt.key, fired), s)
        /\ \A ev \in Inspect(s, pkt.key, fired) : ev.key = pkt.key
      BY <1>8, InspectKinds
  <2>2. \A ev \in SweepEvents(table, now) : ev.kind = "HandshakeTimeout"
      BY SweepKinds
  <2> QED BY <1>7, <2>1, <2>2 DEF FaithfulEvents
<1> HIDE DEF evs
<1>13. FaithfulFlow(s.flow, new)
  <2>1. CASE pkt.proto = "Tcp"
    <3>1. HandshakeEffect(e, s, pkt) /\ WindowEffect(e, s, pkt) /\ AckEffect(e, s, pkt)
        BY <1>1, <1>2, <1>3, <1>4, <2>1, UpdateEffects
    <3>2. FaithfulFlow(s.flow, Extend(h, pkt, now, evs, e.flow))
        BY <1>1, <1>2, <1>3, <1>4, <1>12, <3>1, FaithfulStep
    <3> QED BY <1>11, <2>1, <3>2
  <2>2. CASE pkt.proto # "Tcp"
    <3>1. s = [e EXCEPT !.flow.last_seen_ns = now]
        BY <1>3, <2>2 DEF Update
    <3>2. /\ s.flow.state = e.flow.state /\ s.flow.syn_time_ns = e.flow.syn_time_ns
          /\ s.flow.service = e.flow.service /\ s.flow.zero_window = e.flow.zero_window
          /\ s.flow.dup_ack_count = e.flow.dup_ack_count
        BY <1>3, <3>1 DEF Work, FlowState
    <3> QED BY <1>4, <1>11, <2>2, <3>2 DEF FaithfulFlow
  <2> QED BY <2>1, <2>2
<1>14. \A k \in DOMAIN table : FaithfulFlow(table[k], TableHistory(pkt, now)[k])
    BY <1>5, <1>6, <1>13 DEF HistoryInv
<1>15. ASSUME NEW k \in DOMAIN flows, hist[k].answered
       PROVE  TableHistory(pkt, now)[k].answered
  <2>1. CASE k # pkt.key
      BY <1>6, <1>15, <2>1
  <2>2. CASE k = pkt.key
    <3>1. h = hist[k]
        BY <2>2 DEF h, OldHistory, IsNewFlow
    <3>2. Extend(h, pkt, now, evs, e.flow).answered
        BY <1>15, <3>1 DEF Extend
    <3> QED BY <1>6, <1>11, <1>15, <2>2, <3>1, <3>2
  <2> QED BY <2>1, <2>2
<1> QED BY <1>9, <1>10, <1>14, <1>15 DEF table

\* The host-wide kinds that a packet reports are those that its Debounce allowed.
LEMMA AlertFacts ==
    ASSUME NEW pkt \in Packets, NEW now \in Times, HProcess(pkt, now)
    PROVE  /\ \A kind \in HostWide :
                (\E ev \in out' : ev.kind = kind) => Ready(debounce[kind], now)
           /\ debounce' = [kind \in HostWide |->
                             IF \E ev \in out' : ev.kind = kind THEN now ELSE debounce[kind]]
           /\ alerts' = [kind \in HostWide |->
                           IF \E ev \in out' : ev.kind = kind THEN now ELSE alerts[kind]]
<1> DEFINE table == Table(pkt, now)
           s     == Applied(pkt, now)
           fired == HostWideFires(debounce, s, NewFlowRate(pkt, now), now)
<1>1. /\ out' = Inspect(s, pkt.key, fired)
                  \cup (IF SweepDue(now) THEN SweepEvents(table, now) ELSE {})
      /\ debounce' = DebounceAfter(debounce, fired, now)
    BY DEF HProcess, Process
<1>2. fired \subseteq HostWide /\ \A kind \in fired : Ready(debounce[kind], now)
    BY DEF HostWideFires
<1>3. "HandshakeTimeout" \notin HostWide
    BY DEF HostWide
<1>4. alerts' = [kind \in HostWide |->
                   IF \E ev \in out' : ev.kind = kind THEN now ELSE alerts[kind]]
    BY DEF HProcess
<1> HIDE DEF table, s, fired
<1>5. ASSUME NEW kind \in HostWide
      PROVE  (\E ev \in out' : ev.kind = kind) <=> kind \in fired
    BY <1>1, <1>2, <1>3, InspectKinds, SweepKinds
<1> QED BY <1>1, <1>2, <1>4, <1>5 DEF DebounceAfter

-----------------------------------------------------------------------------
(* The inductive invariant of the history.                                   *)

\* Initially there are no flows and no alerts.
LEMMA HInitInv == HInit => HistoryInv
<1> SUFFICES ASSUME HInit PROVE HistoryInv
    OBVIOUS
<1>1. DOMAIN flows = {} /\ DOMAIN hist = {}
    BY DEF HInit, Init, NoFlows
<1>2. debounce = [kind \in HostWide |-> 0] /\ alerts = [kind \in HostWide |-> None]
    BY DEF HInit, Init
<1> QED BY <1>1, <1>2 DEF HistoryInv

\* Processing a packet keeps the history faithful.
LEMMA HProcessInv ==
    ASSUME EngineInv, HistoryInv, NEW pkt \in Packets, NEW now \in Times,
           HProcess(pkt, now)
    PROVE  HistoryInv'
<1> DEFINE table == Table(pkt, now)
           th    == TableHistory(pkt, now)
<1>1. /\ \A k \in DOMAIN table : FaithfulFlow(table[k], th[k])
      /\ DOMAIN flows' \subseteq DOMAIN table
      /\ hist' = [k \in DOMAIN flows' |-> th[k]]
    BY TableFaithful
<1>2. flows' = IF SweepDue(now) THEN SweptFlows(table, now) ELSE table
    BY DEF HProcess, Process
<1>3. GoodTable(table)
    BY TableFacts, GoodTableParts, EngineAssumption DEF EngineInv
<1> HIDE DEF table, th
<1>4. \A k \in DOMAIN flows' : FaithfulFlow(flows'[k], th[k])
    BY <1>1, <1>2, <1>3, SweepFaithful
<1>5. DOMAIN hist' = DOMAIN flows' /\ \A k \in DOMAIN flows' : hist'[k] = th[k]
    BY <1>1
<1>6. /\ debounce' = [kind \in HostWide |->
                        IF \E ev \in out' : ev.kind = kind THEN now ELSE debounce[kind]]
      /\ alerts' = [kind \in HostWide |->
                      IF \E ev \in out' : ev.kind = kind THEN now ELSE alerts[kind]]
    BY AlertFacts
<1>7. now # None
    BY EngineAssumption DEF None
<1>8. alerts' \in [HostWide -> Times \cup {None}]
    BY <1>6 DEF HistoryInv
<1>9. \A kind \in HostWide : debounce'[kind] = IF alerts'[kind] = None THEN 0 ELSE alerts'[kind]
    BY <1>6, <1>7 DEF HistoryInv
<1> QED BY <1>4, <1>5, <1>8, <1>9 DEF HistoryInv

\* So does a sweep.
LEMMA HSweepInv ==
    ASSUME EngineInv, HistoryInv, NEW now \in Times, HSweep(now)
    PROVE  HistoryInv'
<1>1. GoodTable(flows)
    BY GoodTableParts
<1>2. /\ flows' = SweptFlows(flows, now) /\ hist' = [k \in DOMAIN flows' |-> hist[k]]
      /\ UNCHANGED <<debounce, alerts>>
    BY DEF HSweep, Sweep
<1>3. \A k \in DOMAIN flows' : k \in DOMAIN flows /\ FaithfulFlow(flows'[k], hist[k])
    BY <1>1, <1>2, SweepFaithful DEF HistoryInv
<1>4. DOMAIN hist' = DOMAIN flows' /\ \A k \in DOMAIN flows' : hist'[k] = hist[k]
    BY <1>2
<1> QED BY <1>2, <1>3, <1>4 DEF HistoryInv

\* The history variables do not restrict the engine.
LEMMA HistoryRefines == HSpec => Spec
<1>1. HInit => Init
    BY DEF HInit
<1>2. [HNext]_allVars => [Next]_vars
  <2>1. ASSUME NEW pkt \in Packets, NEW now \in Times, HProcess(pkt, now) PROVE Next
      BY <2>1 DEF HProcess, Next
  <2>2. ASSUME NEW now \in Times, HSweep(now) PROVE Next
      BY <2>2 DEF HSweep, Next
  <2> QED BY <2>1, <2>2 DEF HNext, allVars
<1> QED BY <1>1, <1>2, PTL DEF HSpec, Spec

(* The flow table remembers of the traffic what the reports need, in every   *)
(* reachable state.                                                          *)
THEOREM HistoryInvariant == HSpec => [](EngineInv /\ HistoryInv)
<1>1. EngineInv /\ HistoryInv /\ [HNext]_allVars => HistoryInv'
  <2> SUFFICES ASSUME EngineInv, HistoryInv, [HNext]_allVars PROVE HistoryInv'
      OBVIOUS
  <2>1. CASE \E pkt \in Packets, now \in Times : HProcess(pkt, now)
      BY <2>1, HProcessInv
  <2>2. CASE \E now \in Times : HSweep(now)
      BY <2>2, HSweepInv
  <2>3. CASE UNCHANGED allVars
      BY <2>3 DEF HistoryInv, allVars, vars, historyVars
  <2> QED BY <2>1, <2>2, <2>3 DEF HNext
<1>2. HSpec => []EngineInv
    BY HistoryRefines, Invariant, PTL
<1> QED BY <1>1, <1>2, HInitInv, PTL DEF HSpec

(* No zero-window stall and no burst of duplicate ACKs is reported twice,    *)
(* whatever the threshold and however the two directions interleave          *)
(* (flow.rs:219-226, 250-262).                                               *)
THEOREM CausesAreReportedOnce == HSpec => []ReportedOncePerCause
<1>1. HistoryInv => ReportedOncePerCause
    BY DEF HistoryInv, FaithfulFlow, ReportedOncePerCause
<1> QED BY <1>1, HistoryInvariant, PTL

(* A flow that was observed from its SYN on counts towards the destination   *)
(* of that SYN for as long as it lives (flow.rs:144-154).                    *)
THEOREM SynFirstBacklogIsRight == HSpec => []SynFirstServiceRight
<1>1. HistoryInv => SynFirstServiceRight
    BY DEF HistoryInv, FaithfulFlow, SynFirstServiceRight
<1> QED BY <1>1, HistoryInvariant, PTL

(* A HandshakeTimeout is never raised for a flow whose SYN was answered,     *)
(* even when the SYN-ACK is the packet that triggers the sweep, or the tuple *)
(* is reused by a later SYN (engine.rs:76, flow.rs:179-196).                 *)
THEOREM TimeoutsAreUnanswered == HSpec => TimeoutMeansNoSynAck
<1> DEFINE Unanswered ==
        \A k \in DOMAIN hist :
          Emitted("HandshakeTimeout", k) =>
              ~ hist[k].answered /\ (k \in DOMAIN hist' => ~ hist'[k].answered)
<1>1. EngineInv /\ HistoryInv /\ [HNext]_allVars => [Unanswered]_allVars
  <2> SUFFICES ASSUME EngineInv, HistoryInv, HNext, NEW k \in DOMAIN hist,
                      NEW ev \in out', ev.kind = "HandshakeTimeout", ev.key = k
               PROVE  ~ hist[k].answered /\ (k \in DOMAIN hist' => ~ hist'[k].answered)
      BY DEF Emitted
  <2>1. k \in DOMAIN flows
      BY DEF HistoryInv
  <2>2. ASSUME NEW now \in Times, HSweep(now)
        PROVE  ~ hist[k].answered /\ (k \in DOMAIN hist' => ~ hist'[k].answered)
    <3>1. out' = SweepEvents(flows, now) /\ hist' = [j \in DOMAIN flows' |-> hist[j]]
        BY <2>2 DEF HSweep, Sweep
    <3>2. flows[k].state = "SynSent"
        BY <3>1, SweepKinds
    <3> QED BY <2>1, <3>1, <3>2 DEF HistoryInv, FaithfulFlow
  <2>3. ASSUME NEW pkt \in Packets, NEW now \in Times, HProcess(pkt, now)
        PROVE  ~ hist[k].answered /\ (k \in DOMAIN hist' => ~ hist'[k].answered)
    <3> DEFINE table == Table(pkt, now)
               th    == TableHistory(pkt, now)
               s     == Applied(pkt, now)
               fired == HostWideFires(debounce, s, NewFlowRate(pkt, now), now)
    <3>1. /\ \A j \in DOMAIN table : FaithfulFlow(table[j], th[j])
          /\ \A j \in DOMAIN flows : hist[j].answered => th[j].answered
          /\ hist' = [j \in DOMAIN flows' |-> th[j]]
        BY <2>3, TableFaithful
    <3>2. out' = Inspect(s, pkt.key, fired)
                   \cup (IF SweepDue(now) THEN SweepEvents(table, now) ELSE {})
        BY <2>3 DEF HProcess, Process
    <3>3. pkt.key \in FlowKey /\ fired \subseteq HostWide
        BY ReceivedPackets DEF Received, PacketMeta, HostWideFires
    <3> HIDE DEF table, th, s, fired
    <3>4. ev \notin Inspect(s, pkt.key, fired)
        BY <3>3, InspectType
    <3>5. k \in DOMAIN table /\ table[k].state = "SynSent"
        BY <3>2, <3>4, SweepKinds
    <3>6. ~ th[k].answered
        BY <3>1, <3>5 DEF FaithfulFlow
    <3> QED BY <2>1, <3>1, <3>6
  <2> QED BY <2>2, <2>3 DEF HNext
<1> QED BY <1>1, HistoryInvariant, PTL DEF HSpec, TimeoutMeansNoSynAck

(* Two alerts of one host-wide kind are alert_debounce_secs apart, in the    *)
(* order in which they are raised and for timestamps in any order, provided  *)
(* the configured distance is not zero and no packet carries the timestamp 0 *)
(* that Debounce uses for "never" (detectors.rs:42-53).                      *)
THEOREM AlertsAreSpaced ==
    ASSUME AlertDebounceNs # 0, 0 \notin Times
    PROVE  HSpec => AlertsSpaced
<1> DEFINE Spaced ==
        \A kind \in HostWide :
          (\E ev \in out' : ev.kind = kind) /\ alerts[kind] # None =>
              alerts'[kind] >= alerts[kind] + AlertDebounceNs
<1>1. EngineInv /\ HistoryInv /\ [HNext]_allVars => [Spaced]_allVars
  <2> SUFFICES ASSUME EngineInv, HistoryInv, HNext, NEW kind \in HostWide,
                      NEW ev \in out', ev.kind = kind, alerts[kind] # None
               PROVE  alerts'[kind] >= alerts[kind] + AlertDebounceNs
      OBVIOUS
  <2>1. ASSUME NEW now \in Times, HSweep(now) PROVE FALSE
    <3>1. ev.kind = "HandshakeTimeout"
        BY <2>1, SweepKinds DEF HSweep, Sweep
    <3> QED BY <3>1 DEF HostWide
  <2>2. ASSUME NEW pkt \in Packets, NEW now \in Times, HProcess(pkt, now)
        PROVE  alerts'[kind] >= alerts[kind] + AlertDebounceNs
    <3>1. Ready(debounce[kind], now) /\ alerts'[kind] = now
        BY <2>2, AlertFacts
    <3>2. debounce[kind] = alerts[kind] /\ alerts[kind] \in Times
        BY DEF HistoryInv
    <3>3. now \in Nat /\ alerts[kind] \in Nat /\ alerts[kind] # 0 /\ AlertDebounceNs \in Nat
        BY <3>2, EngineAssumption, ThresholdAssumption
    <3>4. SatSub(now, alerts[kind]) >= AlertDebounceNs
        BY <3>1, <3>2, <3>3 DEF Ready
    <3> QED BY <3>1, <3>3, <3>4 DEF SatSub
  <2> QED BY <2>1, <2>2 DEF HNext
<1> QED BY <1>1, HistoryInvariant, PTL DEF HSpec, AlertsSpaced

=============================================================================

-------------------------- MODULE SeqTrackerProofs --------------------------
(* Proofs that next_seq and the verdicts of seq_diff follow the byte stream, *)
(* for every size of the sequence space, every initial number and every      *)
(* length.                                                                   *)
EXTENDS SeqTracker, TLAPS

-----------------------------------------------------------------------------
(* The step of EngineState::update that analyses a segment.                  *)

\* A packet as the engine receives it.
Received == {p \in PacketMeta : p.seq \in SeqNumber}

\* wrapping_add stays in the sequence space.
LEMMA WrappingAddType ==
    ASSUME NEW a \in Nat, NEW n \in Nat PROVE WrappingAdd(a, n) \in SeqNumber
BY SeqSpaceAssumption DEF WrappingAdd, SeqNumber

\* Sequence analysis (flow.rs:229-247) preserves types: next_seq stays in its space.
LEMMA SegmentStepType ==
    ASSUME NEW t \in Work, NEW pkt \in Received
    PROVE  SegmentStep(t, pkt) \in Work
<1> DEFINE exp == t.flow.next_seq[pkt.dir]
           end == WrappingAdd(pkt.seq, pkt.payload_len)
           old == exp # None /\ SeqDiff(pkt.seq, exp) < 0
           ooo == exp # None /\ SeqDiff(pkt.seq, exp) > 0
           nxt == IF exp = None \/ SeqDiff(end, exp) > 0 THEN end ELSE exp
           ret == IF old THEN t.flow.retransmits + 1 ELSE t.flow.retransmits
           dl  == [t.d EXCEPT !.is_retransmit = old, !.is_out_of_order = ooo]
           fl  == [t.flow EXCEPT !.data_segments = @ + 1, !.retransmits = ret,
                                 !.next_seq[pkt.dir] = nxt]
<1>1. old \in BOOLEAN /\ ooo \in BOOLEAN
    OBVIOUS
<1>2. pkt.dir \in Direction /\ pkt.seq \in Nat /\ pkt.payload_len \in Nat
    BY DEF Received, PacketMeta
<1>3. end \in SeqNumber
    BY <1>2, WrappingAddType
<1>4. nxt \in SeqNumber \cup {None}
    BY <1>2, <1>3 DEF Work, FlowState
<1>5. ret \in Nat
    BY DEF Work, FlowState
<1>6. SegmentStep(t, pkt) \in {t, [t EXCEPT !.d = dl, !.flow = fl]}
    BY ZenonT(30) DEF SegmentStep, Work, FlowState
<1> HIDE DEF old, ooo, nxt, ret
<1>7. dl \in PacketDelta
    BY <1>1 DEF Work, PacketDelta
<1>8. fl \in FlowState
  <2>1. [t.flow.next_seq EXCEPT ![pkt.dir] = nxt] \in [Direction -> SeqNumber \cup {None}]
      BY <1>2, <1>4 DEF Work, FlowState
  <2>2. t.flow.data_segments + 1 \in Nat
      BY DEF Work, FlowState
  <2>3. fl = [t.flow EXCEPT !.data_segments = t.flow.data_segments + 1,
                            !.retransmits = ret,
                            !.next_seq = [t.flow.next_seq EXCEPT ![pkt.dir] = nxt]]
      BY DEF Work, FlowState
  <2> QED BY <1>5, <2>1, <2>2, <2>3 DEF Work, FlowState
<1> HIDE DEF dl, fl
<1> QED BY <1>6, <1>7, <1>8 DEF Work

-----------------------------------------------------------------------------
(* Arithmetic modulo the sequence space.                                     *)

\* Multiples of the space are no closer than the space.
LEMMA MultiplesApart ==
    ASSUME NEW N \in Nat \ {0}, NEW p \in Int, NEW q \in Int, p * N - q * N < N
    PROVE  p <= q
<1> SUFFICES ASSUME p >= q + 1 PROVE FALSE
    OBVIOUS
<1>1. (p - q - 1) * N >= 0
    OBVIOUS
<1>2. (p - q - 1) * N = p * N - q * N - N
    OBVIOUS
<1> QED BY <1>1, <1>2

\* Division with remainder.
LEMMA Division ==
    ASSUME NEW N \in Nat \ {0}, NEW x \in Int
    PROVE  /\ x \div N \in Int /\ x % N \in 0 .. N - 1
           /\ x = N * (x \div N) + (x % N)
OBVIOUS

\* The remainder is the only number of the space that differs by a multiple.
LEMMA RemainderUnique ==
    ASSUME NEW N \in Nat \ {0}, NEW x \in Int, NEW k \in Int, NEW r \in 0 .. N - 1,
           x = k * N + r
    PROVE  x % N = r
<1> DEFINE q == x \div N
           m == x % N
<1>1. q \in Int /\ m \in 0 .. N - 1 /\ x = q * N + m
    BY Division
<1> HIDE DEF q, m
<1>2. q <= k
    BY <1>1, MultiplesApart
<1>3. k <= q
    BY <1>1, MultiplesApart
<1>4. q = k
    BY <1>1, <1>2, <1>3
<1> QED BY <1>1, <1>4 DEF m

\* wrapping_add on a wrapped offset is the wrapped sum.
LEMMA WrappedSum ==
    ASSUME NEW a \in Nat, NEW n \in Nat
    PROVE  WrappingAdd((Isn + a) % SeqSpace, n) = (Isn + (a + n)) % SeqSpace
<1> DEFINE N == SeqSpace
           x == Isn + a
           y == Isn + (a + n)
           p == x \div N
           q == y \div N
           u == x % N
           v == y % N
           k == q - p
<1>1. N \in Nat \ {0} /\ Isn \in Nat
    BY SeqSpaceAssumption, SeqTrackerAssumption DEF SeqNumber
<1>2. x \in Int /\ y \in Int /\ y = x + n
    BY <1>1
<1> HIDE DEF N, x, y
<1>3. p \in Int /\ u \in 0 .. N - 1 /\ x = N * p + u
    BY <1>1, <1>2, Division
<1>4. q \in Int /\ v \in 0 .. N - 1 /\ y = N * q + v
    BY <1>1, <1>2, Division
<1> HIDE DEF p, q, u, v
<1>5. k \in Int /\ k * N = N * q - N * p
    BY <1>1, <1>3, <1>4
<1> HIDE DEF k
<1>6. u + n \in Int /\ u + n = k * N + v
    BY <1>1, <1>2, <1>3, <1>4, <1>5
<1>7. (u + n) % N = v
    BY <1>1, <1>4, <1>5, <1>6, RemainderUnique
<1> QED BY <1>7 DEF WrappingAdd, N, x, y, u, v

\* seq_diff tells the true distance of two offsets that lie within half of the
\* space of each other (flow.rs:273-275).
LEMMA StreamDistance ==
    ASSUME NEW a \in Nat, NEW b \in Nat,
           a - b < SeqSpace \div 2, b - a <= SeqSpace \div 2
    PROVE  SeqDiff((Isn + a) % SeqSpace, (Isn + b) % SeqSpace) = a - b
<1> DEFINE N == SeqSpace
           x == Isn + a
           y == Isn + b
           p == x \div N
           q == y \div N
           u == x % N
           v == y % N
           z == u - v
           k == q - p
<1>1. N \in Nat \ {0} /\ Isn \in Nat
    BY SeqSpaceAssumption, SeqTrackerAssumption DEF SeqNumber
<1>2. x \in Int /\ y \in Int /\ x - y = a - b
    BY <1>1
<1>3. a - b < N \div 2 /\ b - a <= N \div 2 /\ N \div 2 \in Int /\ 2 * (N \div 2) <= N
    BY <1>1
<1>4. SeqDiff(u, v) = IF 2 * (z % N) < N THEN z % N ELSE (z % N) - N
    BY DEF SeqDiff
<1> HIDE DEF N, x, y
<1>5. p \in Int /\ u \in 0 .. N - 1 /\ x = N * p + u
    BY <1>1, <1>2, Division
<1>6. q \in Int /\ v \in 0 .. N - 1 /\ y = N * q + v
    BY <1>1, <1>2, Division
<1> HIDE DEF p, q, u, v
<1>7. k \in Int /\ k * N = N * q - N * p
    BY <1>1, <1>5, <1>6
<1> HIDE DEF k
<1>8. z \in Int /\ z = k * N + (a - b)
    BY <1>1, <1>2, <1>5, <1>6, <1>7
<1> HIDE DEF z
<1>9. CASE a >= b
  <2>1. a - b \in 0 .. N - 1
      BY <1>1, <1>3, <1>9
  <2>2. z % N = a - b
      BY <1>1, <1>7, <1>8, <2>1, RemainderUnique
  <2> QED BY <1>1, <1>3, <1>4, <1>9, <2>2 DEF N, x, y, u, v
<1>10. CASE a < b
  <2> DEFINE r == a - b + N
             j == k - 1
  <2>1. r \in 0 .. N - 1
      BY <1>1, <1>3, <1>10
  <2>2. j \in Int /\ j * N = k * N - N
      BY <1>1, <1>7
  <2> HIDE DEF j
  <2>3. z = j * N + r
      BY <1>1, <1>7, <1>8, <2>2
  <2> HIDE DEF r
  <2>4. z % N = r
      BY <1>1, <1>8, <2>1, <2>2, <2>3, RemainderUnique
  <2>5. SeqDiff(u, v) = a - b
      BY <1>1, <1>3, <1>4, <1>10, <2>4 DEF r
  <2> QED BY <2>5 DEF N, x, y, u, v
<1> QED BY <1>9, <1>10

-----------------------------------------------------------------------------
(* The tracker.                                                              *)

\* A segment of the stream, as the flow machine sees it.
LEMMA SegmentFacts ==
    ASSUME NEW off \in Nat, NEW len \in Nat
    PROVE  /\ Segment(off, len) \in Received
           /\ Segment(off, len).dir = Reverse
           /\ Segment(off, len).seq = (Isn + off) % SeqSpace
           /\ Segment(off, len).payload_len = len
<1> DEFINE seq == (Isn + off) % SeqSpace
           pkt == [key |-> [low |-> Server, high |-> Client, proto |-> "Tcp"],
                   dir |-> Reverse, proto |-> "Tcp", flags |-> {"ACK"},
                   seq |-> seq, ack |-> 0, window |-> 1, payload_len |-> len]
<1>1. ~ EndpointLeq(Client, Server)
    BY DEF EndpointLeq, Client, Server
<1>2. Segment(off, len) = pkt
    BY <1>1 DEF Segment, Build, Canonical
<1>3. seq \in SeqNumber
    BY SeqSpaceAssumption, SeqTrackerAssumption DEF SeqNumber
<1> HIDE DEF seq
<1>4. seq \in Nat
    BY <1>3, SeqSpaceAssumption DEF SeqNumber
<1>5. [low |-> Server, high |-> Client, proto |-> "Tcp"] \in FlowKey
    BY DEF FlowKey, Endpoint, Protocol, Server, Client
<1>6. {"ACK"} \in TcpFlags
    BY DEF TcpFlags
<1>7. pkt \in PacketMeta
    BY <1>4, <1>5, <1>6 DEF PacketMeta, Direction, Protocol
<1>8. pkt \in Received
    BY <1>3, <1>7 DEF Received
<1> QED BY <1>2, <1>8 DEF seq

\* What the sequence analysis of a data segment writes (flow.rs:229-247).
LEMMA SegmentEffect ==
    ASSUME NEW r \in Work, NEW pkt \in Received, pkt.payload_len # 0
    PROVE  LET t   == SegmentStep(r, pkt)
               exp == r.flow.next_seq[pkt.dir]
               end == WrappingAdd(pkt.seq, pkt.payload_len)
               old == exp # None /\ SeqDiff(pkt.seq, exp) < 0
           IN  /\ t.flow.next_seq[pkt.dir] =
                    IF exp = None \/ SeqDiff(end, exp) > 0 THEN end ELSE exp
               /\ t.flow.retransmits = IF old THEN r.flow.retransmits + 1
                                       ELSE r.flow.retransmits
               /\ t.d.is_retransmit <=> old
               /\ t.d.is_out_of_order <=> exp # None /\ SeqDiff(pkt.seq, exp) > 0
<1> DEFINE t   == SegmentStep(r, pkt)
           exp == r.flow.next_seq[pkt.dir]
           end == WrappingAdd(pkt.seq, pkt.payload_len)
           old == exp # None /\ SeqDiff(pkt.seq, exp) < 0
           ooo == exp # None /\ SeqDiff(pkt.seq, exp) > 0
           nxt == IF exp = None \/ SeqDiff(end, exp) > 0 THEN end ELSE exp
           ret == IF old THEN r.flow.retransmits + 1 ELSE r.flow.retransmits
           dl  == [r.d EXCEPT !.is_retransmit = old, !.is_out_of_order = ooo]
           fl  == [r.flow EXCEPT !.data_segments = @ + 1, !.retransmits = ret,
                                 !.next_seq[pkt.dir] = nxt]
<1>1. pkt.dir \in Direction
    BY DEF Received, PacketMeta
<1>2. t = [r EXCEPT !.d = dl, !.flow = fl]
    BY ZenonT(30) DEF SegmentStep, Work, FlowState
<1> HIDE DEF old, ooo, nxt, ret
<1>3. dl.is_retransmit = old /\ dl.is_out_of_order = ooo
    BY DEF Work, PacketDelta
<1>4. fl.retransmits = ret /\ fl.next_seq[pkt.dir] = nxt
    BY <1>1 DEF Work, FlowState
<1> HIDE DEF dl, fl, t
<1>5. t.d = dl /\ t.flow = fl
    BY <1>2 DEF Work
<1> QED BY <1>3, <1>4, <1>5 DEF old, ooo, nxt, ret, t

\* The inductive invariant: next_seq and the verdicts follow the stream.
SeqInv ==
    /\ s \in Work
    /\ high \in Nat \cup {None}
    /\ resent \in Nat
    /\ NextSeqTracksStream
    /\ ClassifiedAsStream

\* The sequence analysis of one segment against the furthest byte.
LEMMA DeliverInv ==
    ASSUME SeqInv, NEW off \in Nat, NEW len \in Nat \ {0}, Deliver(off, len)
    PROVE  SeqInv'
<1> DEFINE r   == [s EXCEPT !.d = NoDelta]
           pkt == Segment(off, len)
           exp == s.flow.next_seq[Reverse]
           end == WrappingAdd(pkt.seq, pkt.payload_len)
           old == exp # None /\ SeqDiff(pkt.seq, exp) < 0
           ooo == exp # None /\ SeqDiff(pkt.seq, exp) > 0
           nxt == IF exp = None \/ SeqDiff(end, exp) > 0 THEN end ELSE exp
<1>1. /\ pkt \in Received /\ pkt.dir = Reverse
      /\ pkt.seq = (Isn + off) % SeqSpace /\ pkt.payload_len = len
    BY SegmentFacts
<1>2. Segment(0, 1).dir = Reverse
    BY SegmentFacts
<1>3. r \in Work /\ r.flow = s.flow /\ r.d = NoDelta
  <2>1. NoDelta \in PacketDelta
      BY DEF NoDelta, PacketDelta, None
  <2> QED BY <2>1 DEF SeqInv, Work
<1>4. s' = SegmentStep(r, pkt) /\ s' \in Work
    BY <1>1, <1>3, SegmentStepType DEF Deliver
<1>5. /\ s'.flow.next_seq[Reverse] = nxt
      /\ s'.flow.retransmits = IF old THEN s.flow.retransmits + 1 ELSE s.flow.retransmits
      /\ s'.d.is_retransmit <=> old
      /\ s'.d.is_out_of_order <=> ooo
  <2> HIDE DEF r, pkt
  <2> QED BY <1>1, <1>3, <1>4, SegmentEffect
<1>8. exp = IF high = None THEN None ELSE (Isn + high) % SeqSpace
    BY <1>2 DEF SeqInv, NextSeqTracksStream
<1>9. end = (Isn + (off + len)) % SeqSpace
    BY <1>1, WrappedSum
<1>10. \A i \in Nat : (Isn + i) % SeqSpace # None
    BY SeqSpaceAssumption, SeqTrackerAssumption DEF SeqNumber, None
<1>11. ASSUME high # None
       PROVE  /\ high \in Nat /\ exp # None
              /\ SeqDiff(pkt.seq, exp) = off - high
              /\ SeqDiff(end, exp) = off + len - high
  <2>1. high \in Nat
      BY <1>11 DEF SeqInv
  <2>2. /\ off - high < SeqSpace \div 2 /\ high - off <= SeqSpace \div 2
        /\ (off + len) - high < SeqSpace \div 2 /\ high - (off + len) <= SeqSpace \div 2
      BY <1>11 DEF Deliver, WithinHalf
  <2>3. exp = (Isn + high) % SeqSpace
      BY <1>8, <1>11
  <2>4. off + len \in Nat
      OBVIOUS
  <2> HIDE DEF exp, end, pkt
  <2> QED BY <1>1, <1>9, <1>10, <2>1, <2>2, <2>3, <2>4, StreamDistance
<1> HIDE DEF exp, end, pkt, r
<1>12. high' = IF high = None \/ off + len > high THEN off + len ELSE high
    BY DEF Deliver
<1>13. nxt = (Isn + high') % SeqSpace /\ high' \in Nat /\ high' # None
  <2>1. CASE high = None
      BY <1>8, <1>9, <1>12, <2>1 DEF None
  <2>2. CASE high # None
    <3>1. SeqDiff(end, exp) > 0 <=> off + len > high
        BY <1>11, <2>2
    <3> QED BY <1>8, <1>9, <1>11, <1>12, <2>2, <3>1 DEF None
  <2> QED BY <2>1, <2>2
<1>14. /\ old <=> Verdict(off) = "retransmit"
       /\ ooo <=> Verdict(off) = "out_of_order"
  <2>1. CASE high = None
      BY <1>8, <2>1 DEF Verdict
  <2>2. CASE high # None
    <3>0. /\ high \in Nat /\ exp # None /\ SeqDiff(pkt.seq, exp) = off - high
        BY <1>11, <2>2
    <3>1. CASE off = high
      <4>1. Verdict(off) = "in_order"
          BY <2>2, <3>0, <3>1 DEF Verdict
      <4> QED BY <3>0, <3>1, <4>1
    <3>2. CASE off < high
      <4>1. Verdict(off) = "retransmit"
          BY <2>2, <3>0, <3>2 DEF Verdict
      <4> QED BY <3>0, <3>2, <4>1
    <3>3. CASE off > high
      <4>1. Verdict(off) = "out_of_order"
          BY <2>2, <3>0, <3>3 DEF Verdict
      <4> QED BY <3>0, <3>3, <4>1
    <3> QED BY <3>0, <3>1, <3>2, <3>3
  <2> QED BY <2>1, <2>2
<1> HIDE DEF old, ooo, nxt
<1>15. verdict' = Verdict(off)
       /\ resent' = IF Verdict(off) = "retransmit" THEN resent + 1 ELSE resent
    BY DEF Deliver
<1>16. ClassifiedAsStream' /\ resent' \in Nat
  <2>1. s.flow.retransmits = resent /\ resent \in Nat
      BY DEF SeqInv, ClassifiedAsStream
  <2>2. s'.flow.retransmits = resent' /\ resent' \in Nat
      BY <1>5, <1>14, <1>15, <2>1
  <2>3. /\ s'.d.is_retransmit <=> verdict' = "retransmit"
        /\ s'.d.is_out_of_order <=> verdict' = "out_of_order"
      BY <1>5, <1>14, <1>15
  <2> QED BY <2>2, <2>3 DEF ClassifiedAsStream
<1>17. NextSeqTracksStream'
    BY <1>2, <1>5, <1>13 DEF NextSeqTracksStream
<1> QED BY <1>4, <1>13, <1>16, <1>17 DEF SeqInv

\* Both initial states satisfy it.
LEMMA SeqInitInv == Init => SeqInv
<1> SUFFICES ASSUME Init PROVE SeqInv
    OBVIOUS
<1>1. PICK start \in {0, None} :
        /\ high = start
        /\ s = [flow      |-> [NewFlow(Server, 0) EXCEPT
                                 !.next_seq[Segment(0, 1).dir] =
                                     IF start = None THEN None ELSE Isn],
                half_open |-> [ep \in {} |-> 0],
                rst_rate  |-> NewRate(RateWindow),
                d         |-> NoDelta]
    BY DEF Init
<1>2. Segment(0, 1).dir = Reverse
    BY SegmentFacts
<1> DEFINE nxt == IF start = None THEN None ELSE Isn
           f   == [NewFlow(Server, 0) EXCEPT !.next_seq[Reverse] = nxt]
<1>3. nxt \in SeqNumber \cup {None}
    BY SeqTrackerAssumption
<1>4. nxt = IF start = None THEN None ELSE (Isn + start) % SeqSpace
  <2>1. Isn \in Nat /\ Isn < SeqSpace /\ SeqSpace \in Nat \ {0}
      BY SeqTrackerAssumption, SeqSpaceAssumption DEF SeqNumber
  <2>2. (Isn + 0) % SeqSpace = Isn
      BY <2>1
  <2> QED BY <2>2
<1> HIDE DEF nxt
<1>5. f \in FlowState /\ f.next_seq[Reverse] = nxt /\ f.retransmits = 0
    BY <1>3 DEF NewFlow, FlowState, TcpState, Server, Endpoint, Direction, Reverse, None
<1>6. s = [flow |-> f, half_open |-> [ep \in {} |-> 0],
           rst_rate |-> NewRate(RateWindow), d |-> NoDelta]
    BY <1>1, <1>2 DEF nxt
<1> HIDE DEF f
<1>7. NoDelta \in PacketDelta /\ NoDelta.is_retransmit = FALSE /\ NoDelta.is_out_of_order = FALSE
    BY DEF NoDelta, PacketDelta, None
<1>8. NewRate(RateWindow) \in Rate(RateWindow)
    BY DEF NewRate, Rate, RateWindow, NoEpoch
<1>9. [ep \in {} |-> 0] \in HalfOpenTable
    BY DEF HalfOpenTable
<1>10. s \in Work
    BY <1>5, <1>6, <1>7, <1>8, <1>9 DEF Work
<1>11. NextSeqTracksStream
    BY <1>1, <1>2, <1>4, <1>5, <1>6 DEF NextSeqTracksStream
<1>12. ClassifiedAsStream
  <2>1. s.d.is_retransmit = FALSE /\ s.d.is_out_of_order = FALSE /\ s.flow.retransmits = 0
      BY <1>5, <1>6, <1>7
  <2>2. verdict = "in_order" /\ resent = 0
      BY DEF Init
  <2> QED BY <2>1, <2>2 DEF ClassifiedAsStream
<1>13. high \in Nat \cup {None} /\ resent \in Nat
    BY <1>1 DEF Init
<1> QED BY <1>10, <1>11, <1>12, <1>13 DEF SeqInv

(* The tracker follows the stream in every reachable state.                  *)
THEOREM SeqInvariant == Spec => []SeqInv
<1>1. SeqInv /\ [Next]_vars => SeqInv'
  <2> SUFFICES ASSUME SeqInv, [Next]_vars PROVE SeqInv'
      OBVIOUS
  <2>1. CASE Next
    <3>1. PICK off \in 0 .. MaxLen * (MaxSegments + 1), len \in 1 .. MaxLen : Deliver(off, len)
        BY <2>1 DEF Next
    <3>2. off \in Nat /\ len \in Nat \ {0}
        BY SeqTrackerAssumption
    <3> QED BY <3>1, <3>2, DeliverInv
  <2>2. CASE UNCHANGED vars
      BY <2>2 DEF vars, SeqInv, NextSeqTracksStream, ClassifiedAsStream
  <2> QED BY <2>1, <2>2
<1> QED BY <1>1, SeqInitInv, PTL DEF Spec

(* next_seq is the wrapped offset of the furthest byte seen, for a sequence  *)
(* space of any size and through any number of wraps (flow.rs:231-245).      *)
THEOREM NextSeqIsRight == Spec => []NextSeqTracksStream
<1>1. SeqInv => NextSeqTracksStream
    BY DEF SeqInv
<1> QED BY <1>1, SeqInvariant, PTL

(* Retransmissions and gaps are told apart exactly, also across the wrap, as *)
(* long as the stream stays within half of the space around its furthest     *)
(* byte (flow.rs:232-240, 273-275).                                          *)
THEOREM SegmentsAreClassifiedRight == Spec => []ClassifiedAsStream
<1>1. SeqInv => ClassifiedAsStream
    BY DEF SeqInv
<1> QED BY <1>1, SeqInvariant, PTL

=============================================================================

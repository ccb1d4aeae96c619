----------------------------- MODULE SeqTracker -----------------------------
(* One direction of a flow fed with the data segments of an unbounded byte   *)
(* stream whose sequence numbers wrap.  The stream is the reference: it      *)
(* knows the true offset of every segment and the furthest byte seen.        *)
EXTENDS FlowState

CONSTANTS
    Isn,          \* sequence number of stream offset 0
    MaxSegments,  \* bound on the segments delivered
    MaxLen        \* bound on a segment

ASSUME SeqTrackerAssumption ==
    Isn \in SeqNumber /\ MaxSegments \in Nat /\ MaxLen \in Nat \ {0}

VARIABLES
    s,            \* the record that update works on
    high,         \* offset after the furthest byte seen, or None
    verdict,      \* what the reference says of the last segment
    resent        \* how many segments the reference called retransmissions

vars == <<s, high, verdict, resent>>

Server == [ip |-> 1, port |-> 1]
Client == [ip |-> 2, port |-> 5]

Segment(off, len) ==
    Build(Client, Server, "Tcp", {"ACK"}, (Isn + off) % SeqSpace, 0, 1, len)

\* A SYN has set next_seq, or the flow was first seen in mid-stream.
Init ==
    /\ \E start \in {0, None} :
         /\ high = start
         /\ s = [flow      |-> [NewFlow(Server, 0) EXCEPT
                                  !.next_seq[Segment(0, 1).dir] =
                                      IF start = None THEN None ELSE Isn],
                 half_open |-> [ep \in {} |-> 0],
                 rst_rate  |-> NewRate(RateWindow),
                 d         |-> NoDelta]
    /\ verdict = "in_order"
    /\ resent = 0

\* The stream stays within half of the sequence space around the furthest byte.
WithinHalf(off) == high # None => off - high < SeqSpace \div 2 /\ high - off <= SeqSpace \div 2

Verdict(off) ==
    CASE high = None \/ off = high -> "in_order"
      [] high # None /\ off < high -> "retransmit"
      [] high # None /\ off > high -> "out_of_order"

Deliver(off, len) ==
    /\ s.flow.data_segments < MaxSegments
    /\ WithinHalf(off) /\ WithinHalf(off + len)
    /\ s' = SegmentStep([s EXCEPT !.d = NoDelta], Segment(off, len))
    /\ verdict' = Verdict(off)
    /\ resent' = IF Verdict(off) = "retransmit" THEN resent + 1 ELSE resent
    /\ high' = IF high = None \/ off + len > high THEN off + len ELSE high

Next == \E off \in 0 .. MaxLen * (MaxSegments + 1), len \in 1 .. MaxLen : Deliver(off, len)

Spec == Init /\ [][Next]_vars

-----------------------------------------------------------------------------

(* next_seq is always the wrapped form of the furthest byte seen, through    *)
(* any number of wraps, retransmissions and overlaps: it never retreats and  *)
(* never sticks (flow.rs:231-245).                                           *)
NextSeqTracksStream ==
    s.flow.next_seq[Segment(0, 1).dir] =
        IF high = None THEN None ELSE (Isn + high) % SeqSpace

(* A segment is called a retransmission exactly when its first byte was      *)
(* passed before, and out of order exactly when it leaves a gap, also across *)
(* the wrap of the sequence space, and the flow's retransmission count is    *)
(* the number of those segments (flow.rs:232-240, 273-275).                  *)
ClassifiedAsStream ==
    /\ s.flow.retransmits = resent
    /\ s.d.is_retransmit <=> verdict = "retransmit"
    /\ s.d.is_out_of_order <=> verdict = "out_of_order"

=============================================================================

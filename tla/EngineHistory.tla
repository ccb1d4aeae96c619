---------------------------- MODULE EngineHistory ---------------------------
(* Engine with history variables that remember what really happened on the   *)
(* wire and which alerts were raised, so that the engine's reports can be    *)
(* compared with it.  The history never influences the engine.               *)
EXTENDS Engine

VARIABLES
    hist,      \* for every flow in the table, what its packets were
    alerts     \* for every debounced kind, the time of its last event or None

historyVars == <<hist, alerts>>
allVars     == <<vars, historyVars>>

NoEndpoint == [ip |-> 0, port |-> 0]

NoHistory ==
    [syn_first |-> FALSE,        \* the flow's first packet was a bare SYN
     syn_dst   |-> NoEndpoint,   \* destination of the flow's first bare SYN
     syn_seq   |-> None,         \* sequence number of the latest bare SYN
     syn_at    |-> None,         \* when a SYN with that number was first seen
     acked_at  |-> None,         \* syn_at of the SYN that the latest SYN-ACK answers
     answered  |-> FALSE,        \* a SYN-ACK came after the first SYN
     stalled   |-> {},           \* directions reported as zero window, not reopened
     burst     |-> {},           \* directions whose current ACK burst was reported
     repeated  |-> {}]           \* kinds reported again without a new cause

\* The history of a flow after pkt, which found the flow as before and made the
\* engine return events.
Extend(h, pkt, now, events, before) ==
    LET syn     == IsSynOnly(pkt.flags)
        newSyn  == syn /\ (h.syn_seq = None \/ h.syn_seq # pkt.seq)
        bareAck == "ACK" \in pkt.flags /\ pkt.payload_len = 0
                     /\ pkt.flags \cap {"SYN", "FIN", "RST"} = {}
        zero    == \E ev \in events : ev.kind = "ZeroWindow"
        dup     == \E ev \in events : ev.kind = "DuplicateAck"
        same    == bareAck /\ before.last_ack[pkt.dir] = pkt.ack
    IN  [syn_first |-> h.syn_first,
         syn_dst   |-> IF syn /\ h.syn_seq = None THEN Destination(pkt) ELSE h.syn_dst,
         syn_seq   |-> IF syn THEN pkt.seq ELSE h.syn_seq,
         syn_at    |-> IF newSyn THEN now ELSE h.syn_at,
         acked_at  |-> IF ~ IsSynAck(pkt.flags) THEN h.acked_at
                       ELSE IF h.syn_seq # None /\ pkt.ack = WrappingAdd(h.syn_seq, 1)
                       THEN h.syn_at ELSE None,
         answered  |-> h.answered \/ (IsSynAck(pkt.flags) /\ h.syn_seq # None),
         stalled   |-> IF zero THEN h.stalled \cup {pkt.dir}
                       ELSE IF pkt.window # 0 THEN h.stalled \ {pkt.dir}
                       ELSE h.stalled,
         burst     |-> IF dup THEN h.burst \cup {pkt.dir}
                       ELSE IF bareAck /\ ~ same THEN h.burst \ {pkt.dir}
                       ELSE h.burst,
         repeated  |-> h.repeated
                         \cup (IF zero /\ pkt.dir \in h.stalled THEN {"ZeroWindow"} ELSE {})
                         \cup (IF dup /\ pkt.dir \in h.burst THEN {"DuplicateAck"} ELSE {})]

HInit ==
    /\ Init
    /\ hist = [k \in {} |-> NoHistory]
    /\ alerts = [kind \in HostWide |-> None]

Emitted(kind, k) == \E ev \in out' : ev.kind = kind /\ ev.key = k

HProcess(pkt, now) ==
    /\ Process(pkt, now)
    /\ LET old == IF IsNewFlow(pkt)
                  THEN [NoHistory EXCEPT !.syn_first = pkt.proto = "Tcp" /\ IsSynOnly(pkt.flags)]
                  ELSE hist[pkt.key]
           new == IF pkt.proto = "Tcp"
                  THEN Extend(old, pkt, now, {ev \in out' : ev.key = pkt.key},
                              Entry(pkt, now).flow)
                  ELSE old
       IN  hist' = [k \in DOMAIN flows' |-> IF k = pkt.key THEN new ELSE hist[k]]
    /\ alerts' = [kind \in HostWide |->
                    IF \E ev \in out' : ev.kind = kind THEN now ELSE alerts[kind]]

HSweep(now) ==
    /\ Sweep(now)
    /\ hist' = [k \in DOMAIN flows' |-> hist[k]]
    /\ UNCHANGED alerts

HNext ==
    \/ \E pkt \in Packets, now \in Times : HProcess(pkt, now)
    \/ \E now \in Times : HSweep(now)

HSpec == HInit /\ [][HNext]_allVars

-----------------------------------------------------------------------------
(* Properties that the engine has.                                           *)

(* Two alerts of one host-wide kind are at least alert_debounce_secs apart,  *)
(* also when timestamps go back (Debounce::ready).                           *)
AlertsSpaced ==
    [][\A kind \in HostWide :
          (\E ev \in out' : ev.kind = kind) /\ alerts[kind] # None =>
              alerts'[kind] >= alerts[kind] + AlertDebounceNs]_allVars

(* A HandshakeTimeout is only raised for a flow on which no SYN-ACK followed *)
(* its first SYN, however late the sweep comes (engine.rs:76).               *)
TimeoutMeansNoSynAck ==
    [][\A k \in DOMAIN hist :
          Emitted("HandshakeTimeout", k) =>
              ~ hist[k].answered /\ (k \in DOMAIN hist' => ~ hist'[k].answered)]_allVars

(* A zero-window stall is reported once until the window reopens, and a      *)
(* burst of duplicate ACKs once until the acknowledgement advances, through  *)
(* every interleaving of the two directions (flow.rs:219-226 and 250-262).   *)
ReportedOncePerCause == \A k \in DOMAIN hist : hist[k].repeated = {}

(* The backlog of a flow that was observed from its SYN on is attributed to  *)
(* that SYN's destination, also when the peer opens simultaneously or the    *)
(* tuple is reused (flow.rs:144-154).                                        *)
SynFirstServiceRight ==
    \A k \in DOMAIN hist :
        hist[k].syn_first /\ flows[k].half_open_counted => flows[k].service = hist[k].syn_dst

\* What the state of a flow remembers of its history h.
FaithfulFlow(f, h) ==
    /\ f.syn_time_ns # None <=> h.syn_seq # None
    /\ h.answered => f.syn_time_ns # None /\ f.state # "SynSent"
    /\ h.syn_first => h.syn_seq # None /\ f.service = h.syn_dst
    /\ h.stalled \subseteq {i \in Direction : f.zero_window[i]}
    /\ h.burst \subseteq {i \in Direction : f.dup_ack_count[i] >= DupAckThreshold}
    /\ h.repeated = {}

(* The inductive invariant behind these properties: a flow's record never    *)
(* forgets what its history says, from its first packet through reuse to its *)
(* eviction, and each debounced detector remembers its last alert (an alert  *)
(* at time 0 leaves no trace there, detectors.rs:46).                        *)
HistoryInv ==
    /\ DOMAIN hist = DOMAIN flows
    /\ \A k \in DOMAIN flows : FaithfulFlow(flows[k], hist[k])
    /\ alerts \in [HostWide -> Times \cup {None}]
    /\ \A kind \in HostWide :
          debounce[kind] = IF alerts[kind] = None THEN 0 ELSE alerts[kind]

-----------------------------------------------------------------------------
(* A property that a document states and that the engine lacks.              *)

(* docs/DETECTORS.md:35 says that the handshake RTT is measured from the SYN *)
(* to its SYN-ACK.                                                           *)
RttFromOwnSyn ==
    [][\A k \in DOMAIN hist :
          Emitted("HighRtt", k) /\ hist'[k].acked_at # None =>
              flows'[k].last_seen_ns >= hist'[k].acked_at + RttWarnNs]_allVars

=============================================================================

----------------------------- MODULE PacketMeta -----------------------------
(* Vocabulary shared by every component: endpoints, canonical flow keys, TCP *)
(* flags and the normalised packet record that capture backends hand to the  *)
(* detection engine (l4scope-core/src/types.rs, and build in                 *)
(* l4scope-capture/src/parse.rs).                                            *)
(*                                                                           *)
(* An IP address is a natural number: of IpAddr only equality and the order  *)
(* derived by Ord are used.  Of the flags byte only the bits that some code  *)
(* reads are kept.  The fields ttl and iface, which no component reads, are  *)
(* left out, and the capture timestamp travels beside the packet.            *)
EXTENDS Integers

Endpoint == [ip : Nat, port : Nat]
Protocol == {"Tcp", "Udp"}

\* Direction::index
Forward   == 0
Reverse   == 1
Direction == {Forward, Reverse}

FlowKey == [low : Endpoint, high : Endpoint, proto : Protocol]

\* The order derived for Endpoint: first the address, then the port.
EndpointLeq(a, b) ==
    \/ a.ip < b.ip
    \/ a.ip = b.ip /\ a.port <= b.port

Canonical(src, dst, proto) ==
    IF EndpointLeq(src, dst)
    THEN [key |-> [low |-> src, high |-> dst, proto |-> proto], dir |-> Forward]
    ELSE [key |-> [low |-> dst, high |-> src, proto |-> proto], dir |-> Reverse]

TcpFlags == SUBSET {"FIN", "SYN", "RST", "ACK"}

IsSynOnly(flags) == "SYN" \in flags /\ "ACK" \notin flags
IsSynAck(flags)  == "SYN" \in flags /\ "ACK" \in flags

PacketMeta ==
    [key : FlowKey, dir : Direction, proto : Protocol, flags : TcpFlags,
     seq : Nat, ack : Nat, window : Nat, payload_len : Nat]

\* The last step of frame parsing: a packet observed from src to dst.
Build(src, dst, proto, flags, seq, ack, window, len) ==
    LET c == Canonical(src, dst, proto)
    IN  [key |-> c.key, dir |-> c.dir, proto |-> proto, flags |-> flags,
         seq |-> seq, ack |-> ack, window |-> window, payload_len |-> len]

\* EngineState::endpoints: the observed source and destination.
Source(pkt)      == IF pkt.dir = Forward THEN pkt.key.low ELSE pkt.key.high
Destination(pkt) == IF pkt.dir = Forward THEN pkt.key.high ELSE pkt.key.low

=============================================================================

------------------------------- MODULE Frames -------------------------------
(* Header parsing: parse_frame of l4scope-capture/src/parse.rs, which serves *)
(* the pcap backends, and the kernel program bpf/l4scope.bpf.c with decode   *)
(* of ebpf.rs, which serves the eBPF backend.                                *)
(*                                                                           *)
(* A frame is [len, at]: the captured length and the fields by the offset at *)
(* which they start.  Every other byte is Filler.  An Option is a set of at  *)
(* most one element, and the ? operator a quantification over that set.      *)
EXTENDS PacketMeta

CONSTANTS
    Filler,     \* value of the bytes of payloads, options and padding
    V4Bits      \* width of an IPv4 address: 32 in the code

ASSUME FramesAssumption == Filler \in 0 .. 255 /\ V4Bits \in Nat

EthIp   == 2048
EthIp6  == 34525
EthTags == {33024, 34984}           \* VLAN and QinQ

TCP      == 6
UDP      == 17
Fragment == 44
AH       == 51
Options  == {0, 43, 60, AH}         \* hop-by-hop, routing, destination options, AH

Less(a, b)   == IF a < b THEN a ELSE b
Minus(a, b)  == IF a > b THEN a - b ELSE 0     \* saturating_sub

\* IpAddr orders every IPv4 address before every IPv6 address.
V6(n) == 2^V4Bits + n

\* The field of n bytes at an offset, if it was captured.
Get(f, off, n) ==
    IF off + n > f.len THEN {} ELSE {IF off \in DOMAIN f.at THEN f.at[off] ELSE Filler}

\* The same, where the length was tested before.
Byte(f, off) == IF off \in DOMAIN f.at THEN f.at[off] ELSE Filler

FlagBit == [FIN |-> 1, SYN |-> 2, RST |-> 4, ACK |-> 16]

FlagsOf(byte) == {fl \in DOMAIN FlagBit : (byte \div FlagBit[fl]) % 2 = 1}

-----------------------------------------------------------------------------
(* parse.rs.                                                                 *)

UntagVlanOnly(f, w) ==              \* mutant: QinQ tags are not recognised
    IF w.et # 33024 THEN {w}
    ELSE {[et |-> et, off |-> w.off + 4] : et \in Get(f, w.off + 2, 2)}

\* One turn of the walk over VLAN tags.
Untag(f, w) ==
    IF w.et \notin EthTags THEN {w}
    ELSE {[et |-> et, off |-> w.off + 4] : et \in Get(f, w.off + 2, 2)}

\* The ethertype by the version nibble of the IP header.
ByVersion(f, off) ==
    UNION {CASE v \div 16 = 4 -> {[et |-> EthIp, off |-> off]}
             [] v \div 16 = 6 -> {[et |-> EthIp6, off |-> off]}
             [] OTHER -> {} : v \in Get(f, off, 1)}

StripLink(link, f) ==
    CASE link = "EN10MB"    -> UNION {UNION {Untag(f, x) : x \in Untag(f, [et |-> et, off |-> 14])}
                                        : et \in Get(f, 12, 2)}
      [] link = "LINUX_SLL" -> {[et |-> et, off |-> 16] : et \in Get(f, 14, 2)}
      [] link = "RAW"       -> ByVersion(f, 0)
      [] link = "NULL"      -> ByVersion(f, 4)
      [] OTHER              -> {}

\* finish: the transport header at l4, with room bytes that IP calls payload.
Finish(f, proto, src, dst, l4, room) ==
    LET from == [ip |-> src, port |-> Byte(f, l4)]
        to   == [ip |-> dst, port |-> Byte(f, l4 + 2)]
        doff == 4 * (Byte(f, l4 + 12) \div 16)
    IN  CASE proto = TCP /\ f.len - l4 >= 20 /\ doff >= 20 ->
               {Build(from, to, "Tcp", FlagsOf(Byte(f, l4 + 13) % 64), Byte(f, l4 + 4),
                      Byte(f, l4 + 8), Byte(f, l4 + 14), Minus(room, doff))}
          [] proto = UDP /\ f.len - l4 >= 8 ->
               {Build(from, to, "Udp", {}, 0, 0, 0, Minus(Byte(f, l4 + 4), 8))}
          [] OTHER -> {}

ParseIpv4WithoutOptions(f, l3) ==   \* mutant: the header is taken to be 20 bytes long
    IF f.len - l3 < 20 THEN {}
    ELSE Finish(f, Byte(f, l3 + 9), Byte(f, l3 + 12), Byte(f, l3 + 16), l3 + 20,
                Less(Minus(Byte(f, l3 + 2), 20), f.len - l3 - 20))

\* The payload is what IP says, clamped to what was captured.
ParseIpv4(f, l3) ==
    LET ihl == 4 * (Byte(f, l3) % 16)
    IN  IF f.len - l3 < 20 \/ ihl < 20 \/ f.len - l3 < ihl THEN {}
        ELSE Finish(f, Byte(f, l3 + 9), Byte(f, l3 + 12), Byte(f, l3 + 16), l3 + ihl,
                    Less(Minus(Byte(f, l3 + 2), ihl), f.len - l3 - ihl))

\* The length is chosen by the header that follows, not by the one skipped.
ExtensionLen(next, units) == IF next = AH THEN (units + 2) * 4 ELSE (units + 1) * 8

\* One turn of the walk over extension headers.
SkipHeader(f, l3, end, w) ==
    LET next == Get(f, l3 + w.off, 1)
        len  == Get(f, l3 + w.off + 1, 1)
        past == CASE w.next \in Options  -> UNION {{[next |-> n, off |-> w.off + ExtensionLen(n, l)]
                                                      : n \in next} : l \in len}
                  [] w.next = Fragment   -> {[next |-> n, off |-> w.off + 8] : n \in next}
                  [] OTHER               -> {}
    IN  IF w.next \in {TCP, UDP} THEN {w} ELSE {x \in past : x.off < end}

ParseIpv6(f, l3) ==
    LET end  == Less(40 + Byte(f, l3 + 4), f.len - l3)
        walk[n \in 0 .. 8] ==
            IF n = 0 THEN {[next |-> Byte(f, l3 + 6), off |-> 40]}
            ELSE UNION {SkipHeader(f, l3, end, w) : w \in walk[n - 1]}
    IN  IF f.len - l3 < 40 THEN {}
        ELSE UNION {Finish(f, w.next, V6(Byte(f, l3 + 8)), V6(Byte(f, l3 + 24)), l3 + w.off,
                           Minus(end, w.off)) : w \in walk[8]}

ParseFrame(link, f) ==
    UNION {CASE l.et = EthIp  -> ParseIpv4(f, l.off)
             [] l.et = EthIp6 -> ParseIpv6(f, l.off)
             [] OTHER         -> {} : l \in StripLink(link, f)}

-----------------------------------------------------------------------------
(* The kernel program, and decode.                                           *)

\* emit_l4 with a record reserved: a header that is cut off discards it.
EmitL4(f, family, proto, saddr, daddr, l4, room) ==
    LET event == [family |-> family, proto |-> proto, saddr |-> saddr, daddr |-> daddr,
                  sport |-> Byte(f, l4), dport |-> Byte(f, l4 + 2), flags |-> 0,
                  seq |-> 0, ack |-> 0, window |-> 0, payload_len |-> 0]
        doff  == 4 * (Byte(f, l4 + 12) \div 16)
    IN  CASE proto = TCP /\ l4 + 20 <= f.len ->
               {[event EXCEPT !.flags = Byte(f, l4 + 13) % 64, !.seq = Byte(f, l4 + 4),
                              !.ack = Byte(f, l4 + 8), !.window = Byte(f, l4 + 14),
                              !.payload_len = Minus(room, doff)]}
          [] proto = UDP /\ l4 + 8 <= f.len ->
               {[event EXCEPT !.payload_len = Minus(Byte(f, l4 + 4), 8)]}
          [] OTHER -> {}

HandleIpPayload(f) ==               \* mutant: the IPv4 header counts as payload
    IF f.len < 14 THEN {}
    ELSE CASE Byte(f, 12) = EthIp /\ 34 <= f.len /\ Byte(f, 23) \in {TCP, UDP} ->
                EmitL4(f, 4, Byte(f, 23), Byte(f, 26), Byte(f, 30),
                       14 + 4 * (Byte(f, 14) % 16), Byte(f, 16))
           [] Byte(f, 12) = EthIp6 /\ 54 <= f.len /\ Byte(f, 20) \in {TCP, UDP} ->
                EmitL4(f, 6, Byte(f, 20), Byte(f, 22), Byte(f, 38), 54, Byte(f, 18))
           [] OTHER -> {}

\* Ethernet only; tags and extension headers are not walked, and the payload is
\* not clamped.
Handle(f) ==
    LET ihl == 4 * (Byte(f, 14) % 16)
    IN  IF f.len < 14 THEN {}
        ELSE CASE Byte(f, 12) = EthIp /\ 34 <= f.len /\ Byte(f, 23) \in {TCP, UDP} ->
                    EmitL4(f, 4, Byte(f, 23), Byte(f, 26), Byte(f, 30), 14 + ihl,
                           Minus(Byte(f, 16), ihl))
               [] Byte(f, 12) = EthIp6 /\ 54 <= f.len /\ Byte(f, 20) \in {TCP, UDP} ->
                    EmitL4(f, 6, Byte(f, 20), Byte(f, 22), Byte(f, 38), 54, Byte(f, 18))
               [] OTHER -> {}

\* decode: the packet of a record of the ring.
Decode(ev) ==
    LET ip(n) == IF ev.family = 4 THEN n ELSE V6(n)
    IN  IF ev.proto \notin {TCP, UDP} \/ ev.family \notin {4, 6} THEN {}
        ELSE {Build([ip |-> ip(ev.saddr), port |-> ev.sport], [ip |-> ip(ev.daddr), port |-> ev.dport],
                    IF ev.proto = TCP THEN "Tcp" ELSE "Udp", FlagsOf(ev.flags), ev.seq, ev.ack,
                    ev.window, ev.payload_len)}

\* What the eBPF backend makes of a frame.
FromKernel(f) == UNION {Decode(ev) : ev \in Handle(f)}

=============================================================================

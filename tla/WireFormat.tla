----------------------------- MODULE WireFormat -----------------------------
(* Frames on the wire: the reference for the parsers of module Frames.  A    *)
(* frame is described by its headers and laid out as the protocols           *)
(* prescribe:                                                                *)
(*                                                                           *)
(*     [link, tags, family, words, exts, proto, later, src, dst, doff, seq,  *)
(*      flags, payload, pad]                                                 *)
(*                                                                           *)
(* words and doff are the length fields of an IPv4 and of a TCP header, exts *)
(* is the chain of IPv6 extension headers, later says that the frame is a    *)
(* fragment other than the first, and pad is what Ethernet adds at the end.  *)
(* A header is laid out as a set of fields <<offset, value>>.                *)
EXTENDS Frames, Functions, Sequences

Sport     == 11
Dport     == 12
AckNo     == 22
Window    == 23
Ece       == 64                     \* a flag that no detector reads

LinkLen(w) ==
    CASE w.link = "EN10MB" -> 14 + 4 * w.tags
      [] w.link = "LINUX_SLL" -> 16
      [] w.link = "RAW" -> 0
      [] w.link = "NULL" -> 4

ExtStart(w, i) == LinkLen(w) + 40 + SumFunctionOnSet([j \in DOMAIN w.exts |-> w.exts[j].len], 1 .. i - 1)

\* The bytes of a header, which has 5 words even if its length field says less.
HeaderLen(words) == 4 * (IF words < 5 THEN 5 ELSE words)

TransportStart(w) ==
    IF w.family = 4 THEN LinkLen(w) + HeaderLen(w.words) ELSE ExtStart(w, Len(w.exts) + 1)

\* A later fragment goes on with the payload, without a transport header.
TransportLen(w) == IF w.later THEN 0 ELSE IF w.proto = TCP THEN HeaderLen(w.doff) ELSE 8
FullLen(w)      == TransportStart(w) + TransportLen(w) + w.payload + w.pad

\* Extension headers as RFC 8200 and RFC 4302 have them: multiples of 8 bytes, a
\* fragment header of 8 bytes, AH in multiples of 4.
IsExtension(e) ==
    /\ e.len \in Nat /\ e.len >= 8
    /\ \/ e.type = Fragment /\ e.len = 8
       \/ e.type = AH /\ e.len % 4 = 0
       \/ e.type \in Options \ {AH} /\ e.len % 8 = 0

\* The frames that a sender may put on the wire, the correct and others: the
\* length fields of IPv4 and TCP may say anything.
IsFrame(w) ==
    /\ w.link \in {"EN10MB", "LINUX_SLL", "RAW", "NULL"} /\ w.tags \in Nat
    /\ w.family \in {4, 6} /\ w.exts \in Seq(Range(w.exts))
    /\ w.family = 4 => w.words \in 0 .. 15 /\ w.exts = <<>>
    /\ \A i \in DOMAIN w.exts : IsExtension(w.exts[i])
    /\ w.proto \in 0 .. 255 \ (Options \cup {Fragment})
    /\ w.proto = TCP => w.doff \in 0 .. 15
    /\ w.later \in BOOLEAN
    /\ w.later /\ w.family = 6 => w.exts # <<>> /\ w.exts[Len(w.exts)].type = Fragment
    /\ w.src \in Nat /\ w.dst \in Nat /\ w.seq \in Nat /\ w.flags \in 0 .. 63
    /\ w.payload \in Nat /\ w.pad \in Nat

\* The length fields of a correct sender.
HonestLengths(w) == (w.family = 4 => w.words >= 5) /\ (w.proto = TCP => w.doff >= 5)

EtherType(w) == IF w.family = 4 THEN EthIp ELSE EthIp6

\* The tags of a frame alternate between QinQ and VLAN, the outer one first.
LinkFields(w) ==
    CASE w.link = "EN10MB" ->
           {<<12 + 4 * i, IF i = w.tags THEN EtherType(w) ELSE IF i % 2 = 0 THEN 34984 ELSE 33024>>
              : i \in 0 .. w.tags}
      [] w.link = "LINUX_SLL" -> {<<14, EtherType(w)>>}
      [] OTHER -> {}

Ipv4Fields(w, l3) ==
    {<<l3, 64 + w.words>>, <<l3 + 2, FullLen(w) - w.pad - l3>>, <<l3 + 9, w.proto>>,
     <<l3 + 12, w.src>>, <<l3 + 16, w.dst>>}

\* Lengths in units of 8 bytes after the first 8; AH in units of 4 bytes after
\* the first 8; a fragment header has none.
Units(e) == CASE e.type = AH -> e.len \div 4 - 2
              [] e.type = Fragment -> 0
              [] OTHER -> e.len \div 8 - 1

\* The header behind i extension headers.
NextType(w, i) == IF i < Len(w.exts) THEN w.exts[i + 1].type ELSE w.proto

Ipv6Fields(w, l3) ==
    {<<l3, 96>>, <<l3 + 4, FullLen(w) - w.pad - l3 - 40>>, <<l3 + 6, NextType(w, 0)>>,
     <<l3 + 8, w.src>>, <<l3 + 24, w.dst>>}
      \cup {<<ExtStart(w, i), NextType(w, i)>> : i \in DOMAIN w.exts}
      \cup {<<ExtStart(w, i) + 1, Units(w.exts[i])>> : i \in DOMAIN w.exts}

TransportFields(w, l4) ==
    IF w.later THEN {}
    ELSE {<<l4, Sport>>, <<l4 + 2, Dport>>}
           \cup (IF w.proto = TCP
                 THEN {<<l4 + 4, w.seq>>, <<l4 + 8, AckNo>>, <<l4 + 12, 16 * w.doff>>,
                       <<l4 + 13, Ece + w.flags>>, <<l4 + 14, Window>>}
                 ELSE {<<l4 + 4, 8 + w.payload>>})

Fields(w) ==
    LinkFields(w)
      \cup (IF w.family = 4 THEN Ipv4Fields(w, LinkLen(w)) ELSE Ipv6Fields(w, LinkLen(w)))
      \cup TransportFields(w, TransportStart(w))

\* The first n bytes of a frame.
Captured(w, n) ==
    LET fields == Fields(w)
    IN  [len |-> n,
         at  |-> [off \in {x[1] : x \in fields} |-> (CHOOSE x \in fields : x[1] = off)[2]]]

Address(w, n) == IF w.family = 4 THEN n ELSE V6(n)

\* The packet that a frame of TCP or UDP carries, unless it is a later fragment.
Sent(w) ==
    LET from == [ip |-> Address(w, w.src), port |-> Sport]
        to   == [ip |-> Address(w, w.dst), port |-> Dport]
    IN  IF w.proto = TCP
        THEN Build(from, to, "Tcp", FlagsOf(w.flags), w.seq, AckNo, Window, w.payload)
        ELSE Build(from, to, "Udp", {}, 0, 0, 0, w.payload)

=============================================================================

---------------------------- MODULE FrameCapture ----------------------------
(* Frames captured up to some length, as both parsers see them, and the pods *)
(* that their packets are attributed to.                                     *)
EXTENDS WireFormat, Attribution, FiniteSets

CONSTANTS
    Wires,      \* the frames
    CidrSets    \* configurations of the pod CIDRs

\* An address of a frame has the width of its family.
Fits(w, n) == n < 2^(IF w.family = 4 THEN V4Bits ELSE V6Bits)

ASSUME FrameCaptureAssumption ==
    /\ \A w \in Wires : IsFrame(w) /\ Fits(w, w.src) /\ Fits(w, w.dst)
    /\ \A cidrs \in CidrSets : \A c \in cidrs :
          c.net \in 0 .. 2^V4Bits + 2^V6Bits - 1 /\ c.prefix \in Nat

VARIABLES
    wire,       \* the frame
    snap,       \* how many of its bytes were captured
    seen,       \* what parse_frame makes of them
    event       \* what the kernel program and decode make of them

vars == <<wire, snap, seen, event>>

-----------------------------------------------------------------------------

Init ==
    /\ wire \in Wires /\ snap = 0
    /\ seen = ParseFrame(wire.link, Captured(wire, 0))
    /\ event = {}

\* The same frame, captured to a greater length.
CaptureMore ==
    /\ snap < FullLen(wire)
    /\ snap' = snap + 1
    /\ seen' = ParseFrame(wire.link, Captured(wire, snap'))
    /\ event' = IF wire.link = "EN10MB" THEN FromKernel(Captured(wire, snap')) ELSE {}
    /\ UNCHANGED wire

Spec == Init /\ [][CaptureMore]_vars

-----------------------------------------------------------------------------
(* Properties.                                                               *)

Header(p) == [p EXCEPT !.payload_len = 0]

\* The packet that was sent, perhaps with less of its payload.
IsSent(p) ==
    /\ wire.proto \in {TCP, UDP}
    /\ Header(p) = Header(Sent(wire)) /\ p.payload_len <= Sent(wire).payload_len

HasAuth == \E i \in DOMAIN wire.exts : wire.exts[i].type = AH

(* A parser finds the packet that was sent or nothing: wherever the capture  *)
(* cuts the frame off, and whatever tags, options and extension headers it   *)
(* has, a field is never read from another place and padding is never taken  *)
(* for payload.  parse_frame also refuses IPv4 and TCP headers whose length  *)
(* field is too small (parse.rs:93, 175); the kernel program does not look   *)
(* (l4scope.bpf.c:79, 120), so for it the lengths have to be honest.  Two    *)
(* kinds of frames are outside of the property, because they are misread:    *)
(* those with an AH, by parse_frame (parse.rs:131), and fragments other than *)
(* the first, whose payload both parsers take for a transport header.        *)
NeverMisreads ==
    ~ wire.later =>
        /\ ~ HasAuth => \A p \in seen : HonestLengths(wire) /\ IsSent(p)
        /\ HonestLengths(wire) => \A p \in event : IsSent(p)

\* The packet is found once its headers are captured, and all of it at the end.
Found ==
    /\ snap >= TransportStart(wire) + (IF wire.proto = TCP THEN 20 ELSE 8) => seen # {}
    /\ snap = FullLen(wire) => seen = {Sent(wire)}

\* TCP or UDP within the reach of parse_frame's walks over tags and extension headers.
WithinReach ==
    /\ wire.proto \in {TCP, UDP} /\ ~ wire.later /\ HonestLengths(wire)
    /\ wire.tags <= 2 /\ Len(wire.exts) <= 8

(* Once the headers are captured the packet is found, with its payload       *)
(* length when the frame is complete, through up to two tags and any chain   *)
(* of up to eight extension headers other than AH (parse.rs:45-152).         *)
HeadersSuffice == WithinReach /\ ~ HasAuth => Found

(* The parity contract (lib.rs:3-7) as far as the kernel program goes, for   *)
(* frames with honest header lengths that are not later fragments: what it   *)
(* reports of a complete frame is what parse_frame reports, and on Ethernet  *)
(* without tags and extension headers it reports every packet that           *)
(* parse_frame does (l4scope.bpf.c:103-141).  Of a header whose length field *)
(* is too small the kernel program reports a packet, which parse_frame       *)
(* refuses: there the two differ.                                            *)
BackendsAgree ==
    ~ wire.later /\ HonestLengths(wire) =>
        /\ event # {} => seen # {}
        /\ event # {} /\ snap = FullLen(wire) => event = seen
        /\ seen # {} /\ wire.link = "EN10MB" /\ wire.tags = 0 /\ wire.exts = <<>> => event # {}

\* The first prefix bits of two addresses of a family agree.
SamePrefix(a, b, prefix) ==
    \A i \in 0 .. prefix - 1 :
        (Bits(a) \div 2^(Width(a) - 1 - i)) % 2 = (Bits(b) \div 2^(Width(a) - 1 - i)) % 2

InPodNetwork(cidrs, ip) ==
    \E c \in cidrs : IsV4(c.net) = IsV4(ip) /\ c.prefix \in 0 .. Width(ip) /\ SamePrefix(c.net, ip, c.prefix)

(* A packet is attributed to a pod exactly when one of its addresses lies in *)
(* a pod network, and then to such an address: to its source or destination  *)
(* whichever way it travels, never across address families, for every prefix *)
(* length from nothing to the whole address; this holds of every packet that *)
(* parse_frame yields, also of those that it misreads (attribution.rs:39-71).*)
PodIsLocalEndpoint ==
    \A p \in seen, cidrs \in CidrSets :
        LET local == {ip \in {Source(p).ip, Destination(p).ip} : InPodNetwork(cidrs, ip)}
        IN  LocalPodIp(cidrs, p.key) = (IF Cardinality(local) < 2 THEN local ELSE {p.key.low.ip})

-----------------------------------------------------------------------------
(* A property that a comment states and that the parser lacks.               *)

(* parse.rs:128-132 skips authentication headers by their own length, so the *)
(* packet behind one is found as it is behind the others.                    *)
AuthHeaderSkipped == WithinReach /\ HasAuth => Found

=============================================================================

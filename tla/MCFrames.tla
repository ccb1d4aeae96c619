------------------------------ MODULE MCFrames ------------------------------
(* TLC instances of FrameCapture.                                            *)
EXTENDS FrameCapture

CONSTANT Extensions     \* the chains of IPv6 extension headers

Links == {[link |-> "EN10MB", tags |-> n] : n \in 0 .. 3}
           \cup [link : {"LINUX_SLL", "RAW", "NULL"}, tags : {0}]

\* Plain, with IPv4 options or a length field that is too small, or with a chain
\* of IPv6 extension headers.
Networks == [family : {4}, words : {3, 4, 5, 6}, exts : {<<>>}]
              \cup [family : {6}, words : {0}, exts : Extensions]

Transports == {[proto |-> TCP, doff |-> d] : d \in {0, 4, 5, 6}} \cup {[proto |-> UDP, doff |-> 0]}
                \cup {[proto |-> 1, doff |-> 0]}

Plain == [link |-> "EN10MB", tags |-> 0]

Frame(l, n, t, src, dst, payload, pad) ==
    [link |-> l.link, tags |-> l.tags, family |-> n.family, words |-> n.words, exts |-> n.exts,
     proto |-> t.proto, doff |-> t.doff, later |-> FALSE, seq |-> 21, flags |-> 18,
     src |-> src, dst |-> dst, payload |-> payload, pad |-> pad]

Opts(len) == [type |-> 0, len |-> len]
Frag      == [type |-> Fragment, len |-> 8]
Auth(len) == [type |-> AH, len |-> len]

LongChains == {[i \in 1 .. n |-> Opts(8)] : n \in 8 .. 9}

\* Every combination of headers; plain frames with every pair of addresses, with
\* chains of extension headers at the limit of the walk, and later fragments.
MCWires ==
    {Frame(l, n, t, 9, 6, len, 2) : l \in Links, n \in Networks, t \in Transports, len \in {0, 3}}
      \cup {Frame(Plain, n, [proto |-> UDP, doff |-> 0], a, b, 0, 0)
              : n \in {m \in Networks : m.words \in {0, 5} /\ m.exts = <<>>}, a \in 0 .. 7, b \in 0 .. 7}
      \cup {Frame(Plain, [family |-> 6, words |-> 0, exts |-> c], t, 9, 6, 3, 0)
              : c \in LongChains, t \in Transports}
      \cup {[Frame(Plain, n, t, 9, 6, 24, 2) EXCEPT !.later = TRUE]
              : n \in {m \in Networks : m.family = 6 => m.exts # <<>> /\ m.exts[Len(m.exts)].type = Fragment},
                t \in Transports}

AuthExtensions == {<<Auth(12)>>, <<Opts(8), Auth(24)>>}

MCExtensions ==
    {<<>>, <<Opts(8)>>, <<Opts(16)>>, <<Frag>>, <<Opts(16), Frag>>, <<Frag, Opts(8), Opts(16)>>}
      \cup AuthExtensions

Cidr(net, prefix) == [net |-> net, prefix |-> prefix]

MCCidrSets ==
    {{}, {Cidr(5, 2)}, {Cidr(5, 0)}, {Cidr(6, 4)}, {Cidr(6, 3), Cidr(0, 9)},
     {Cidr(V6(5), 3)}, {Cidr(V6(9), 5), Cidr(1, 4)}, {Cidr(V6(0), 0)}}

=============================================================================

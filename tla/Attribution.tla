---------------------------- MODULE Attribution -----------------------------
(* PodMatcher of l4scope-export/src/attribution.rs: the endpoint of a flow   *)
(* that lies in one of the node's pod CIDRs.  A CIDR is [net, prefix]; the   *)
(* entries that do not parse are already left out.                           *)
EXTENDS Frames

CONSTANT V6Bits        \* width of an IPv6 address: 128 in the code

ASSUME AttributionAssumption == V6Bits \in Nat

IsV4(ip)  == ip < 2^V4Bits
Width(ip) == IF IsV4(ip) THEN V4Bits ELSE V6Bits
Bits(ip)  == IF IsV4(ip) THEN ip ELSE ip - 2^V4Bits

\* n & (MAX << (width - prefix)), where a shift by the whole width is avoided.
Masked(n, prefix, width) ==
    IF prefix = 0 THEN 0 ELSE (n \div 2^(width - prefix)) * 2^(width - prefix)

CidrContainsAnyFamily(net, prefix, ip) ==     \* mutant: the families are not compared
    /\ prefix <= Width(ip)
    /\ Masked(Bits(net), prefix, Width(ip)) = Masked(Bits(ip), prefix, Width(ip))

CidrContains(net, prefix, ip) ==
    /\ IsV4(net) = IsV4(ip)
    /\ prefix <= Width(ip)
    /\ Masked(Bits(net), prefix, Width(ip)) = Masked(Bits(ip), prefix, Width(ip))

Contains(cidrs, ip) == \E c \in cidrs : CidrContains(c.net, c.prefix, ip)

\* The lower endpoint is asked first.
LocalPodIp(cidrs, key) ==
    IF Contains(cidrs, key.low.ip) THEN {key.low.ip}
    ELSE IF Contains(cidrs, key.high.ip) THEN {key.high.ip} ELSE {}

=============================================================================

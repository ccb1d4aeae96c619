----------------------------- MODULE MCHandshake ----------------------------
(* TLC instances of Engine for handshakes: clients that open, lose, refuse,  *)
(* complete and reuse connections to one server.                             *)
EXTENDS Engine

CONSTANTS
    MaxRate,       \* bound on a per-second bucket
    MaxDupAcks     \* bound on a duplicate-ACK count

Server  == [ip |-> 1, port |-> 1]
Client1 == [ip |-> 2, port |-> 5]
Client2 == [ip |-> 3, port |-> 5]

\* The segments of a handshake between a client and the server, whose own
\* sequence numbers start at the end of their space.
Handshake(c) ==
    {Build(c, Server, "Tcp", {"SYN"}, 0, 0, 1, 0),
     Build(Server, c, "Tcp", {"SYN", "ACK"}, SeqSpace - 1, 1, 1, 0),
     Build(c, Server, "Tcp", {"ACK"}, 1, 0, 1, 0),
     Build(Server, c, "Tcp", {"RST"}, 0, 0, 1, 0),
     Build(c, Server, "Tcp", {"FIN", "ACK"}, 1, 0, 1, 0)}

\* A second client that is left waiting.
TwoClients ==
    Handshake(Client1) \cup {Build(Client2, Server, "Tcp", {"SYN"}, 0, 0, 1, 0)}

WholeSeconds == 1 .. 4

Bounded ==
    /\ rst_rate.buckets[0] <= MaxRate
    /\ new_flow_rate.buckets[0] <= MaxRate
    /\ \A k \in DOMAIN flows, i \in Direction : flows[k].dup_ack_count[i] <= MaxDupAcks

MCNext == Next /\ Bounded'
MCSpec == Init /\ [][MCNext]_vars

=============================================================================

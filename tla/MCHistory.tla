------------------------------ MODULE MCHistory -----------------------------
(* TLC instances of EngineHistory: a handful of scenes, each a small set of  *)
(* packets about one matter.  A run plays some of them side by side.         *)
EXTENDS EngineHistory

CONSTANTS
    Scenes,        \* the scenes that are played, by name
    MaxSegments    \* bound on the data segments of a flow

Server  == [ip |-> 1, port |-> 1]
Client1 == [ip |-> 2, port |-> 5]
Client2 == [ip |-> 3, port |-> 5]
HighSrv == [ip |-> 1, port |-> 8]     \* a server above its client's port

Tcp(src, dst, flags, seq, ack, window, len) ==
    Build(src, dst, "Tcp", flags, seq, ack, window, len)

\* Connections that open and are refused, and one UDP conversation.
AlertPackets ==
    {Tcp(Client1, Server, {"SYN"}, 0, 0, 1, 0),
     Tcp(Server, Client1, {"RST"}, 0, 0, 1, 0),
     Build(Client2, Server, "Udp", {}, 0, 0, 0, 1)}

\* One connection: handshake, then ACKs and windows in both directions.
StallPackets ==
    {Tcp(Client1, Server, {"SYN"}, 0, 0, 1, 0),
     Tcp(Server, Client1, {"SYN", "ACK"}, 0, 1, 1, 0),
     Tcp(Client1, Server, {"ACK"}, 1, 1, 1, 0),
     Tcp(Client1, Server, {"ACK"}, 1, 2, 0, 0),
     Tcp(Server, Client1, {"ACK"}, 1, 1, 0, 0),
     Tcp(Server, Client1, {"ACK"}, 1, 1, 1, 1),
     Tcp(Client1, Server, {"FIN", "ACK"}, 1, 1, 0, 0)}

\* Handshakes on one tuple towards a server whose port is above the client's:
\* opened, refused and opened again, from one side or from both at once.
OpenPackets ==
    {Tcp(Client1, HighSrv, {"SYN"}, 0, 0, 1, 0),
     Tcp(HighSrv, Client1, {"SYN"}, 0, 0, 1, 0),
     Tcp(HighSrv, Client1, {"SYN", "ACK"}, 0, 1, 1, 0),
     Tcp(Client1, HighSrv, {"ACK"}, 1, 1, 1, 0),
     Tcp(HighSrv, Client1, {"RST"}, 1, 0, 1, 0)}

\* Two connections in turn on one tuple, with data from the server.
ReusePackets ==
    {Tcp(Client1, HighSrv, {"SYN"}, 0, 0, 1, 0),
     Tcp(Client1, HighSrv, {"SYN"}, 4, 0, 1, 0),
     Tcp(HighSrv, Client1, {"SYN", "ACK"}, 0, 1, 1, 0),
     Tcp(HighSrv, Client1, {"SYN", "ACK"}, 0, 5, 1, 0),
     Tcp(Client1, HighSrv, {"ACK"}, 1, 1, 1, 0),
     Tcp(HighSrv, Client1, {"ACK"}, 1, 1, 1, 1),
     Tcp(HighSrv, Client1, {"RST"}, 1, 0, 1, 0)}

\* A scene is what one exploration draws on: packets, times, their disorder, and
\* the bounds on a per-second bucket and on a duplicate-ACK count.
Scene(packets, times, skew, rate, dups) ==
    [packets |-> packets, times |-> times, skew |-> skew, rate |-> rate, dups |-> dups]

AllScenes ==
    [alerts  |-> Scene(AlertPackets, 1 .. 4, 1, 2, 0),
     stalls  |-> Scene(StallPackets, {1}, 0, 1, 3),
     opens   |-> Scene(OpenPackets, 1 .. 4, 0, 1, 0),
     reuse   |-> Scene(ReusePackets, 1 .. 6, 0, 2, 1)]

MCPackets == AlertPackets \cup StallPackets \cup OpenPackets \cup ReusePackets
MCTimes   == 1 .. 6

VARIABLE scene     \* the name of the scene that is played; it never changes

mcVars == <<allVars, scene>>

Bounded ==
    LET sc == AllScenes[scene]
    IN  /\ rst_rate.buckets[0] <= sc.rate
        /\ new_flow_rate.buckets[0] <= sc.rate
        /\ \A k \in DOMAIN flows :
             /\ \A i \in Direction : flows[k].dup_ack_count[i] <= sc.dups
             /\ flows[k].data_segments <= MaxSegments

InScene(now) == now + AllScenes[scene].skew >= clock

MCNext ==
    /\ \/ \E pkt \in AllScenes[scene].packets, now \in AllScenes[scene].times :
            InScene(now) /\ HProcess(pkt, now)
       \/ \E now \in AllScenes[scene].times : InScene(now) /\ HSweep(now)
    /\ UNCHANGED scene
    /\ Bounded'

MCInit == scene \in Scenes /\ HInit

MCSpec == MCInit /\ [][MCNext]_mcVars

=============================================================================

------------------------------ MODULE MCAgent -------------------------------
(* TLC instances of Agent: one pod, one event of the pod and one of none.    *)
(* Pushes, the event log and scrapes each have a setup of their own; two     *)
(* more have pushes and scrapes together.                                    *)
EXTENDS Agent

MCPods == {"pod"}

OfPod  == [kind |-> "Retransmission", severity |-> "Warning", pod |-> {"pod"}]
OfNone == [kind |-> "Retransmission", severity |-> "Warning", pod |-> {}]

MCOutcomes == {<<>>, <<OfPod, OfNone>>}

Setup(sinks, clients, maxPackets, maxPushes) ==
    [sinks |-> sinks, clients |-> clients, packets |-> maxPackets, pushes |-> maxPushes]

MCSetups ==
    {Setup({"otlp"}, {}, 1, 2), Setup({"json"}, {}, 4, 0), Setup({"prometheus"}, {"a", "b"}, 1, 0),
     Setup({"otlp", "prometheus"}, {"a"}, 1, 0), Setup({"otlp", "prometheus"}, {"a"}, 0, 1)}

BareSetups == {Setup({}, {}, 1, 0)}

=============================================================================

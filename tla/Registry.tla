------------------------------ MODULE Registry ------------------------------
(* The metrics registry of l4scope-export/src/metrics.rs as operators over   *)
(* the record that its mutex guards, with the two documents made from it:    *)
(* the Prometheus page and the OTLP body (build_body in otlp.rs).            *)
(*                                                                           *)
(* A map of counters is a bag: a key is absent until its first increment, as *)
(* in the BTreeMap.  An optional pod is a set with at most one member.  The  *)
(* four gauges are always set together from one EngineStats and are kept as  *)
(* one value.  Of an L4Event only kind, severity and pod are looked at.      *)
EXTENDS Integers, Bags, FiniteSetsExt

NewMetrics ==
    [packets_total    |-> 0,
     events_total     |-> 0,
     event_counts     |-> EmptyBag,     \* <<kind, severity>>
     pod_event_counts |-> EmptyBag,     \* <<pod, kind, severity>>
     pod_packets      |-> EmptyBag,     \* pod
     gauges           |-> 0]

CountFor(bag, keys) == bag (+) SetToBag(keys)

RecordPacket(m, pod) ==
    [m EXCEPT !.packets_total = @ + 1,
              !.pod_packets = CountFor(@, pod)]

RecordEventOncePerPod(m, ev) ==     \* mutant: a pod's event is not a node's event
    [m EXCEPT !.events_total = @ + 1,
              !.event_counts = IF ev.pod = {} THEN CountFor(@, {<<ev.kind, ev.severity>>}) ELSE @,
              !.pod_event_counts = CountFor(@, {<<p, ev.kind, ev.severity>> : p \in ev.pod})]

\* Node-level counters always move; pod-level ones when the flow has a pod.
RecordEvent(m, ev) ==
    [m EXCEPT !.events_total = @ + 1,
              !.event_counts = CountFor(@, {<<ev.kind, ev.severity>>}),
              !.pod_event_counts = CountFor(@, {<<p, ev.kind, ev.severity>> : p \in ev.pod})]

SetGauges(m, stats) == [m EXCEPT !.gauges = stats]

\* The page shows pod packets only in the section of the pod events.
RenderPrometheus(m) ==
    [m EXCEPT !.pod_packets = IF m.pod_event_counts = EmptyBag THEN EmptyBag ELSE @]

\* What a POST carries.  The body has no events_total: its reader adds up the
\* l4scope.events points.
BuildBody(m, start, now) ==
    [packets          |-> m.packets_total,
     events           |-> m.event_counts,
     pod_events       |-> m.pod_event_counts,
     pod_packets      |-> m.pod_packets,
     gauges           |-> m.gauges,
     start            |-> start,
     now              |-> now]

-----------------------------------------------------------------------------
\* The increments of some counters of a bag, and of all of them.
TotalOf(bag, keys) == MapThenSumSet(LAMBDA k : bag[k], keys)

Total(bag) == TotalOf(bag, DOMAIN bag)

\* The counters of pods for one <<kind, severity>>.
OfKind(pod_events, ks) == {x \in DOMAIN pod_events : <<x[2], x[3]>> = ks}

\* The series of one document fit together: the total is the sum over kinds,
\* and pods never account for more than the node.
Coherent(m) ==
    /\ m.events_total = Total(m.event_counts)
    /\ \A x \in DOMAIN m.pod_event_counts :
          /\ <<x[2], x[3]>> \in DOMAIN m.event_counts
          /\ TotalOf(m.pod_event_counts, OfKind(m.pod_event_counts, <<x[2], x[3]>>))
                <= m.event_counts[<<x[2], x[3]>>]
    /\ Total(m.pod_packets) <= m.packets_total

=============================================================================

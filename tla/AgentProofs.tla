---------------------------- MODULE AgentProofs -----------------------------
(* Proofs about the agent and its threads, for every set of sinks, clients,  *)
(* pods and events, any number of packets and pushes, and every period of    *)
(* the gauges.                                                               *)
EXTENDS Agent, SumProofs

-----------------------------------------------------------------------------
(* Bags of counters.                                                         *)

FiniteBag(b) == IsABag(b) /\ IsFiniteSet(DOMAIN b)

\* One more copy of an element.
LEMMA CountForFacts ==
    ASSUME NEW b, FiniteBag(b), NEW x
    PROVE  LET c == CountFor(b, {x})
           IN  /\ FiniteBag(c) /\ DOMAIN c = DOMAIN b \cup {x} /\ b \sqsubseteq c
               /\ c[x] = IF x \in DOMAIN b THEN b[x] + 1 ELSE 1
               /\ \A e \in DOMAIN b : e # x => c[e] = b[e]
               /\ \A e \in DOMAIN b : b[e] \in Nat /\ b[e] > 0
<1> DEFINE c == CountFor(b, {x})
<1>1. \A e \in DOMAIN b : b[e] \in Nat /\ b[e] > 0
    BY DEF FiniteBag, IsABag
<1>2. DOMAIN c = DOMAIN b \cup {x}
    BY DEF CountFor, SetToBag, (+)
<1>3. /\ c[x] = IF x \in DOMAIN b THEN b[x] + 1 ELSE 1
      /\ \A e \in DOMAIN b : e # x => c[e] = b[e]
    BY <1>1 DEF CountFor, SetToBag, (+)
<1>4. IsFiniteSet(DOMAIN c)
  <2>1. IsFiniteSet(DOMAIN b \cup {x})
      BY FS_AddElement DEF FiniteBag
  <2> HIDE DEF c
  <2> QED BY <1>2, <2>1
<1>5. c = [e \in DOMAIN c |-> c[e]]
    BY DEF CountFor, SetToBag, (+)
<1> HIDE DEF c
<1>6. \A e \in DOMAIN c : c[e] \in Nat /\ c[e] > 0
    BY <1>1, <1>2, <1>3
<1>7. IsABag(c)
    BY <1>5, <1>6 DEF IsABag
<1>8. b \sqsubseteq c
    BY <1>1, <1>2, <1>3 DEF \sqsubseteq
<1> QED BY <1>1, <1>2, <1>3, <1>4, <1>7, <1>8 DEF FiniteBag, c

\* Counting for no pod.
LEMMA CountForNone ==
    ASSUME NEW b, FiniteBag(b)
    PROVE  CountFor(b, {}) = b
<1>1. b = [e \in DOMAIN b |-> b[e]] /\ \A e \in DOMAIN b : b[e] \in Nat
    BY DEF FiniteBag, IsABag
<1>2. CountFor(b, {}) = [e \in DOMAIN b |-> b[e]]
    BY <1>1 DEF CountFor, SetToBag, (+)
<1> QED BY <1>1, <1>2

\* Sums over the counters.
LEMMA TotalIsSum == \A b, K : TotalOf(b, K) = SumOver(b, K)
BY DEF TotalOf, SumOver

\* A sum of some counters is a natural number, over finitely many keys.
LEMMA TotalOfFacts ==
    ASSUME NEW b, FiniteBag(b), NEW K, K \subseteq DOMAIN b
    PROVE  TotalOf(b, K) \in Nat /\ IsFiniteSet(K)
<1>1. K \in SUBSET (DOMAIN b) /\ IsFiniteSet(DOMAIN b)
    BY DEF FiniteBag
<1>2. IsFiniteSet(K)
    BY <1>1, FS_Subset
<1>3. \A e \in K : b[e] \in Nat
    BY DEF FiniteBag, IsABag
<1>4. SumOver(b, K) \in Nat
    BY <1>2, <1>3, SumType
<1> QED BY <1>2, <1>4, TotalIsSum

\* One increment of x raises every sum that takes x in by one.
LEMMA TotalOfAdd ==
    ASSUME NEW b, FiniteBag(b), NEW x, NEW K, K \subseteq DOMAIN b, x \in DOMAIN b => x \in K
    PROVE  TotalOf(CountFor(b, {x}), K \cup {x}) = TotalOf(b, K) + 1
<1> DEFINE c == CountFor(b, {x})
<1>1. /\ DOMAIN c = DOMAIN b \cup {x}
      /\ c[x] = IF x \in DOMAIN b THEN b[x] + 1 ELSE 1
      /\ \A e \in DOMAIN b : e # x => c[e] = b[e]
      /\ \A e \in DOMAIN b : b[e] \in Nat
    BY CountForFacts, ZenonT(30)
<1> HIDE DEF c
<1>2. IsFiniteSet(K) /\ SumOver(b, K) = TotalOf(b, K) /\ TotalOf(b, K) \in Nat
    BY TotalOfFacts, TotalIsSum
<1>3. SumOver(c, K \cup {x}) = TotalOf(c, K \cup {x})
    BY TotalIsSum
<1>4. CASE x \in K
  <2>1. K \cup {x} = K
      BY <1>4
  <2>2. \A e \in K : b[e] \in Nat /\ c[e] \in Nat
      BY <1>1, <1>4
  <2>3. \A e \in K \ {x} : c[e] = b[e]
      BY <1>1
  <2>4. SumOver(c, K) = SumOver(b, K) + c[x] - b[x]
      BY <1>2, <1>4, <2>2, <2>3, SumReplace
  <2>5. c[x] = b[x] + 1 /\ b[x] \in Nat
      BY <1>1, <1>4
  <2>6. SumOver(c, K) = SumOver(b, K) + 1
      BY <1>2, <2>4, <2>5
  <2> QED BY <1>2, <1>3, <2>1, <2>6 DEF c
<1>5. CASE x \notin K
  <2>1. \A e \in K \cup {x} : c[e] \in Nat
      BY <1>1, <1>5
  <2>2. SumOver(c, K \cup {x}) = c[x] + SumOver(c, K)
      BY <1>2, <1>5, <2>1, SumAdd
  <2>3. \A e \in K : b[e] \in Nat /\ c[e] = b[e]
      BY <1>1, <1>5
  <2>4. SumOver(b, K) = SumOver(c, K)
      BY <1>2, <2>3, SumSame
  <2>5. c[x] = 1
      BY <1>1, <1>5
  <2> QED BY <1>2, <1>3, <2>2, <2>4, <2>5 DEF c
<1> QED BY <1>4, <1>5

\* One increment of x leaves every sum without x alone.
LEMMA TotalOfOthers ==
    ASSUME NEW b, FiniteBag(b), NEW x, NEW K, K \subseteq DOMAIN b, x \notin K
    PROVE  TotalOf(CountFor(b, {x}), K) = TotalOf(b, K)
<1> DEFINE c == CountFor(b, {x})
<1>1. \A e \in DOMAIN b : b[e] \in Nat /\ (e # x => c[e] = b[e])
  <2>1. \A e \in DOMAIN b : e # x => c[e] = b[e]
      BY CountForFacts
  <2>2. \A e \in DOMAIN b : b[e] \in Nat
      BY CountForFacts
  <2> HIDE DEF c
  <2> QED BY <2>1, <2>2
<1> HIDE DEF c
<1>2. IsFiniteSet(K)
    BY TotalOfFacts
<1>3. \A e \in K : b[e] \in Nat /\ c[e] = b[e]
    BY <1>1
<1>4. SumOver(b, K) = SumOver(c, K)
    BY <1>2, <1>3, SumSame
<1> QED BY <1>4, TotalIsSum DEF c

\* One more copy makes the total one larger.
LEMMA TotalAdd ==
    ASSUME NEW b, FiniteBag(b), NEW x
    PROVE  Total(CountFor(b, {x})) = Total(b) + 1 /\ Total(b) \in Nat
<1>1. TotalOf(CountFor(b, {x}), DOMAIN b \cup {x}) = TotalOf(b, DOMAIN b) + 1
    BY TotalOfAdd
<1>2. DOMAIN CountFor(b, {x}) = DOMAIN b \cup {x}
    BY CountForFacts
<1> QED BY <1>1, <1>2, TotalOfFacts DEF Total

\* A map without counters sums up to nothing.
LEMMA EmptyBagFacts == FiniteBag(EmptyBag) /\ DOMAIN EmptyBag = {} /\ Total(EmptyBag) = 0
<1>1. DOMAIN EmptyBag = {} /\ IsABag(EmptyBag)
    BY DEF EmptyBag, SetToBag, IsABag
<1>2. Total(EmptyBag) = 0
    BY <1>1, SumEmpty, TotalIsSum DEF Total
<1> QED BY <1>1, <1>2, FS_EmptySet DEF FiniteBag

\* A part of a bag, and what the parts of larger bags are.
LEMMA SubBagFacts ==
    ASSUME NEW a, NEW b, NEW c, FiniteBag(a), FiniteBag(b), FiniteBag(c)
    PROVE  a \sqsubseteq a /\ (a \sqsubseteq b /\ b \sqsubseteq c => a \sqsubseteq c)
<1>1. /\ \A e \in DOMAIN a : a[e] \in Nat
      /\ \A e \in DOMAIN b : b[e] \in Nat
      /\ \A e \in DOMAIN c : c[e] \in Nat
    BY DEF FiniteBag, IsABag
<1> QED BY <1>1 DEF \sqsubseteq

-----------------------------------------------------------------------------
(* The registry.                                                             *)

IsMetrics(m) ==
    /\ DOMAIN m = {"packets_total", "events_total", "event_counts", "pod_event_counts",
                   "pod_packets", "gauges"}
    /\ m.packets_total \in Nat /\ m.events_total \in Nat /\ m.gauges \in Nat
    /\ FiniteBag(m.event_counts) /\ FiniteBag(m.pod_event_counts) /\ FiniteBag(m.pod_packets)

\* The cumulative series of one state of the registry do not exceed another's.
NoMore(a, m) ==
    /\ a.packets_total <= m.packets_total
    /\ a.event_counts \sqsubseteq m.event_counts
    /\ a.pod_event_counts \sqsubseteq m.pod_event_counts
    /\ a.pod_packets \sqsubseteq m.pod_packets

\* "Counts no more than" is reflexive and transitive.
LEMMA NoMoreFacts ==
    ASSUME NEW a, NEW b, NEW c, IsMetrics(a), IsMetrics(b), IsMetrics(c)
    PROVE  NoMore(a, a) /\ (NoMore(a, b) /\ NoMore(b, c) => NoMore(a, c))
<1>1. /\ a.event_counts \sqsubseteq a.event_counts
      /\ a.event_counts \sqsubseteq b.event_counts /\ b.event_counts \sqsubseteq c.event_counts
            => a.event_counts \sqsubseteq c.event_counts
    BY SubBagFacts DEF IsMetrics
<1>2. /\ a.pod_event_counts \sqsubseteq a.pod_event_counts
      /\ a.pod_event_counts \sqsubseteq b.pod_event_counts
            /\ b.pod_event_counts \sqsubseteq c.pod_event_counts
            => a.pod_event_counts \sqsubseteq c.pod_event_counts
    BY SubBagFacts DEF IsMetrics
<1>3. /\ a.pod_packets \sqsubseteq a.pod_packets
      /\ a.pod_packets \sqsubseteq b.pod_packets /\ b.pod_packets \sqsubseteq c.pod_packets
            => a.pod_packets \sqsubseteq c.pod_packets
    BY SubBagFacts DEF IsMetrics
<1>4. a.packets_total \in Nat /\ b.packets_total \in Nat /\ c.packets_total \in Nat
    BY DEF IsMetrics
<1> QED BY <1>1, <1>2, <1>3, <1>4 DEF NoMore

\* The registry starts out well formed and coherent.
LEMMA NewMetricsFacts == IsMetrics(NewMetrics) /\ Coherent(NewMetrics)
<1>1. /\ NewMetrics.packets_total = 0 /\ NewMetrics.events_total = 0 /\ NewMetrics.gauges = 0
      /\ NewMetrics.event_counts = EmptyBag /\ NewMetrics.pod_event_counts = EmptyBag
      /\ NewMetrics.pod_packets = EmptyBag
      /\ DOMAIN NewMetrics = {"packets_total", "events_total", "event_counts",
                              "pod_event_counts", "pod_packets", "gauges"}
    BY DEF NewMetrics
<1> QED BY <1>1, EmptyBagFacts DEF IsMetrics, Coherent

\* record_packet (metrics.rs): for a packet of a pod, or of none.
LEMMA RecordPacketFacts ==
    ASSUME NEW m, IsMetrics(m), Coherent(m), NEW pods \in OptionalPods
    PROVE  LET n == RecordPacket(m, pods)
           IN  /\ IsMetrics(n) /\ Coherent(n) /\ NoMore(m, n)
               /\ n.packets_total = m.packets_total + 1
               /\ n.events_total = m.events_total /\ n.gauges = m.gauges
<1> DEFINE n == RecordPacket(m, pods)
           c == CountFor(m.pod_packets, pods)
<1>2. /\ n.packets_total = m.packets_total + 1 /\ n.events_total = m.events_total
      /\ n.event_counts = m.event_counts /\ n.pod_event_counts = m.pod_event_counts
      /\ n.pod_packets = c /\ n.gauges = m.gauges /\ DOMAIN n = DOMAIN m
    BY DEF RecordPacket, IsMetrics
<1> HIDE DEF n
<1>3. m.packets_total \in Nat /\ FiniteBag(m.pod_packets)
    BY DEF IsMetrics
<1>4. /\ FiniteBag(c) /\ m.pod_packets \sqsubseteq c
      /\ Total(c) \in Nat /\ Total(m.pod_packets) \in Nat /\ Total(c) <= Total(m.pod_packets) + 1
  <2>1. Total(m.pod_packets) \in Nat
      BY <1>3, TotalAdd
  <2>2. CASE pods = {}
    <3>1. c = m.pod_packets
        BY <1>3, <2>2, CountForNone
    <3> QED BY <1>3, <2>1, <3>1, SubBagFacts
  <2>3. CASE pods # {}
    <3>1. PICK p : pods = {p}
        BY <2>3 DEF OptionalPods, NoPod
    <3>2. c = CountFor(m.pod_packets, {p})
        BY <3>1
    <3> HIDE DEF c
    <3>3. FiniteBag(c) /\ m.pod_packets \sqsubseteq c
        BY <1>3, <3>2, CountForFacts
    <3>4. Total(c) = Total(m.pod_packets) + 1
        BY <1>3, <3>2, TotalAdd
    <3> QED BY <2>1, <3>3, <3>4
  <2> QED BY <2>2, <2>3
<1> HIDE DEF c
<1>5. IsMetrics(n)
    BY <1>2, <1>3, <1>4 DEF IsMetrics
<1>6. Coherent(n)
    BY <1>2, <1>3, <1>4 DEF Coherent
<1>7. NoMore(m, n)
    BY <1>2, <1>3, <1>4, SubBagFacts DEF NoMore, IsMetrics
<1> QED BY <1>2, <1>5, <1>6, <1>7 DEF n

\* The pod series of one kind, when an event of a pod is counted.
LEMMA OfKindAdds ==
    ASSUME NEW b, FiniteBag(b), NEW x, NEW ks
    PROVE  LET c == CountFor(b, {x})
           IN  TotalOf(c, OfKind(c, ks)) =
                 TotalOf(b, OfKind(b, ks)) + (IF <<x[2], x[3]>> = ks THEN 1 ELSE 0)
<1> DEFINE c == CountFor(b, {x})
           K == OfKind(b, ks)
<1>1. DOMAIN c = DOMAIN b \cup {x} /\ K \subseteq DOMAIN b
    BY CountForFacts DEF OfKind
<1>2. TotalOf(b, K) \in Nat
    BY <1>1, TotalOfFacts
<1>3. CASE <<x[2], x[3]>> = ks
  <2>1. OfKind(c, ks) = K \cup {x} /\ (x \in DOMAIN b => x \in K)
      BY <1>1, <1>3 DEF OfKind
  <2>2. TotalOf(c, K \cup {x}) = TotalOf(b, K) + 1
      BY <1>1, <2>1, TotalOfAdd
  <2> QED BY <1>3, <2>1, <2>2
<1>4. CASE <<x[2], x[3]>> # ks
  <2>1. OfKind(c, ks) = K /\ x \notin K
      BY <1>1, <1>4 DEF OfKind
  <2>2. TotalOf(c, K) = TotalOf(b, K)
      BY <1>1, <2>1, TotalOfOthers
  <2> QED BY <1>2, <1>4, <2>1, <2>2
<1> QED BY <1>3, <1>4

\* What the pods account for, when the node counted it first.
PodsWithin(pods_, node) ==
    \A x \in DOMAIN pods_ :
        /\ <<x[2], x[3]>> \in DOMAIN node
        /\ TotalOf(pods_, OfKind(pods_, <<x[2], x[3]>>)) <= node[<<x[2], x[3]>>]

\* An event of no pod counts for the node alone.
LEMMA NodeEventWithin ==
    ASSUME NEW b, FiniteBag(b), NEW a, FiniteBag(a), NEW ks, PodsWithin(b, a)
    PROVE  PodsWithin(b, CountFor(a, {ks}))
<1> DEFINE c == CountFor(a, {ks})
<1>1. /\ DOMAIN c = DOMAIN a \cup {ks}
      /\ \A k \in DOMAIN a : a[k] \in Nat /\ c[k] \in Nat /\ a[k] <= c[k]
  <2>1. /\ DOMAIN c = DOMAIN a \cup {ks}
        /\ c[ks] = IF ks \in DOMAIN a THEN a[ks] + 1 ELSE 1
        /\ \A k \in DOMAIN a : k # ks => c[k] = a[k]
        /\ \A k \in DOMAIN a : a[k] \in Nat
      BY CountForFacts
  <2> HIDE DEF c
  <2> QED BY <2>1
<1> HIDE DEF c
<1>2. ASSUME NEW x \in DOMAIN b
      PROVE  /\ <<x[2], x[3]>> \in DOMAIN c
             /\ TotalOf(b, OfKind(b, <<x[2], x[3]>>)) <= c[<<x[2], x[3]>>]
  <2> DEFINE k == <<x[2], x[3]>>
             t == TotalOf(b, OfKind(b, k))
  <2>1. k \in DOMAIN a /\ t <= a[k]
      BY DEF PodsWithin
  <2>2. t \in Nat
    <3>1. OfKind(b, k) \subseteq DOMAIN b
        BY DEF OfKind
    <3> HIDE DEF k
    <3> QED BY <3>1, TotalOfFacts
  <2> HIDE DEF k, t
  <2>3. k \in DOMAIN c /\ t <= c[k]
      BY <1>1, <2>1, <2>2
  <2> QED BY <2>3 DEF k, t
<1> QED BY <1>2 DEF PodsWithin, c

\* An event of a pod counts for the pod and for the node.
LEMMA PodEventWithin ==
    ASSUME NEW b, FiniteBag(b), NEW a, FiniteBag(a), NEW y, PodsWithin(b, a)
    PROVE  PodsWithin(CountFor(b, {y}), CountFor(a, {<<y[2], y[3]>>}))
<1> DEFINE ks == <<y[2], y[3]>>
           c == CountFor(a, {ks})
           d == CountFor(b, {y})
           Share(bag, k) == TotalOf(bag, OfKind(bag, k))
<1>1. /\ DOMAIN c = DOMAIN a \cup {ks}
      /\ c[ks] = IF ks \in DOMAIN a THEN a[ks] + 1 ELSE 1
      /\ \A k \in DOMAIN a : k # ks => c[k] = a[k]
      /\ \A k \in DOMAIN a : a[k] \in Nat
    BY CountForFacts
<1>2. DOMAIN d = DOMAIN b \cup {y}
    BY CountForFacts
<1>3. \A k : /\ Share(d, k) = Share(b, k) + (IF ks = k THEN 1 ELSE 0)
             /\ Share(b, k) \in Nat
  <2> SUFFICES ASSUME NEW k PROVE /\ Share(d, k) = Share(b, k) + (IF ks = k THEN 1 ELSE 0)
                                  /\ Share(b, k) \in Nat
      OBVIOUS
  <2>1. OfKind(b, k) \subseteq DOMAIN b
      BY DEF OfKind
  <2>2. Share(b, k) \in Nat
      BY <2>1, TotalOfFacts
  <2> QED BY <2>2, OfKindAdds
<1>4. \A k : Share(b, k) = 0 \/ (k \in DOMAIN a /\ Share(b, k) <= a[k])
  <2> SUFFICES ASSUME NEW k PROVE Share(b, k) = 0 \/ (k \in DOMAIN a /\ Share(b, k) <= a[k])
      OBVIOUS
  <2>1. CASE OfKind(b, k) = {}
      BY <2>1, SumEmpty, TotalIsSum
  <2>2. CASE OfKind(b, k) # {}
    <3>1. PICK x \in DOMAIN b : <<x[2], x[3]>> = k
        BY <2>2 DEF OfKind
    <3> QED BY <3>1 DEF PodsWithin
  <2> QED BY <2>1, <2>2
<1>5. \A x \in DOMAIN b : <<x[2], x[3]>> \in DOMAIN a
    BY DEF PodsWithin
<1> HIDE DEF c, d, Share, ks
<1>6. \A k \in DOMAIN a \cup {ks} : k \in DOMAIN c /\ Share(d, k) <= c[k]
    BY <1>1, <1>3, <1>4
<1>7. \A x \in DOMAIN d : <<x[2], x[3]>> \in DOMAIN a \cup {ks}
    BY <1>2, <1>5 DEF ks
<1> QED BY <1>6, <1>7 DEF PodsWithin, Share, c, d, ks

\* record_event (metrics.rs): for an event of a pod, or of none.
LEMMA RecordEventFacts ==
    ASSUME NEW m, IsMetrics(m), Coherent(m), NEW ev, ev.pod \in OptionalPods
    PROVE  LET n == RecordEvent(m, ev)
           IN  /\ IsMetrics(n) /\ Coherent(n) /\ NoMore(m, n)
               /\ n.events_total = m.events_total + 1
               /\ n.packets_total = m.packets_total /\ n.gauges = m.gauges
<1> DEFINE n == RecordEvent(m, ev)
           ks == <<ev.kind, ev.severity>>
           a == m.event_counts
           b == m.pod_event_counts
           c == CountFor(a, {ks})
           d == CountFor(b, {<<p, ev.kind, ev.severity>> : p \in ev.pod})
<1>1. /\ n.events_total = m.events_total + 1 /\ n.packets_total = m.packets_total
      /\ n.event_counts = c /\ n.pod_event_counts = d
      /\ n.pod_packets = m.pod_packets /\ n.gauges = m.gauges /\ DOMAIN n = DOMAIN m
    BY DEF RecordEvent, IsMetrics
<1>2. FiniteBag(a) /\ FiniteBag(b) /\ FiniteBag(m.pod_packets) /\ m.packets_total \in Nat
    BY DEF IsMetrics
<1>3. PodsWithin(b, a) /\ m.events_total = Total(a) /\ Total(m.pod_packets) <= m.packets_total
    BY DEF Coherent, PodsWithin
<1> HIDE DEF n, a, b
<1>4. FiniteBag(c) /\ a \sqsubseteq c /\ Total(c) = Total(a) + 1 /\ Total(a) \in Nat
  <2>1. FiniteBag(c) /\ a \sqsubseteq c
      BY <1>2, CountForFacts
  <2> QED BY <1>2, <2>1, TotalAdd
<1>5. FiniteBag(d) /\ b \sqsubseteq d /\ PodsWithin(d, c)
  <2>1. CASE ev.pod = {}
    <3>1. {<<p, ev.kind, ev.severity>> : p \in ev.pod} = {}
        BY <2>1
    <3>2. d = b
        BY <1>2, <3>1, CountForNone
    <3>3. PodsWithin(b, c)
        BY <1>2, <1>3, NodeEventWithin
    <3>4. b \sqsubseteq b
        BY <1>2, SubBagFacts
    <3> HIDE DEF d, c
    <3> QED BY <1>2, <3>2, <3>3, <3>4
  <2>2. CASE ev.pod # {}
    <3>1. PICK p : ev.pod = {p}
        BY <2>2 DEF OptionalPods, NoPod
    <3> DEFINE y == <<p, ev.kind, ev.severity>>
    <3>2. {<<q, ev.kind, ev.severity>> : q \in ev.pod} = {y}
        BY <3>1
    <3>3. d = CountFor(b, {y})
        BY <3>2
    <3>4. <<y[2], y[3]>> = ks
        OBVIOUS
    <3> HIDE DEF y, ks
    <3>5. PodsWithin(CountFor(b, {y}), CountFor(a, {<<y[2], y[3]>>}))
        BY <1>2, <1>3, PodEventWithin
    <3>6. PodsWithin(CountFor(b, {y}), c)
        BY <3>4, <3>5
    <3>7. FiniteBag(CountFor(b, {y})) /\ b \sqsubseteq CountFor(b, {y})
        BY <1>2, CountForFacts
    <3> HIDE DEF d, c
    <3> QED BY <3>3, <3>6, <3>7
  <2> QED BY <2>1, <2>2
<1> HIDE DEF c, d
<1>6. IsMetrics(n)
    BY <1>1, <1>2, <1>4, <1>5 DEF IsMetrics
<1>7. Coherent(n)
    BY <1>1, <1>3, <1>4, <1>5 DEF Coherent, PodsWithin
<1>8. NoMore(m, n)
  <2>1. m.pod_packets \sqsubseteq m.pod_packets
      BY <1>2, SubBagFacts
  <2> QED BY <1>1, <1>2, <1>4, <1>5, <2>1 DEF NoMore, a, b
<1> QED BY <1>1, <1>6, <1>7, <1>8 DEF n

\* update_gauges (metrics.rs) leaves the counters alone.
LEMMA SetGaugesFacts ==
    ASSUME NEW m, IsMetrics(m), Coherent(m), NEW g \in Nat
    PROVE  LET n == SetGauges(m, g)
           IN  /\ IsMetrics(n) /\ Coherent(n) /\ NoMore(m, n)
               /\ n.events_total = m.events_total
               /\ n.packets_total = m.packets_total /\ n.gauges = g
<1> DEFINE n == SetGauges(m, g)
<1>1. /\ n.events_total = m.events_total /\ n.packets_total = m.packets_total
      /\ n.event_counts = m.event_counts /\ n.pod_event_counts = m.pod_event_counts
      /\ n.pod_packets = m.pod_packets /\ n.gauges = g /\ DOMAIN n = DOMAIN m
    BY DEF SetGauges, IsMetrics
<1> HIDE DEF n
<1>2. IsMetrics(n)
    BY <1>1 DEF IsMetrics
<1>3. Coherent(n)
    BY <1>1 DEF Coherent
<1>4. NoMore(m, m)
    BY NoMoreFacts
<1>5. NoMore(m, n)
    BY <1>1, <1>4 DEF NoMore
<1> QED BY <1>1, <1>2, <1>3, <1>5 DEF n

\* A page shows a part of the registry, and stays coherent.
LEMMA RenderFacts ==
    ASSUME NEW m, IsMetrics(m), Coherent(m)
    PROVE  Coherent(RenderPrometheus(m))
<1> DEFINE n == RenderPrometheus(m)
<1>1. /\ n.events_total = m.events_total /\ n.packets_total = m.packets_total
      /\ n.event_counts = m.event_counts /\ n.pod_event_counts = m.pod_event_counts
      /\ n.pod_packets = EmptyBag \/ n.pod_packets = m.pod_packets
    BY DEF RenderPrometheus, IsMetrics
<1>2. m.packets_total \in Nat
    BY DEF IsMetrics
<1> HIDE DEF n
<1>3. Coherent(n)
    BY <1>1, <1>2, EmptyBagFacts DEF Coherent
<1> QED BY <1>3 DEF n

-----------------------------------------------------------------------------
(* The inductive invariant, in six parts.                                    *)

BeforeOtlp == {"config", "serve", "json", "otlp"}
Starting   == BeforeOtlp \cup {"open"}

\* Where the threads are, how far the main thread read and how often it called
\* the engine.
ThreadInv ==
    /\ lock \in {Free, "server"} \cup Posters
    /\ server \in {"off", "accept", "read", "render", "copy", "write"}
    /\ DOMAIN post = Posters
    /\ \A w \in Posters :
          /\ DOMAIN post[w] = {"at", "start", "snap", "body"}
          /\ post[w].at \in {"off", "asleep", "snapshot", "copy", "stamp", "send", "reply"}

ControlInv ==
    /\ pc \in {"config", "serve", "json", "otlp", "open", "next", "record", "process",
               "handle", "gauges", "sweep", "flush", "flushing", "exited"}
    /\ ended \in {"open", "end", "error"} /\ exit_code \in {"none", "SUCCESS", "FAILURE"}
    /\ packets \in Nat /\ packets <= setup.packets /\ engine \in Nat /\ engine <= packets + 1
    /\ setup \in Setups /\ pod \in OptionalPods /\ pending \in Seq(Returned)
    /\ Running <=> pc # "exited"
    /\ pc \in Starting => packets = 0 /\ engine = 0
    /\ pc \in Starting \cup {"next"} => ended = "open" /\ engine = packets
    /\ pc \in {"record", "process"} => ended = "open" /\ engine = packets - 1
    /\ pc = "sweep" => ended # "open" /\ engine = packets
    /\ pc \in {"handle", "gauges"} =>
          engine = (IF ended = "open" THEN packets ELSE packets + 1) /\ engine # 0
    /\ pc = "gauges" /\ ended = "open" => (packets % GaugeEvery) = 0
    /\ pc \in {"flush", "flushing"} => ended # "open" /\ engine = packets + 1

\* How far the gauges are behind once n packets went through the engine.
GaugesNear(n) == n - metrics.gauges <= (n % GaugeEvery)

\* What the registry, the event log and the summary agree on.
RegistryInv ==
    /\ IsMetrics(metrics) /\ Coherent(metrics) /\ Coherent(page) /\ FiniteBag(summary)
    /\ metrics.packets_total = IF pc = "record" THEN packets - 1 ELSE packets
    /\ metrics.events_total = Total(summary)
    /\ DOMAIN json = {"sink", "lines", "lost"} /\ json.lines \in Nat /\ json.lost \in Nat
    /\ json.sink = "on" => json.lines + json.lost = metrics.events_total
    /\ json.sink # "on" => json.lines = 0 /\ json.lost = 0
    /\ pc \in Starting => metrics.events_total = 0
    /\ pc \in Starting \cup {"next"} => GaugesNear(packets)
    /\ pc \in {"record", "process"} \/ (pc = "handle" /\ ended = "open") => GaugesNear(packets - 1)
    /\ pc \in {"flush", "flushing"} => metrics.gauges = engine

\* The series of a body, as the registry has them.
Series(b) ==
    [packets_total |-> b.packets, events_total |-> 0, event_counts |-> b.events,
     pod_event_counts |-> b.pod_events, pod_packets |-> b.pod_packets, gauges |-> b.gauges]

\* A body was made from an earlier state of the registry.
EarlierBody(b) ==
    /\ IsMetrics(Series(b)) /\ NoMore(Series(b), metrics)
    /\ b.start \in Nat /\ b.now \in Nat /\ b.start < wall /\ b.now < wall

EarlierSnap(s) == IsMetrics(s) /\ Coherent(s) /\ NoMore(s, metrics)

\* Snapshots and bodies come from the past of the registry.
PostInv ==
    /\ wall \in Nat /\ 0 < wall
    /\ \A w \in Posters :
          /\ post[w].start \in Nat /\ post[w].start < wall
          /\ post[w].at = "stamp" => EarlierSnap(post[w].snap)
          /\ \A b \in post[w].body :
                EarlierBody(b) /\ b.start = post[w].start /\ post[w].at = "send"
          /\ \A b, c \in post[w].body : b = c
    /\ \A b \in received : EarlierBody(b)

\* What a poster is about to send is no less than what it sent before.
OrderInv ==
    /\ \A a, b \in received :
          a.start = b.start /\ a.now <= b.now => NoMore(Series(a), Series(b))
    /\ \A w \in Posters : \A a \in received : a.start = post[w].start =>
          /\ post[w].at = "stamp" => NoMore(Series(a), post[w].snap)
          /\ \A b \in post[w].body : a.now < b.now /\ NoMore(Series(a), Series(b))

\* Everything of the run is in it.
Complete(m) ==
    m.packets_total = packets /\ Total(m.event_counts) = Total(summary) /\ m.gauges = engine

\* The main thread posts once, after everything else, under a start of its own.
FlushInv ==
    /\ pc \in BeforeOtlp => received = {} /\ \A w \in Posters : post[w].at = "off"
    /\ post["main"].at # "off" => pc = "flushing" /\ post["pusher"].start < post["main"].start
    /\ post["main"].at = "stamp" => Complete(post["main"].snap)
    /\ \A b \in post["main"].body : Complete(Series(b))
    /\ \A b \in received :
          b.start = post["pusher"].start \/ (pc \in {"flushing", "exited"} /\ Complete(Series(b)))

AgentInv == ThreadInv /\ ControlInv /\ RegistryInv /\ PostInv /\ OrderInv /\ FlushInv

\* The threads that run beside the main one, and the mutex steps of its flush.
Background == Wake \/ (\E w \in Posters : Poster(w)) \/ Server
                \/ (\E c \in setup.clients : Connect(c)) \/ Exited

\* The steps of the main thread that leave the posters alone.
Foreground ==
    LoadConfig \/ ServeMetrics \/ OpenJson \/ OpenCapture \/ NextPacket \/ CaptureEnds
    \/ CallEngine \/ EventsHandled \/ Finish \/ CountPacket \/ HandleEvent \/ UpdateGauges

\* Every step belongs to one of four groups: it is taken by another thread,
\* by the main thread alone, or it starts the pusher or the final flush.
LEMMA NextCases ==
    ASSUME Next PROVE Background \/ Foreground \/ StartOtlp \/ BeginFlush
BY DEF Next, Background, Foreground, Startup, MainLocal

\* Only the main thread writes the registry.
LEMMA BackgroundFacts ==
    ASSUME Background
    PROVE  /\ pc' = pc /\ exit_code' = exit_code /\ setup' = setup /\ ended' = ended
           /\ packets' = packets /\ pod' = pod /\ engine' = engine /\ pending' = pending
           /\ summary' = summary /\ json' = json /\ metrics' = metrics
<1>1. CASE Wake
    BY <1>1 DEF Wake, mainVars, captureVars, eventVars
<1>2. CASE \E w \in Posters : Poster(w)
  <2>1. PICK w \in Posters : Poster(w)
      BY <1>2
  <2> QED BY <2>1 DEF Poster, LockSnapshot, CopySnapshot, Stamp, Send, Return,
                      mainVars, captureVars, eventVars
<1>3. CASE Server
    BY <1>3 DEF Server, Accept, ReadRequest, LockPage, Render, WriteResponse,
                mainVars, captureVars, eventVars
<1>4. CASE \E c \in setup.clients : Connect(c)
    BY <1>4 DEF Connect, mainVars, captureVars, eventVars
<1>5. CASE Exited
    BY <1>5 DEF Exited, vars
<1> QED BY <1>1, <1>2, <1>3, <1>4, <1>5 DEF Background

\* What the main thread leaves to the other threads.
LEMMA ForegroundFacts ==
    ASSUME Foreground
    PROVE  /\ post' = post /\ wall' = wall /\ received' = received /\ page' = page
           /\ lock' = lock /\ setup' = setup
BY DEF Foreground, LoadConfig, ServeMetrics, OpenJson, OpenCapture, NextPacket, CaptureEnds,
       CallEngine, EventsHandled, Finish, CountPacket, HandleEvent, UpdateGauges,
       startVars, pushVars, serverVars, captureVars, eventVars

-----------------------------------------------------------------------------
(* Places of the threads.                                                    *)

\* Every step keeps the threads and the mutex apart.
LEMMA ThreadStep ==
    ASSUME ThreadInv, Next
    PROVE  ThreadInv'
<1>1. CASE Foreground
  <2>1. server' = server \/ server' \in {"off", "accept"}
      BY <1>1 DEF Foreground, LoadConfig, ServeMetrics, OpenJson, OpenCapture, NextPacket,
         CaptureEnds, CallEngine, EventsHandled, Finish, CountPacket, HandleEvent,
         UpdateGauges, startVars, serverVars
  <2> QED BY <1>1, <2>1, ForegroundFacts DEF ThreadInv
<1>2. CASE StartOtlp
    BY <1>2 DEF StartOtlp, ThreadInv, Posters, startVars
<1>3. CASE BeginFlush
    BY <1>3 DEF BeginFlush, ThreadInv, Posters, serverVars
<1>4. CASE Wake
    BY <1>4 DEF Wake, ThreadInv, Posters, serverVars
<1>5. CASE \E w \in Posters : Poster(w)
  <2>1. PICK w \in Posters : Poster(w)
      BY <1>5
  <2>2. CASE LockSnapshot(w)
      BY <2>2 DEF LockSnapshot, ThreadInv, serverVars
  <2>3. CASE CopySnapshot(w)
      BY <2>3 DEF CopySnapshot, ThreadInv, serverVars
  <2>4. CASE Stamp(w)
      BY <2>4 DEF Stamp, ThreadInv, serverVars
  <2>5. CASE Send(w)
      BY <2>5 DEF Send, ThreadInv, serverVars
  <2>6. CASE Return(w)
      BY <2>6 DEF Return, ThreadInv, serverVars
  <2> QED BY <2>1, <2>2, <2>3, <2>4, <2>5, <2>6 DEF Poster
<1>6. CASE Server
    BY <1>6 DEF Server, Accept, ReadRequest, LockPage, Render, WriteResponse, ThreadInv, pushVars
<1>7. CASE \E c \in setup.clients : Connect(c)
    BY <1>7 DEF Connect, ThreadInv, pushVars
<1>8. CASE Exited
    BY <1>8 DEF Exited, ThreadInv, vars
<1> QED BY <1>1, <1>2, <1>3, <1>4, <1>5, <1>6, <1>7, <1>8, NextCases DEF Background

-----------------------------------------------------------------------------
(* The main thread.                                                          *)

\* Every step keeps the stages of the main thread in order.
LEMMA ControlStep ==
    ASSUME ControlInv, Next
    PROVE  ControlInv'
<1> USE DEF ControlInv, Running, Starting, BeforeOtlp, Exit
<1>0. setup.packets \in Nat /\ Outcomes \subseteq Seq(Returned)
    BY AgentAssumption
<1>1. CASE Background
    BY <1>1, BackgroundFacts
<1>2. CASE LoadConfig \/ ServeMetrics \/ OpenJson \/ OpenCapture
    BY <1>2 DEF LoadConfig, ServeMetrics, OpenJson, OpenCapture, startVars
<1>3. CASE StartOtlp
    BY <1>3 DEF StartOtlp, startVars
<1>4. CASE NextPacket
    BY <1>0, <1>4 DEF NextPacket, eventVars
<1>5. CASE CaptureEnds
    BY <1>5 DEF CaptureEnds, eventVars
<1>6. CASE CountPacket
    BY <1>6 DEF CountPacket, eventVars, OptionalPods
<1>7. CASE CallEngine
    BY <1>0, <1>7 DEF CallEngine, captureVars
<1>8. CASE EventsHandled
    BY <1>8 DEF EventsHandled, AfterEvents, captureVars, eventVars
<1>9. CASE HandleEvent
    BY <1>9 DEF HandleEvent, captureVars
<1>10. CASE UpdateGauges
    BY <1>10 DEF UpdateGauges, captureVars, eventVars
<1>11. CASE BeginFlush
    BY <1>11 DEF BeginFlush, captureVars, eventVars
<1>12. CASE Finish
    BY <1>12 DEF Finish, captureVars, eventVars
<1> QED BY <1>1, <1>2, <1>3, <1>4, <1>5, <1>6, <1>7, <1>8, <1>9, <1>10, <1>11, <1>12, NextCases
        DEF Foreground

-----------------------------------------------------------------------------
(* The registry, the event log and the summary.                              *)

\* Multiples of the period are no closer than the period.
LEMMA PeriodsApart ==
    ASSUME NEW N \in Nat \ {0}, NEW p \in Int, NEW q \in Int, N * p - N * q < N
    PROVE  p <= q
<1> SUFFICES ASSUME p >= q + 1 PROVE FALSE
    OBVIOUS
<1>1. (p - q - 1) * N >= 0
    OBVIOUS
<1>2. (p - q - 1) * N = N * p - N * q - N
    OBVIOUS
<1> QED BY <1>1, <1>2

\* Between two refreshes the remainder grows with the packets.
LEMMA BetweenRefreshes ==
    ASSUME NEW n \in Nat, (n % GaugeEvery) # 0
    PROVE  ((n - 1) % GaugeEvery) + 1 <= (n % GaugeEvery)
<1> DEFINE N == GaugeEvery
           p == n \div N
           q == (n - 1) \div N
           r == n % N
           s == (n - 1) % N
<1>1. N \in Nat \ {0}
    BY AgentAssumption
<1> HIDE DEF N
<1>2. p \in Int /\ r \in 0 .. N - 1 /\ n = N * p + r
    BY <1>1
<1>3. q \in Int /\ s \in 0 .. N - 1 /\ n - 1 = N * q + s
    BY <1>1
<1>4. r # 0
    BY DEF N
<1> HIDE DEF p, q, r, s
<1>5. N * p \in Int /\ N * q \in Int
    BY <1>1, <1>2, <1>3
<1>6. N * p - N * q < N
    BY <1>1, <1>2, <1>3, <1>4, <1>5
<1>7. p <= q
    BY <1>1, <1>2, <1>3, <1>6, PeriodsApart
<1>8. (q - p) * N >= 0 /\ (q - p) * N = N * q - N * p
    BY <1>1, <1>2, <1>3, <1>7
<1>9. s + 1 <= r
    BY <1>1, <1>2, <1>3, <1>5, <1>8
<1> QED BY <1>9 DEF r, s, N

\* The remainders that GaugesNear compares.
LEMMA Remainders ==
    ASSUME NEW n \in Nat
    PROVE  (n % GaugeEvery) \in Nat /\ (n % GaugeEvery) < GaugeEvery
BY AgentAssumption

\* Every step keeps the registry coherent and equal to what was captured.
LEMMA RegistryStep ==
    ASSUME ControlInv, RegistryInv, Next
    PROVE  RegistryInv'
<1> USE DEF Starting, BeforeOtlp
<1>0. /\ GaugeEvery \in Nat \ {0} /\ packets \in Nat /\ engine \in Nat
      /\ metrics.packets_total \in Nat /\ metrics.events_total \in Nat /\ metrics.gauges \in Nat
    BY AgentAssumption DEF ControlInv, RegistryInv, IsMetrics
<1>1. CASE Background
  <2>1. Coherent(page')
    <3>1. CASE page' = page
        BY <3>1 DEF RegistryInv
    <3>2. CASE page' = NewMetrics
        BY <3>2, NewMetricsFacts
    <3>3. CASE page' = RenderPrometheus(metrics)
        BY <3>3, RenderFacts DEF RegistryInv
    <3>4. page' \in {page, NewMetrics, RenderPrometheus(metrics)}
      <4>1. CASE Wake
          BY <4>1 DEF Wake, serverVars
      <4>2. CASE \E w \in Posters : Poster(w)
          BY <4>2 DEF Poster, LockSnapshot, CopySnapshot, Stamp, Send, Return, serverVars
      <4>3. CASE Server
          BY <4>3 DEF Server, Accept, ReadRequest, LockPage, Render, WriteResponse
      <4>4. CASE \E c \in setup.clients : Connect(c)
          BY <4>4 DEF Connect
      <4>5. CASE Exited
          BY <4>5 DEF Exited, vars
      <4> QED BY <1>1, <4>1, <4>2, <4>3, <4>4, <4>5 DEF Background
    <3> QED BY <3>1, <3>2, <3>3, <3>4
  <2> QED BY <1>1, <2>1, BackgroundFacts DEF RegistryInv, GaugesNear
<1>2. CASE LoadConfig \/ ServeMetrics \/ OpenCapture \/ StartOtlp
    BY <1>0, <1>2 DEF LoadConfig, ServeMetrics, OpenCapture, StartOtlp, Exit, startVars,
       RegistryInv, GaugesNear
<1>3. CASE OpenJson
    BY <1>0, <1>3 DEF OpenJson, Exit, startVars, RegistryInv, GaugesNear
<1>4. CASE NextPacket
    BY <1>0, <1>4 DEF NextPacket, eventVars, serverVars, RegistryInv, GaugesNear
<1>5. CASE CaptureEnds
    BY <1>0, <1>5 DEF CaptureEnds, eventVars, serverVars, RegistryInv, GaugesNear
<1>6. CASE CountPacket
  <2>1. /\ IsMetrics(metrics') /\ Coherent(metrics')
        /\ metrics'.packets_total = metrics.packets_total + 1
        /\ metrics'.events_total = metrics.events_total /\ metrics'.gauges = metrics.gauges
      BY <1>6, RecordPacketFacts DEF CountPacket, ControlInv, RegistryInv
  <2>2. /\ pc = "record" /\ pc' = "process" /\ packets' = packets /\ summary' = summary
        /\ json' = json /\ page' = page
      BY <1>6 DEF CountPacket, eventVars, serverVars
  <2> QED BY <1>0, <2>1, <2>2 DEF RegistryInv, GaugesNear
<1>7. CASE CallEngine
  <2>1. /\ pc \in {"process", "sweep"} /\ pc' = "handle" /\ packets' = packets
        /\ summary' = summary /\ json' = json /\ page' = page /\ metrics' = metrics
        /\ ended' = ended
      BY <1>7 DEF CallEngine, captureVars, serverVars
  <2>2. pc = "sweep" => ended # "open"
      BY DEF ControlInv
  <2> QED BY <1>0, <2>1, <2>2 DEF RegistryInv, GaugesNear
<1>8. CASE EventsHandled
  <2>1. /\ pc = "handle" /\ packets' = packets /\ summary' = summary /\ json' = json
        /\ page' = page /\ metrics' = metrics /\ ended' = ended /\ engine' = engine
        /\ pc' = AfterEvents
      BY <1>8 DEF EventsHandled, captureVars, eventVars, serverVars
  <2>2. pc' = "gauges" \/ (pc' = "next" /\ ended = "open" /\ (packets % GaugeEvery) # 0)
      BY <2>1 DEF AfterEvents
  <2>3. pc' = "next" => GaugesNear(packets)'
    <3> SUFFICES ASSUME pc' = "next" PROVE GaugesNear(packets)'
        OBVIOUS
    <3>1. ((packets - 1) % GaugeEvery) + 1 <= (packets % GaugeEvery)
        BY <1>0, <2>2, BetweenRefreshes
    <3>2. (packets - 1) - metrics.gauges <= ((packets - 1) % GaugeEvery)
        BY <2>1, <2>2 DEF RegistryInv, GaugesNear
    <3>3. packets # 0
        BY <2>1, <2>2 DEF ControlInv
    <3>4. ((packets - 1) % GaugeEvery) \in Nat /\ (packets % GaugeEvery) \in Nat
        BY <1>0, <3>3, Remainders
    <3>5. packets - metrics.gauges <= (packets % GaugeEvery)
        BY <1>0, <3>1, <3>2, <3>4
    <3> QED BY <2>1, <3>5 DEF GaugesNear
  <2> QED BY <1>0, <2>1, <2>2, <2>3 DEF RegistryInv
<1>9. CASE HandleEvent
  <2>1. Head(pending).pod \in OptionalPods
    <3>1. Head(pending) \in Returned
        BY <1>9 DEF HandleEvent, ControlInv
    <3> QED BY <3>1, AgentAssumption
  <2>2. /\ IsMetrics(metrics') /\ Coherent(metrics')
        /\ metrics'.packets_total = metrics.packets_total
        /\ metrics'.events_total = metrics.events_total + 1 /\ metrics'.gauges = metrics.gauges
      BY <1>9, <2>1, RecordEventFacts DEF HandleEvent, RegistryInv
  <2>3. summary' = CountFor(summary, {Head(pending).kind}) /\ FiniteBag(summary)
      BY <1>9 DEF HandleEvent, RegistryInv
  <2>4. FiniteBag(summary') /\ Total(summary') = Total(summary) + 1
    <3>1. FiniteBag(CountFor(summary, {Head(pending).kind}))
        BY <2>3, CountForFacts
    <3>2. Total(CountFor(summary, {Head(pending).kind})) = Total(summary) + 1
        BY <2>3, TotalAdd
    <3> QED BY <2>3, <3>1, <3>2
  <2>5. /\ pc = "handle" /\ pc' = "handle" /\ packets' = packets /\ page' = page /\ ended' = ended
      BY <1>9 DEF HandleEvent, captureVars, serverVars
  <2>6. /\ DOMAIN json' = {"sink", "lines", "lost"} /\ json'.lines \in Nat /\ json'.lost \in Nat
        /\ json'.sink = json.sink
        /\ json.sink = "on" => json'.lines + json'.lost = json.lines + json.lost + 1
        /\ json.sink # "on" => json'.lines = json.lines /\ json'.lost = json.lost
      BY <1>9 DEF HandleEvent, RegistryInv
  <2>7. json.lines \in Nat /\ json.lost \in Nat
      BY DEF RegistryInv
  <2> QED BY <1>0, <2>2, <2>4, <2>5, <2>6, <2>7 DEF RegistryInv, GaugesNear
<1>10. CASE UpdateGauges
  <2>1. /\ IsMetrics(metrics') /\ Coherent(metrics')
        /\ metrics'.packets_total = metrics.packets_total
        /\ metrics'.events_total = metrics.events_total /\ metrics'.gauges = engine
      BY <1>0, <1>10, SetGaugesFacts DEF UpdateGauges, RegistryInv
  <2>2. /\ pc = "gauges" /\ packets' = packets /\ summary' = summary /\ json' = json
        /\ page' = page /\ ended' = ended /\ engine' = engine
        /\ pc' = IF ended = "open" THEN "next" ELSE "flush"
      BY <1>10 DEF UpdateGauges, captureVars, eventVars, serverVars
  <2>3. ended = "open" => engine = packets /\ (packets % GaugeEvery) = 0
      BY <2>2 DEF ControlInv
  <2>4. pc' = "next" => GaugesNear(packets)'
    <3> SUFFICES ASSUME pc' = "next" PROVE GaugesNear(packets)'
        OBVIOUS
    <3>1. packets - engine = 0 /\ (packets % GaugeEvery) = 0
        BY <1>0, <2>2, <2>3
    <3> QED BY <2>1, <2>2, <3>1 DEF GaugesNear
  <2> QED BY <1>0, <2>1, <2>2, <2>4 DEF RegistryInv
<1>11. CASE BeginFlush
    BY <1>0, <1>11 DEF BeginFlush, captureVars, eventVars, serverVars, RegistryInv, GaugesNear
<1>12. CASE Finish
    BY <1>0, <1>12 DEF Finish, Exit, captureVars, eventVars, serverVars, RegistryInv, GaugesNear
<1> QED BY <1>1, <1>2, <1>3, <1>4, <1>5, <1>6, <1>7, <1>8, <1>9, <1>10, <1>11, <1>12, NextCases
        DEF Foreground

-----------------------------------------------------------------------------
(* Posts.                                                                    *)

\* No step takes anything back from a counter of the registry.
LEMMA GrowStep ==
    ASSUME ControlInv, RegistryInv, Next
    PROVE  IsMetrics(metrics') /\ NoMore(metrics, metrics')
<1>0. IsMetrics(metrics) /\ Coherent(metrics) /\ engine \in Nat /\ pod \in OptionalPods
    BY DEF ControlInv, RegistryInv
<1>1. CASE CountPacket
    BY <1>0, <1>1, RecordPacketFacts DEF CountPacket
<1>2. CASE HandleEvent
  <2>1. Head(pending) \in Returned
      BY <1>2 DEF HandleEvent, ControlInv
  <2>2. Head(pending).pod \in OptionalPods
      BY <2>1, AgentAssumption
  <2> QED BY <1>0, <1>2, <2>2, RecordEventFacts DEF HandleEvent
<1>3. CASE UpdateGauges
    BY <1>0, <1>3, SetGaugesFacts DEF UpdateGauges
<1>4. CASE metrics' = metrics
    BY <1>0, <1>4, NoMoreFacts
<1>5. CountPacket \/ HandleEvent \/ UpdateGauges \/ metrics' = metrics
    BY NextCases, BackgroundFacts DEF Foreground, LoadConfig, ServeMetrics, OpenJson, OpenCapture,
       NextPacket, CaptureEnds, CallEngine, EventsHandled, Finish, StartOtlp, BeginFlush, startVars
<1> QED BY <1>1, <1>2, <1>3, <1>4, <1>5

\* What was made from the past of the registry stays so.
LEMMA PastStays ==
    ASSUME IsMetrics(metrics), IsMetrics(metrics'), NoMore(metrics, metrics'),
           wall \in Nat, wall' \in Nat, wall <= wall'
    PROVE  /\ \A s : EarlierSnap(s) => IsMetrics(s) /\ Coherent(s) /\ NoMore(s, metrics')
           /\ \A b : EarlierBody(b) =>
                 /\ IsMetrics(Series(b)) /\ NoMore(Series(b), metrics')
                 /\ b.start \in Nat /\ b.now \in Nat /\ b.start < wall' /\ b.now < wall'
<1>1. ASSUME NEW s, EarlierSnap(s)
      PROVE  IsMetrics(s) /\ Coherent(s) /\ NoMore(s, metrics')
    BY <1>1, NoMoreFacts DEF EarlierSnap
<1>2. ASSUME NEW b, EarlierBody(b)
      PROVE  /\ IsMetrics(Series(b)) /\ NoMore(Series(b), metrics')
             /\ b.start \in Nat /\ b.now \in Nat /\ b.start < wall' /\ b.now < wall'
  <2> DEFINE t == Series(b)
  <2>1. IsMetrics(t) /\ NoMore(t, metrics) /\ b.start \in Nat /\ b.now \in Nat
        /\ b.start < wall /\ b.now < wall
      BY <1>2 DEF EarlierBody
  <2> HIDE DEF t
  <2>2. NoMore(t, metrics')
      BY <2>1, NoMoreFacts
  <2> QED BY <2>1, <2>2 DEF t
<1> QED BY <1>1, <1>2

\* A body has the series of the snapshot that it is built from.
LEMMA BuildBodyFacts ==
    ASSUME NEW m, IsMetrics(m), NEW start, NEW now
    PROVE  LET b == BuildBody(m, start, now)
           IN  /\ b.start = start /\ b.now = now
               /\ IsMetrics(Series(b)) /\ NoMore(Series(b), m) /\ NoMore(m, Series(b))
               /\ Series(b).packets_total = m.packets_total
               /\ Series(b).event_counts = m.event_counts /\ Series(b).gauges = m.gauges
<1> DEFINE b == BuildBody(m, start, now)
           t == Series(b)
<1>1. /\ b.start = start /\ b.now = now
      /\ t.packets_total = m.packets_total /\ t.events_total = 0
      /\ t.event_counts = m.event_counts /\ t.pod_event_counts = m.pod_event_counts
      /\ t.pod_packets = m.pod_packets /\ t.gauges = m.gauges
      /\ DOMAIN t = {"packets_total", "events_total", "event_counts", "pod_event_counts",
                     "pod_packets", "gauges"}
    BY DEF BuildBody, Series
<1> HIDE DEF t, b
<1>2. IsMetrics(t)
    BY <1>1 DEF IsMetrics
<1>3. NoMore(m, m)
    BY NoMoreFacts
<1>4. NoMore(t, m) /\ NoMore(m, t)
    BY <1>1, <1>3 DEF NoMore
<1> QED BY <1>1, <1>2, <1>4 DEF t, b

\* The steps of a poster that neither make nor send anything.
Moves(w) ==
    /\ post[w].at \notin {"off", "send"} /\ post'[w].at # "stamp"
    /\ post'[w].start = post[w].start /\ post'[w].snap = post[w].snap
    /\ post'[w].body = post[w].body
    /\ \A v \in Posters : v # w => post'[v] = post[v]
    /\ wall' = wall /\ received' = received

\* The steps of a poster that touch nothing but its own stage.
LEMMA MovesFacts ==
    ASSUME ThreadInv
    PROVE  /\ Wake => Moves("pusher")
           /\ \A w \in Posters : LockSnapshot(w) \/ Return(w) => Moves(w)
<1>1. Wake => Moves("pusher")
    BY DEF ThreadInv, Wake, Moves, Posters
<1>2. ASSUME NEW w \in Posters, LockSnapshot(w) PROVE Moves(w)
    BY <1>2 DEF ThreadInv, LockSnapshot, Moves
<1>3. ASSUME NEW w \in Posters, Return(w) PROVE Moves(w)
    BY <1>3 DEF ThreadInv, Return, Moves
<1> QED BY <1>1, <1>2, <1>3

Copies(w) ==
    /\ post[w].at = "copy" /\ post'[w].at = "stamp"
    /\ post'[w].start = post[w].start /\ post'[w].snap = metrics
    /\ post'[w].body = post[w].body
    /\ \A v \in Posters : v # w => post'[v] = post[v]
    /\ wall' = wall /\ received' = received

Builds(w) ==
    /\ post[w].at = "stamp" /\ post'[w].at = "send" /\ post'[w].start = post[w].start
    /\ post'[w].body = {BuildBody(post[w].snap, post[w].start, wall)}
    /\ \A v \in Posters : v # w => post'[v] = post[v]
    /\ wall' = wall + 1 /\ received' = received

Sends(w) ==
    /\ post[w].at = "send" /\ post'[w].at = "reply" /\ post'[w].start = post[w].start
    /\ post'[w].body = {} /\ received' \subseteq received \cup post[w].body
    /\ \A v \in Posters : v # w => post'[v] = post[v]
    /\ wall' = wall

\* A poster takes a start time of its own.
Starts(w) ==
    /\ post[w].at = "off" /\ post'[w].at \in {"asleep", "snapshot"} /\ post'[w].start = wall
    /\ post'[w].body = post[w].body
    /\ \A v \in Posters : v # w => post'[v] = post[v]
    /\ wall' = wall + 1 /\ received' = received

Rests == post' = post /\ wall' = wall /\ received' = received

\* Every step of the agent is one of these, as far as posts are concerned.
LEMMA PostCases ==
    ASSUME ThreadInv, FlushInv, Next
    PROVE  \/ Rests
           \/ StartOtlp /\ Starts("pusher")
           \/ BeginFlush /\ Starts("main")
           \/ Background /\ \E w \in Posters : Moves(w) \/ Copies(w) \/ Builds(w) \/ Sends(w)
<1>1. CASE Foreground
    BY <1>1, ForegroundFacts DEF Rests
<1>2. CASE StartOtlp
  <2>1. post["pusher"].at = "off" /\ received' = received
      BY <1>2 DEF StartOtlp, FlushInv, BeforeOtlp, Posters
  <2>2. CASE post' = post /\ wall' = wall
      BY <2>1, <2>2 DEF Rests
  <2>3. CASE /\ post' = [post EXCEPT !["pusher"].at = "asleep", !["pusher"].start = wall]
             /\ wall' = wall + 1
      BY <1>2, <2>1, <2>3 DEF Starts, ThreadInv, Posters
  <2> QED BY <1>2, <2>2, <2>3 DEF StartOtlp
<1>3. CASE BeginFlush
  <2>1. post["main"].at = "off"
      BY <1>3 DEF BeginFlush, FlushInv
  <2> QED BY <1>3, <2>1 DEF BeginFlush, Starts, ThreadInv, Posters
<1>4. CASE Background
  <2>1. CASE Wake
      BY <1>4, <2>1, MovesFacts DEF Posters
  <2>2. CASE \E w \in Posters : Poster(w)
    <3>1. PICK w \in Posters : Poster(w)
        BY <2>2
    <3>2. CASE LockSnapshot(w) \/ Return(w)
        BY <1>4, <3>2, MovesFacts
    <3>3. CASE CopySnapshot(w)
      <4>1. Copies(w)
          BY <3>3 DEF CopySnapshot, Copies, ThreadInv
      <4> QED BY <1>4, <4>1
    <3>4. CASE Stamp(w)
      <4>1. Builds(w)
          BY <3>4 DEF Stamp, Builds, ThreadInv
      <4> QED BY <1>4, <4>1
    <3>5. CASE Send(w)
      <4>1. Sends(w)
          BY <3>5 DEF Send, Sends, ThreadInv
      <4> QED BY <1>4, <4>1
    <3> QED BY <3>1, <3>2, <3>3, <3>4, <3>5 DEF Poster
  <2>3. CASE Server
      BY <2>3 DEF Server, Accept, ReadRequest, LockPage, Render, WriteResponse, pushVars, Rests
  <2>4. CASE \E c \in setup.clients : Connect(c)
      BY <2>4 DEF Connect, pushVars, Rests
  <2>5. CASE Exited
      BY <2>5 DEF Exited, vars, Rests
  <2> QED BY <1>4, <2>1, <2>2, <2>3, <2>4, <2>5 DEF Background
<1> QED BY <1>1, <1>2, <1>3, <1>4, NextCases

\* Snapshots and bodies still come from the past of the registry.
LEMMA PostStep ==
    ASSUME ThreadInv, ControlInv, RegistryInv, PostInv, FlushInv, Next
    PROVE  PostInv'
<1>1. IsMetrics(metrics) /\ Coherent(metrics) /\ IsMetrics(metrics') /\ NoMore(metrics, metrics')
    BY GrowStep DEF RegistryInv
<1>2. wall \in Nat /\ wall' \in Nat /\ wall <= wall' /\ 0 < wall'
  <2>1. wall \in Nat /\ 0 < wall /\ (wall' = wall \/ wall' = wall + 1)
      BY PostCases DEF PostInv, Rests, Starts, Moves, Copies, Builds, Sends
  <2> QED BY <2>1
<1>3. /\ \A s : EarlierSnap(s) => IsMetrics(s) /\ Coherent(s) /\ NoMore(s, metrics')
      /\ \A b : EarlierBody(b) =>
            /\ IsMetrics(Series(b)) /\ NoMore(Series(b), metrics')
            /\ b.start \in Nat /\ b.now \in Nat /\ b.start < wall' /\ b.now < wall'
    BY <1>1, <1>2, PastStays
<1> DEFINE Past(b) == /\ IsMetrics(Series(b)) /\ NoMore(Series(b), metrics')
                      /\ b.start \in Nat /\ b.now \in Nat /\ b.start < wall' /\ b.now < wall'
           Good(q) == /\ q.start \in Nat /\ q.start < wall'
                      /\ q.at = "stamp" =>
                            IsMetrics(q.snap) /\ Coherent(q.snap) /\ NoMore(q.snap, metrics')
                      /\ \A b \in q.body : Past(b) /\ b.start = q.start /\ q.at = "send"
                      /\ \A b, c \in q.body : b = c
<1>4. \A v \in Posters : Good(post[v])
    BY <1>2, <1>3 DEF PostInv
<1>5. \A b \in received : Past(b)
    BY <1>3 DEF PostInv
<1>6. ASSUME \A w \in Posters : Good(post'[w]), \A b \in received' : Past(b)
      PROVE  PostInv'
    BY <1>2, <1>6 DEF PostInv, EarlierSnap, EarlierBody
<1>7. CASE Rests
    BY <1>4, <1>5, <1>6, <1>7 DEF Rests
<1>8. ASSUME NEW w \in Posters, Starts(w) PROVE PostInv'
  <2>1. post'[w].body = {} /\ post'[w].at # "stamp" /\ post'[w].start = wall /\ wall' = wall + 1
      BY <1>8 DEF Starts, PostInv
  <2>2. Good(post'[w])
      BY <1>2, <2>1
  <2>3. \A v \in Posters : Good(post'[v])
      BY <1>4, <1>8, <2>2 DEF Starts
  <2> QED BY <1>5, <1>6, <1>8, <2>3 DEF Starts
<1>9. ASSUME NEW w \in Posters, Moves(w) PROVE PostInv'
  <2>1. post[w].body = {}
      BY <1>9 DEF Moves, PostInv
  <2>2. Good(post'[w])
      BY <1>4, <1>9, <2>1 DEF Moves
  <2>3. \A v \in Posters : Good(post'[v])
      BY <1>4, <1>9, <2>2 DEF Moves
  <2> QED BY <1>5, <1>6, <1>9, <2>3 DEF Moves
<1>10. ASSUME NEW w \in Posters, Copies(w) PROVE PostInv'
  <2>1. post[w].body = {}
      BY <1>10 DEF Copies, PostInv
  <2>2. Good(post'[w])
      BY <1>1, <1>4, <1>10, <2>1 DEF Copies
  <2>3. \A v \in Posters : Good(post'[v])
      BY <1>4, <1>10, <2>2 DEF Copies
  <2> QED BY <1>5, <1>6, <1>10, <2>3 DEF Copies
<1>11. ASSUME NEW w \in Posters, Builds(w) PROVE PostInv'
  <2> DEFINE m == post[w].snap
             b == BuildBody(m, post[w].start, wall)
  <2>1. IsMetrics(m) /\ NoMore(m, metrics') /\ post[w].start \in Nat /\ post[w].start < wall
      BY <1>4, <1>11 DEF Builds, PostInv
  <2>2. /\ b.start = post[w].start /\ b.now = wall
        /\ IsMetrics(Series(b)) /\ NoMore(Series(b), m)
      BY <2>1, BuildBodyFacts
  <2>3. /\ post'[w].at = "send" /\ post'[w].start = post[w].start /\ post'[w].body = {b}
        /\ wall' = wall + 1
      BY <1>11 DEF Builds
  <2> HIDE DEF b, m
  <2>4. NoMore(Series(b), metrics')
    <3> DEFINE t == Series(b)
    <3>1. IsMetrics(t) /\ NoMore(t, m)
        BY <2>2
    <3> HIDE DEF t
    <3>2. NoMore(t, metrics')
        BY <1>1, <2>1, <3>1, NoMoreFacts
    <3> QED BY <3>2 DEF t
  <2>5. Past(b)
      BY <1>2, <2>1, <2>2, <2>3, <2>4
  <2>6. Good(post'[w])
      BY <1>2, <2>1, <2>2, <2>3, <2>5
  <2>7. \A v \in Posters : Good(post'[v])
      BY <1>4, <1>11, <2>6 DEF Builds
  <2> QED BY <1>5, <1>6, <1>11, <2>7 DEF Builds
<1>12. ASSUME NEW w \in Posters, Sends(w) PROVE PostInv'
  <2>1. Good(post'[w])
      BY <1>4, <1>12 DEF Sends
  <2>2. \A v \in Posters : Good(post'[v])
      BY <1>4, <1>12, <2>1 DEF Sends
  <2>3. \A b \in received' : Past(b)
      BY <1>4, <1>5, <1>12 DEF Sends
  <2> QED BY <1>6, <2>2, <2>3
<1> QED BY <1>7, <1>8, <1>9, <1>10, <1>11, <1>12, PostCases DEF Posters

\* Bodies still grow in the order of their stamps.
LEMMA OrderStep ==
    ASSUME ThreadInv, ControlInv, RegistryInv, PostInv, OrderInv, FlushInv, Next
    PROVE  OrderInv'
<1> DEFINE Sorted(r) == \A a, b \in r :
                          a.start = b.start /\ a.now <= b.now => NoMore(Series(a), Series(b))
           Above(q, a) == a.start = q.start =>
                            /\ q.at = "stamp" => NoMore(Series(a), q.snap)
                            /\ \A b \in q.body : a.now < b.now /\ NoMore(Series(a), Series(b))
<1>1. Sorted(received) /\ \A v \in Posters : \A a \in received : Above(post[v], a)
    BY DEF OrderInv
<1>2. ASSUME Sorted(received'), \A v \in Posters : \A a \in received' : Above(post'[v], a)
      PROVE  OrderInv'
    BY <1>2 DEF OrderInv
<1>3. wall \in Nat /\ \A a \in received : EarlierBody(a)
    BY DEF PostInv
<1> HIDE DEF Sorted, Above
<1>4. CASE Rests
    BY <1>1, <1>2, <1>4 DEF Rests
<1>5. ASSUME NEW w \in Posters, Starts(w) PROVE OrderInv'
  <2>1. \A a \in received : Above(post'[w], a)
      BY <1>3, <1>5 DEF Starts, EarlierBody, Above
  <2> QED BY <1>1, <1>2, <1>5, <2>1 DEF Starts
<1>6. ASSUME NEW w \in Posters, Moves(w) PROVE OrderInv'
  <2>1. \A a \in received : Above(post'[w], a)
      BY <1>1, <1>6 DEF Moves, Above
  <2> QED BY <1>1, <1>2, <1>6, <2>1 DEF Moves
<1>7. ASSUME NEW w \in Posters, Copies(w) PROVE OrderInv'
  <2>1. post[w].body = {}
      BY <1>7 DEF Copies, PostInv
  <2>2. \A a \in received : Above(post'[w], a)
      BY <1>3, <1>7, <2>1 DEF Copies, Above, EarlierBody
  <2> QED BY <1>1, <1>2, <1>7, <2>2 DEF Copies
<1>8. ASSUME NEW w \in Posters, Builds(w) PROVE OrderInv'
  <2> DEFINE m == post[w].snap
             b == BuildBody(m, post[w].start, wall)
  <2>1. IsMetrics(m) /\ post[w].at = "stamp"
      BY <1>8 DEF Builds, PostInv, EarlierSnap
  <2>2. b.now = wall /\ IsMetrics(Series(b)) /\ NoMore(m, Series(b))
      BY <2>1, BuildBodyFacts
  <2>3. /\ post'[w].at = "send" /\ post'[w].start = post[w].start /\ post'[w].body = {b}
      BY <1>8 DEF Builds
  <2> HIDE DEF b
  <2>4. ASSUME NEW a \in received PROVE Above(post'[w], a)
    <3> SUFFICES ASSUME a.start = post[w].start
                 PROVE  a.now < b.now /\ NoMore(Series(a), Series(b))
        BY <2>3 DEF Above
    <3> DEFINE t == Series(a)
               u == Series(b)
    <3>1. NoMore(t, m)
        BY <1>1, <2>1 DEF Above
    <3>2. a.now < wall /\ IsMetrics(t)
        BY <1>3 DEF EarlierBody
    <3>3. IsMetrics(u) /\ NoMore(m, u)
        BY <2>2
    <3> HIDE DEF t, u, m
    <3>4. NoMore(t, u)
        BY <2>1, <3>1, <3>2, <3>3, NoMoreFacts
    <3> QED BY <2>2, <3>2, <3>4 DEF t, u
  <2> QED BY <1>1, <1>2, <1>8, <2>4 DEF Builds
<1>9. ASSUME NEW w \in Posters, Sends(w) PROVE OrderInv'
  <2>1. \A a \in received : \A b \in post[w].body :
           a.start = b.start => a.now < b.now /\ NoMore(Series(a), Series(b))
      BY <1>1 DEF PostInv, Above
  <2>2. \A b \in post[w].body : EarlierBody(b) /\ b.start = post[w].start
      BY DEF PostInv
  <2>3. \A b, c \in post[w].body : b = c /\ NoMore(Series(b), Series(c))
    <3> SUFFICES ASSUME NEW b \in post[w].body PROVE NoMore(Series(b), Series(b))
        BY DEF PostInv
    <3> DEFINE t == Series(b)
    <3>1. IsMetrics(t)
        BY <2>2 DEF EarlierBody
    <3> HIDE DEF t
    <3>2. NoMore(t, t)
        BY <3>1, NoMoreFacts
    <3> QED BY <3>2 DEF t
  <2>4. /\ \A a \in received : a.now \in Nat
        /\ \A b \in post[w].body : b.now \in Nat
      BY <1>3, <2>2 DEF EarlierBody
  <2>5. Sorted(received')
    <3> SUFFICES ASSUME NEW a \in received', NEW b \in received', a.start = b.start, a.now <= b.now
                 PROVE  NoMore(Series(a), Series(b))
        BY DEF Sorted
    <3>1. a \in received \cup post[w].body /\ b \in received \cup post[w].body
        BY <1>9 DEF Sends
    <3>2. CASE a \in received /\ b \in received
        BY <1>1, <3>2 DEF Sorted
    <3>3. CASE a \in received /\ b \in post[w].body
        BY <2>1, <3>3
    <3>4. CASE a \in post[w].body /\ b \in received
        BY <2>1, <2>4, <3>4
    <3>5. CASE a \in post[w].body /\ b \in post[w].body
        BY <2>3, <3>5
    <3> QED BY <3>1, <3>2, <3>3, <3>4, <3>5
  <2>6. ASSUME NEW v \in Posters, NEW a \in received' PROVE Above(post'[v], a)
    <3>1. CASE v = w
        BY <1>9, <3>1 DEF Sends, Above
    <3>2. CASE v # w
      <4>1. post'[v] = post[v] /\ a \in received \cup post[w].body
          BY <1>9, <3>2 DEF Sends
      <4>2. CASE a \in received
          BY <1>1, <4>1, <4>2
      <4>3. CASE a \in post[w].body
        <5>1. a.start = post[w].start /\ post[w].at = "send"
            BY <4>3 DEF PostInv
        <5>2. post["pusher"].start \in Nat /\ post["main"].start \in Nat
            BY DEF PostInv, Posters
        <5>3. post[v].at # "off" => post[v].start # post[w].start
            BY <3>2, <5>1, <5>2 DEF FlushInv, Posters
        <5>4. post[v].at = "off" => post[v].body = {}
            BY DEF PostInv
        <5> QED BY <4>1, <5>1, <5>3, <5>4 DEF Above
      <4> QED BY <4>1, <4>2, <4>3
    <3> QED BY <3>1, <3>2
  <2> QED BY <1>2, <2>5, <2>6
<1> QED BY <1>4, <1>5, <1>6, <1>7, <1>8, <1>9, PostCases DEF Posters

\* The final flush still has everything.
LEMMA FlushStep ==
    ASSUME ThreadInv, ControlInv, RegistryInv, PostInv, FlushInv, Next
    PROVE  FlushInv'
<1>0. \A w \in Posters : post[w].at # "send" => post[w].body = {}
    BY DEF PostInv
<1>1. CASE Foreground
  <2>1. post' = post /\ received' = received
      BY <1>1, ForegroundFacts
  <2>2. /\ pc' \in BeforeOtlp => pc \in BeforeOtlp
        /\ pc = "flushing" =>
              /\ post["main"].at = "off" /\ pc' = "exited"
              /\ packets' = packets /\ summary' = summary /\ engine' = engine
        /\ pc # "exited"
      BY <1>1 DEF Foreground, LoadConfig, ServeMetrics, OpenJson, OpenCapture, NextPacket,
         CaptureEnds, CallEngine, EventsHandled, Finish, CountPacket, HandleEvent, UpdateGauges,
         AfterEvents, Exit, BeforeOtlp, captureVars, eventVars
  <2>3. post["main"].at = "off" /\ post["main"].body = {}
      BY <1>0, <2>2 DEF FlushInv, Posters
  <2> QED BY <2>1, <2>2, <2>3 DEF FlushInv, Complete
<1>2. CASE StartOtlp
  <2>1. /\ pc' = "open" /\ received = {} /\ received' = {} /\ post["main"].at = "off"
        /\ post'["main"] = post["main"]
      BY <1>2 DEF StartOtlp, FlushInv, BeforeOtlp, ThreadInv, Posters
  <2>2. post["main"].body = {}
      BY <1>0, <2>1 DEF Posters
  <2> QED BY <2>1, <2>2 DEF FlushInv, BeforeOtlp
<1>3. CASE BeginFlush
  <2>1. /\ pc = "flush" /\ pc' = "flushing" /\ received' = received
        /\ post'["main"].start = wall /\ post'["main"].at = "snapshot"
        /\ post'["main"].body = post["main"].body /\ post'["pusher"] = post["pusher"]
      BY <1>3 DEF BeginFlush, ThreadInv, Posters
  <2>2. post["main"].at = "off"
      BY <2>1 DEF FlushInv
  <2>3. post["main"].body = {} /\ post["pusher"].start < wall
      BY <1>0, <2>2 DEF PostInv, Posters
  <2> QED BY <2>1, <2>2, <2>3 DEF FlushInv, BeforeOtlp
<1>4. CASE Background
  <2>1. /\ pc' = pc /\ packets' = packets /\ summary' = summary /\ engine' = engine
        /\ metrics' = metrics
      BY <1>4, BackgroundFacts
  <2>2. CASE Rests
      BY <2>1, <2>2 DEF Rests, FlushInv, Complete
  <2>3. ASSUME NEW w \in Posters, Moves(w) PROVE FlushInv'
      BY <2>1, <2>3 DEF Moves, FlushInv, Complete, Posters
  <2>4. ASSUME NEW w \in Posters, Copies(w) PROVE FlushInv'
    <3>1. pc = "flushing" => Complete(metrics)
        BY DEF RegistryInv, Coherent, Complete
    <3>2. w = "main" => pc = "flushing"
        BY <2>4 DEF Copies, FlushInv
    <3> QED BY <2>1, <2>4, <3>1, <3>2 DEF Copies, FlushInv, Complete, Posters
  <2>5. ASSUME NEW w \in Posters, Builds(w) PROVE FlushInv'
    <3> DEFINE m == post[w].snap
               b == BuildBody(m, post[w].start, wall)
    <3>1. IsMetrics(m) /\ (w = "main" => Complete(m))
        BY <2>5 DEF Builds, PostInv, EarlierSnap, FlushInv
    <3>2. /\ Series(b).packets_total = m.packets_total
          /\ Series(b).event_counts = m.event_counts /\ Series(b).gauges = m.gauges
        BY <3>1, BuildBodyFacts
    <3>3. /\ post[w].at = "stamp" /\ post'[w].at = "send" /\ post'[w].start = post[w].start
          /\ post'[w].body = {b} /\ received' = received
          /\ \A v \in Posters : v # w => post'[v] = post[v]
        BY <2>5 DEF Builds
    <3> HIDE DEF b, m
    <3>4. w = "main" => Complete(Series(b))
        BY <3>1, <3>2 DEF Complete
    <3> QED BY <2>1, <3>3, <3>4 DEF FlushInv, Complete, Posters
  <2>6. ASSUME NEW w \in Posters, Sends(w) PROVE FlushInv'
    <3>1. \A b \in post[w].body :
             b.start = post["pusher"].start \/ (pc = "flushing" /\ Complete(Series(b)))
        BY <2>6 DEF Sends, PostInv, FlushInv, Posters
    <3> QED BY <2>1, <2>6, <3>1 DEF Sends, FlushInv, Complete, Posters
  <2> QED BY <1>2, <1>3, <2>2, <2>3, <2>4, <2>5, <2>6, PostCases
<1> QED BY <1>1, <1>2, <1>3, <1>4, NextCases

-----------------------------------------------------------------------------
(* Theorems.                                                                 *)

\* The initial states satisfy the invariant.
LEMMA AgentInitInv == ASSUME Init PROVE AgentInv
<1>1. ThreadInv
    BY DEF Init, ThreadInv, IdlePost, Posters, Free
<1>2. ControlInv
  <2>1. setup.packets \in Nat
      BY AgentAssumption DEF Init
  <2> QED BY <2>1 DEF Init, ControlInv, Running, Starting, BeforeOtlp, OptionalPods
<1>3. RegistryInv
  <2>1. NewMetrics.packets_total = 0 /\ NewMetrics.events_total = 0 /\ NewMetrics.gauges = 0
      BY DEF NewMetrics
  <2>2. (0 % GaugeEvery) \in Nat
      BY Remainders
  <2> QED BY <2>1, <2>2, NewMetricsFacts, EmptyBagFacts DEF Init, RegistryInv, GaugesNear
<1>4. PostInv /\ OrderInv /\ FlushInv
    BY DEF Init, PostInv, OrderInv, FlushInv, IdlePost, Posters
<1> QED BY <1>1, <1>2, <1>3, <1>4 DEF AgentInv

\* Every step preserves the invariant.
LEMMA AgentNextInv == ASSUME AgentInv, Next PROVE AgentInv'
BY ThreadStep, ControlStep, RegistryStep, PostStep, OrderStep, FlushStep DEF AgentInv

\* The invariant is about the variables of the agent only.
LEMMA AgentStutter == ASSUME AgentInv, UNCHANGED vars PROVE AgentInv'
BY DEF AgentInv, ThreadInv, ControlInv, RegistryInv, PostInv, OrderInv, FlushInv, vars,
       Running, GaugesNear, EarlierBody, EarlierSnap, Complete

(* The six parts hold together in every state: with any sinks, clients, pods *)
(* and events, any number of packets and of pushes.                          *)
THEOREM AgentInvariant == Spec => []AgentInv
<1>1. Init => AgentInv
    BY AgentInitInv
<1>2. AgentInv /\ [Next]_vars => AgentInv'
    BY AgentNextInv, AgentStutter
<1> QED BY <1>1, <1>2, PTL DEF Spec

(* Every thread of the agent stays at a place of its code, and the engine is *)
(* called at most once for each packet read and once more for the final      *)
(* sweep (main.rs:187-213).                                                  *)
THEOREM AgentTypes == Spec => []TypeOK
<1>1. AgentInv => TypeOK
    BY DEF AgentInv, ThreadInv, ControlInv, RegistryInv, IsMetrics, TypeOK
<1> QED BY <1>1, AgentInvariant, PTL

(* However the threads interleave, a scraped page and a snapshot show totals *)
(* that are the sums of their parts (metrics.rs:56-74).                      *)
THEOREM PagesAreCoherent == Spec => []PagesCoherent
<1>1. AgentInv => PagesCoherent
    BY DEF AgentInv, RegistryInv, PostInv, EarlierSnap, PagesCoherent
<1> QED BY <1>1, AgentInvariant, PTL

(* A body that the Collector receives counts at least what the bodies with   *)
(* the same start and an earlier stamp counted, whichever pushes were lost   *)
(* on the way (otlp.rs).                                                     *)
THEOREM PushesAreCumulative == Spec => []PushesCumulative
<1>1. ASSUME AgentInv PROVE PushesCumulative
  <2> SUFFICES ASSUME NEW a \in received, NEW b \in received, a.start = b.start, a.now <= b.now
               PROVE  /\ a.packets <= b.packets
                      /\ a.events \sqsubseteq b.events
                      /\ a.pod_events \sqsubseteq b.pod_events
                      /\ a.pod_packets \sqsubseteq b.pod_packets
      BY DEF PushesCumulative
  <2>1. NoMore(Series(a), Series(b))
      BY <1>1 DEF AgentInv, OrderInv
  <2> QED BY <2>1 DEF NoMore, Series
<1> QED BY <1>1, AgentInvariant, PTL

(* The push that the main thread makes before it exits carries every packet, *)
(* every event and the gauges after the final sweep, although the pusher may *)
(* be in the middle of a push of its own (main.rs:213-226).                  *)
THEOREM FinalFlushIsComplete == Spec => []FinalFlushComplete
<1>1. ASSUME AgentInv PROVE FinalFlushComplete
  <2> SUFFICES ASSUME NEW b \in received, pc = "exited", b.start # post["pusher"].start
               PROVE  /\ b.packets = packets
                      /\ Total(b.events) = Total(summary)
                      /\ b.gauges = engine
      BY DEF FinalFlushComplete
  <2>1. Complete(Series(b))
      BY <1>1 DEF AgentInv, FlushInv
  <2>2. /\ Series(b).packets_total = b.packets /\ Series(b).event_counts = b.events
        /\ Series(b).gauges = b.gauges
      BY DEF Series
  <2> QED BY <2>1, <2>2 DEF Complete
<1> QED BY <1>1, AgentInvariant, PTL

(* Whenever the main thread waits for a packet, the gauges are less than     *)
(* GaugeEvery packets old, for every period, and registry, event log and     *)
(* summary have counted the same (main.rs:187-203, 240-260).                 *)
THEOREM SinksAreUpToDate == Spec => []SinksUpToDate
<1>1. ASSUME AgentInv PROVE SinksUpToDate
  <2> SUFFICES ASSUME pc = "next"
               PROVE  /\ engine - metrics.gauges < GaugeEvery
                      /\ metrics.packets_total = packets
                      /\ metrics.events_total = Total(summary)
                      /\ json.sink = "on" => json.lines + json.lost = metrics.events_total
      BY DEF SinksUpToDate
  <2>1. /\ engine = packets /\ packets \in Nat /\ metrics.gauges \in Nat
        /\ packets - metrics.gauges <= (packets % GaugeEvery)
      BY <1>1 DEF AgentInv, ControlInv, RegistryInv, IsMetrics, GaugesNear
  <2>2. (packets % GaugeEvery) \in Nat /\ (packets % GaugeEvery) < GaugeEvery /\ GaugeEvery \in Nat
      BY <2>1, Remainders, AgentAssumption
  <2>3. engine - metrics.gauges < GaugeEvery
      BY <2>1, <2>2
  <2> QED BY <1>1, <2>3 DEF AgentInv, RegistryInv
<1> QED BY <1>1, AgentInvariant, PTL

(* No step, of whichever thread, takes anything back from a counter: what a  *)
(* reader of the registry saw once it finds again (metrics.rs:56-74).        *)
THEOREM CountersNeverFall == Spec => [][NoMore(metrics, metrics')]_metrics
<1>1. ASSUME AgentInv, [Next]_vars PROVE [NoMore(metrics, metrics')]_metrics
    BY <1>1, GrowStep DEF AgentInv, vars
<1> QED BY <1>1, AgentInvariant, PTL DEF Spec

=============================================================================

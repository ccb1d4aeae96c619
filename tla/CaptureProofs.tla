---------------------------- MODULE CaptureProofs ---------------------------
(* Proofs about the capture layer: the ring of the eBPF backend, for every   *)
(* number of CPUs and frames, every size of the ring and every clock offset; *)
(* and the contract of CaptureSource, which every backend implements, for    *)
(* every stream, however it is cut into reads and writes.                    *)
EXTENDS Capture, SumProofs, SequenceTheorems

RingRecord   == [id : Nat, kind : {"l4", "short"}, state : {"busy", "ready", "discarded"}, ts : Nat]
HandedPacket == [id : Nat, ts : Nat]

\* Types; the pcap reader is not in use.
RingType ==
    /\ ring \in Seq(RingRecord) /\ handed \in Seq(HandedPacket)
    /\ frames \in Nat /\ ktime \in Nat /\ cpu \in [Cpus -> Nat]
    /\ reader.phase = "none"

\* Frames are numbered in the order of their reservations, and leave in it.
RingOrder ==
    /\ \A i, j \in 1 .. Len(handed) : i < j => handed[i].id < handed[j].id
    /\ \A i, j \in 1 .. Len(ring) : i < j => ring[i].id < ring[j].id
    /\ \A i \in 1 .. Len(handed), j \in 1 .. Len(ring) : handed[i].id < ring[j].id
    /\ \A i \in 1 .. Len(handed) : handed[i].id <= frames
    /\ \A j \in 1 .. Len(ring) : ring[j].id <= frames /\ ring[j].id # 0

\* Stamps are readings of the clock in the past.
RingClock ==
    /\ \A i \in 1 .. Len(handed) : handed[i].ts <= WallOffset + ktime
    /\ \A j \in 1 .. Len(ring) : ring[j].ts <= ktime

\* A record is busy while one CPU fills it in, and it is stamped by then.
RingCpus ==
    /\ \A j \in 1 .. Len(ring) :
          /\ ring[j].state = "busy" <=> \E c \in Cpus : cpu[c] = ring[j].id
          /\ ring[j].ts = 0 => ring[j].state = "busy"
    /\ \A c \in Cpus : cpu[c] # 0 => \E j \in 1 .. Len(ring) : ring[j].id = cpu[c]
    /\ \A c, d \in Cpus : cpu[c] = cpu[d] /\ cpu[c] # 0 => c = d

Few(S) == IsFiniteSet(S) /\ Cardinality(S) < Cardinality(Cpus)

\* The frames reserved before a record that are, or may still be, stamped after it.
Overtaken(j) ==
    {x \in Nat :
        \/ \E i \in 1 .. Len(handed) : handed[i].id = x /\ handed[i].ts > WallOffset + ring[j].ts
        \/ \E i \in 1 .. Len(ring) :
              i < j /\ ring[i].id = x /\ (ring[i].ts = 0 \/ ring[i].ts > ring[j].ts)}

OvertakenByHanded(j) ==
    {x \in Nat : \E i \in 1 .. Len(handed) :
                    i < j /\ handed[i].id = x /\ handed[i].ts > handed[j].ts}

\* A stamped record overtakes fewer frames than there are CPUs.
RingLate ==
    /\ \A j \in 1 .. Len(ring) : ring[j].ts # 0 => Few(Overtaken(j))
    /\ \A j \in 1 .. Len(handed) : Few(OvertakenByHanded(j))

RingGood == RingType /\ RingOrder /\ RingClock /\ RingCpus /\ RingLate

RingInv == backend = "ebpf" => RingGood

-----------------------------------------------------------------------------
(* What the steps of the backend do to the ring.                             *)

RingRests ==
    /\ ring' = ring /\ handed' = handed /\ frames' = frames /\ ktime' = ktime /\ cpu' = cpu
    /\ reader' = reader

\* The other backends' steps do not happen, and the rest leaves the ring alone.
LEMMA EbpfSteps ==
    ASSUME backend = "ebpf", RingType, [Next]_vars
    PROVE  /\ backend' = backend
           /\ \/ RingRests \/ NextRecord
              \/ \E c \in Cpus : Reserve(c) \/ Stamp(c) \/ Commit(c)
<1>0. ~ Reading
    BY DEF RingType, Reading
<1>1. CASE Opening
    BY <1>1 DEF Opening, OpenFails, OpenAtOnce, OpenStream, pcapVars, kernelVars, RingRests
<1>2. CASE Source
    BY <1>0, <1>2 DEF Source, ReadBytes, ReadEof, NextScripted, NextRecord, PollReturns,
       pcapVars, kernelVars, RingRests
<1>3. CASE ReadFails
    BY <1>0, <1>3 DEF ReadFails
<1>4. CASE ToolWrites \/ ToolExits \/ DropSource \/ WaitReturns
    BY <1>4 DEF ToolWrites, ToolExits, DropSource, WaitReturns, pcapVars, kernelVars, RingRests
<1>5. CASE \E c \in Cpus : Reserve(c) \/ Kernel(c)
    BY <1>5 DEF Reserve, Kernel, Stamp, Commit
<1>6. CASE Done \/ UNCHANGED vars
    BY <1>6 DEF Done, vars, RingRests
<1> QED BY <1>1, <1>2, <1>3, <1>4, <1>5, <1>6 DEF Next

\* Ring records one by one.
LEMMA RecordTypes ==
    ASSUME RingType
    PROVE  /\ Len(ring) \in Nat /\ DOMAIN ring = 1 .. Len(ring)
           /\ \A j \in 1 .. Len(ring) : ring[j] \in RingRecord
           /\ Len(handed) \in Nat /\ DOMAIN handed = 1 .. Len(handed)
           /\ \A j \in 1 .. Len(handed) : handed[j] \in HandedPacket
BY LenProperties, ElementOfSeq DEF RingType

\* The record that a CPU works on is where At finds it.
LEMMA AtFinds ==
    ASSUME RingType, RingOrder, RingCpus, NEW c \in Cpus, cpu[c] # 0
    PROVE  At(cpu[c]) \in 1 .. Len(ring) /\ ring[At(cpu[c])].id = cpu[c]
<1>1. \E j \in DOMAIN ring : ring[j].id = cpu[c]
    BY RecordTypes DEF RingCpus
<1> QED BY <1>1, RecordTypes DEF At

\* reserve appends a record that the CPU fills in, or drops the frame.
LEMMA ReserveFacts ==
    ASSUME RingType, NEW c \in Cpus, Reserve(c)
    PROVE  /\ handed' = handed /\ frames' = frames + 1 /\ ktime' = ktime /\ reader' = reader
           /\ cpu[c] = 0
           /\ \/ ring' = ring /\ cpu' = cpu
              \/ /\ ring' \in Seq(RingRecord) /\ Len(ring') = Len(ring) + 1
                 /\ \A i \in 1 .. Len(ring) : ring'[i] = ring[i]
                 /\ ring'[Len(ring) + 1].id = frames + 1
                 /\ ring'[Len(ring) + 1].state = "busy" /\ ring'[Len(ring) + 1].ts = 0
                 /\ cpu' = [cpu EXCEPT ![c] = frames + 1]
<1>1. /\ handed' = handed /\ frames' = frames + 1 /\ ktime' = ktime /\ reader' = reader
      /\ cpu[c] = 0
    BY DEF Reserve, pcapVars
<1>2. CASE ring' = ring /\ cpu' = cpu
    BY <1>1, <1>2
<1>3. CASE ~ (ring' = ring /\ cpu' = cpu)
  <2>1. PICK kind \in {"l4", "short"} :
           /\ ring' = Append(ring, [id |-> frames', kind |-> kind, state |-> "busy", ts |-> 0])
           /\ cpu' = [cpu EXCEPT ![c] = frames']
      BY <1>3 DEF Reserve
  <2> DEFINE r == [id |-> frames + 1, kind |-> kind, state |-> "busy", ts |-> 0]
  <2>2. r \in RingRecord /\ r.id = frames + 1 /\ r.state = "busy" /\ r.ts = 0
      BY DEF RingRecord, RingType
  <2>3. ring' = Append(ring, r) /\ cpu' = [cpu EXCEPT ![c] = frames + 1] /\ ring \in Seq(RingRecord)
      BY <1>1, <2>1 DEF RingType
  <2> HIDE DEF r
  <2>4. /\ ring' \in Seq(RingRecord) /\ Len(ring') = Len(ring) + 1
        /\ \A i \in 1 .. Len(ring) : ring'[i] = ring[i]
        /\ ring'[Len(ring) + 1] = r
      BY <2>2, <2>3, AppendProperties
  <2> QED BY <1>1, <2>2, <2>3, <2>4
<1> QED BY <1>2, <1>3

\* The record that a CPU works on is replaced by another of the same frame.
Replaces(k) ==
    /\ ring' \in Seq(RingRecord) /\ Len(ring') = Len(ring)
    /\ ring'[k].id = ring[k].id /\ ring'[k].kind = ring[k].kind
    /\ \A j \in 1 .. Len(ring) : j # k => ring'[j] = ring[j]
    /\ handed' = handed /\ frames' = frames /\ reader' = reader

\* What reading the clock does to the ring (bpf_ktime_get_ns in emit_l4).
LEMMA StampFacts ==
    ASSUME RingType, RingOrder, RingCpus, NEW c \in Cpus, Stamp(c)
    PROVE  /\ cpu[c] # 0 /\ ktime' = ktime + 1 /\ cpu' = cpu /\ Replaces(At(cpu[c]))
           /\ ring[At(cpu[c])].ts = 0 /\ ring'[At(cpu[c])].ts = ktime + 1
           /\ ring'[At(cpu[c])].state = ring[At(cpu[c])].state
<1> DEFINE k == At(cpu[c])
           t == ktime'
           r == [ring[k] EXCEPT !.ts = t]
<1>1. /\ cpu[c] # 0 /\ ring[k].ts = 0 /\ ktime' = ktime + 1 /\ cpu' = cpu /\ handed' = handed
      /\ frames' = frames /\ reader' = reader /\ ring' = [ring EXCEPT ![k] = r]
    BY DEF Stamp, pcapVars
<1>2. k \in 1 .. Len(ring)
    BY <1>1, AtFinds
<1> HIDE DEF k
<1>3. ring \in Seq(RingRecord) /\ ring[k] \in RingRecord /\ ktime \in Nat
    BY <1>2, RecordTypes DEF RingType
<1>4. t = ktime + 1 /\ t \in Nat
    BY <1>1, <1>3
<1> HIDE DEF t
<1>5. /\ r \in RingRecord /\ r.id = ring[k].id /\ r.kind = ring[k].kind
      /\ r.state = ring[k].state /\ r.ts = t
  <2> DEFINE q == ring[k]
  <2>1. q \in RingRecord
      BY <1>3
  <2> HIDE DEF q
  <2>2. LET x == [q EXCEPT !.ts = t]
        IN  x \in RingRecord /\ x.id = q.id /\ x.kind = q.kind /\ x.state = q.state /\ x.ts = t
      BY <1>4, <2>1 DEF RingRecord
  <2> QED BY <2>2 DEF q
<1> HIDE DEF r
<1>6. /\ ring' \in Seq(RingRecord) /\ Len(ring') = Len(ring)
      /\ \A j \in 1 .. Len(ring) : ring'[j] = IF j = k THEN r ELSE ring[j]
    BY <1>1, <1>2, <1>3, <1>5, ExceptSeq
<1> QED BY <1>1, <1>2, <1>4, <1>5, <1>6 DEF Replaces, k

\* What submitting or discarding a record does to the ring.
LEMMA CommitFacts ==
    ASSUME RingType, RingOrder, RingCpus, NEW c \in Cpus, Commit(c)
    PROVE  /\ cpu[c] # 0 /\ ktime' = ktime /\ cpu' = [cpu EXCEPT ![c] = 0] /\ Replaces(At(cpu[c]))
           /\ ring[At(cpu[c])].ts # 0 /\ ring'[At(cpu[c])].ts = ring[At(cpu[c])].ts
           /\ ring'[At(cpu[c])].state = IF ring[At(cpu[c])].kind = "short"
                                        THEN "discarded" ELSE "ready"
<1> DEFINE k == At(cpu[c])
           st == IF ring[k].kind = "short" THEN "discarded" ELSE "ready"
           r == [ring[k] EXCEPT !.state = st]
<1>1. /\ cpu[c] # 0 /\ ring[k].ts # 0 /\ ktime' = ktime /\ handed' = handed
      /\ cpu' = [cpu EXCEPT ![c] = 0]
      /\ frames' = frames /\ reader' = reader /\ ring' = [ring EXCEPT ![k] = r]
    BY DEF Commit, pcapVars
<1>2. k \in 1 .. Len(ring)
    BY <1>1, AtFinds
<1> HIDE DEF k
<1>3. ring \in Seq(RingRecord) /\ ring[k] \in RingRecord
    BY <1>2, RecordTypes DEF RingType
<1>4. /\ r \in RingRecord /\ r.id = ring[k].id /\ r.kind = ring[k].kind
      /\ r.state = st /\ r.ts = ring[k].ts
    BY <1>3 DEF RingRecord
<1> HIDE DEF r
<1>5. /\ ring' \in Seq(RingRecord) /\ Len(ring') = Len(ring)
      /\ \A j \in 1 .. Len(ring) : ring'[j] = IF j = k THEN r ELSE ring[j]
    BY <1>1, <1>2, <1>3, <1>4, ExceptSeq
<1> QED BY <1>1, <1>2, <1>4, <1>5 DEF Replaces, k

\* The consumer takes the oldest record, and hands it out unless it was discarded.
LEMMA NextRecordFacts ==
    ASSUME RingType, NextRecord
    PROVE  /\ frames' = frames /\ ktime' = ktime /\ cpu' = cpu /\ reader' = reader
           /\ \/ ring' = ring /\ handed' = handed
              \/ /\ Len(ring) # 0 /\ ring[1].state # "busy"
                 /\ ring' \in Seq(RingRecord) /\ Len(ring') = Len(ring) - 1
                 /\ \A i \in 1 .. Len(ring') : ring'[i] = ring[i + 1]
                 /\ \/ handed' = handed /\ ring[1].state = "discarded"
                    \/ /\ ring[1].state # "discarded"
                       /\ handed' \in Seq(HandedPacket) /\ Len(handed') = Len(handed) + 1
                       /\ \A i \in 1 .. Len(handed) : handed'[i] = handed[i]
                       /\ handed'[Len(handed) + 1].id = ring[1].id
                       /\ handed'[Len(handed) + 1].ts = WallOffset + ring[1].ts
<1>1. frames' = frames /\ ktime' = ktime /\ cpu' = cpu /\ reader' = reader
    BY DEF NextRecord, pcapVars
<1>2. CASE ~ Ready(ring)
    BY <1>1, <1>2 DEF NextRecord
<1>3. CASE Ready(ring)
  <2>1. ring \in Seq(RingRecord) /\ handed \in Seq(HandedPacket) /\ ring # <<>>
      BY <1>3 DEF RingType, Ready
  <2>2. /\ Len(ring) # 0 /\ Head(ring) = ring[1] /\ ring[1] \in RingRecord
        /\ Tail(ring) \in Seq(RingRecord) /\ Len(Tail(ring)) = Len(ring) - 1
        /\ \A i \in 1 .. Len(Tail(ring)) : Tail(ring)[i] = ring[i + 1]
    <3>1. Head(ring) = ring[1] /\ Len(ring) # 0
        BY <2>1, EmptySeq
    <3> QED BY <2>1, <3>1, HeadTailProperties
  <2>3. ring' = Tail(ring) /\ ring[1].state # "busy"
      BY <1>3, <2>2 DEF NextRecord, Ready
  <2> DEFINE q == [id |-> ring[1].id, ts |-> WallOffset + ring[1].ts]
  <2>4. \/ handed' = handed /\ ring[1].state = "discarded"
        \/ handed' = Append(handed, q) /\ ring[1].state # "discarded"
      BY <1>3, <2>2 DEF NextRecord
  <2>5. q \in HandedPacket /\ q.id = ring[1].id /\ q.ts = WallOffset + ring[1].ts
      BY <2>2, CaptureAssumption DEF HandedPacket, RingRecord
  <2> HIDE DEF q
  <2>6. CASE handed' = handed /\ ring[1].state = "discarded"
      BY <1>1, <2>2, <2>3, <2>6
  <2>7. CASE handed' = Append(handed, q) /\ ring[1].state # "discarded"
    <3>1. /\ handed' \in Seq(HandedPacket) /\ Len(handed') = Len(handed) + 1
          /\ \A i \in 1 .. Len(handed) : handed'[i] = handed[i]
          /\ handed'[Len(handed) + 1] = q
        BY <2>1, <2>5, <2>7, AppendProperties
    <3> QED BY <1>1, <2>2, <2>3, <2>5, <2>7, <3>1
  <2> QED BY <2>4, <2>6, <2>7
<1> QED BY <1>2, <1>3

-----------------------------------------------------------------------------
(* Each step keeps the ring good.                                            *)

\* Fewer still are few.
LEMMA FewSubset == ASSUME NEW S, Few(S), NEW T, T \subseteq S PROVE Few(T)
<1>1. IsFiniteSet(S) /\ Cardinality(S) < Cardinality(Cpus) /\ T \in SUBSET S
    BY DEF Few
<1>2. IsFiniteSet(T) /\ Cardinality(T) <= Cardinality(S)
    BY <1>1, FS_Subset
<1>3. Cardinality(S) \in Nat /\ Cardinality(T) \in Nat /\ Cardinality(Cpus) \in Nat
    BY <1>1, <1>2, FS_CardinalityType, CaptureAssumption
<1> QED BY <1>1, <1>2, <1>3 DEF Few

\* What the CPUs other than one are filling in is less than one for each CPU.
LEMMA FewOthers ==
    ASSUME NEW S, NEW c \in Cpus, \A x \in S : \E d \in Cpus \ {c} : cpu[d] = x
    PROVE  Few(S)
<1> DEFINE f == [x \in S |-> CHOOSE d \in Cpus \ {c} : cpu[d] = x]
           T == Cpus \ {c}
<1>1. \A x \in S : f[x] \in T /\ cpu[f[x]] = x
    OBVIOUS
<1>2. f \in [S -> T]
    BY <1>1
<1> HIDE DEF f
<1>3. f \in Injection(S, T)
    BY <1>1, <1>2 DEF Injection, IsInjective
<1>4. IsFiniteSet(Cpus)
    BY CaptureAssumption
<1>5. IsFiniteSet(T) /\ Cardinality(T) = Cardinality(Cpus) - 1
    BY <1>4, FS_RemoveElement
<1> HIDE DEF T
<1>6. IsFiniteSet(S) /\ Cardinality(S) <= Cardinality(T)
    BY <1>3, <1>5, FS_Injection
<1>7. Cardinality(S) \in Nat /\ Cardinality(T) \in Nat /\ Cardinality(Cpus) \in Nat
    BY <1>4, <1>5, <1>6, FS_CardinalityType
<1> QED BY <1>5, <1>6, <1>7 DEF Few

\* A step that lets no stamped record overtake more, and hands nothing out.
LEMMA LateStays ==
    ASSUME RingLate, handed' = handed,
           \A j \in 1 .. Len(ring') : ring'[j].ts # 0 =>
              Few(Overtaken(j)') \/ \E k \in 1 .. Len(ring) :
                                     ring[k].ts # 0 /\ Overtaken(j)' \subseteq Overtaken(k)
    PROVE  RingLate'
<1>1. ASSUME NEW j \in 1 .. Len(ring'), ring'[j].ts # 0 PROVE Few(Overtaken(j)')
    BY <1>1, FewSubset DEF RingLate
<1>2. ASSUME NEW j \in 1 .. Len(handed') PROVE Few(OvertakenByHanded(j)')
  <2>1. OvertakenByHanded(j)' \subseteq OvertakenByHanded(j)
      BY DEF OvertakenByHanded
  <2> QED BY <2>1, FewSubset DEF RingLate
<1> QED BY <1>1, <1>2 DEF RingLate

\* A step that leaves the ring alone preserves its invariant.
LEMMA RestsGood == ASSUME RingGood, RingRests PROVE RingGood'
<1>1. RingType' /\ RingOrder' /\ RingClock' /\ RingCpus'
    BY DEF RingRests, RingGood, RingType, RingOrder, RingClock, RingCpus
<1>2. \A j : Overtaken(j)' \subseteq Overtaken(j)
    BY DEF RingRests, Overtaken
<1>3. RingLate'
    BY <1>2, LateStays DEF RingGood, RingRests
<1> QED BY <1>1, <1>3 DEF RingGood

\* A reservation puts an unstamped record behind all others.
LEMMA ReserveGood ==
    ASSUME RingGood, NEW c \in Cpus, Reserve(c) PROVE RingGood'
<1> DEFINE n == Len(ring)
<1>0. RingType /\ RingOrder /\ RingClock /\ RingCpus /\ RingLate
    BY DEF RingGood
<1>1. /\ handed' = handed /\ frames' = frames + 1 /\ ktime' = ktime /\ reader' = reader
      /\ cpu[c] = 0 /\ frames \in Nat /\ ktime \in Nat /\ cpu \in [Cpus -> Nat]
    BY <1>0, ReserveFacts DEF RingType
<1>2. /\ n \in Nat /\ \A j \in 1 .. n : ring[j] \in RingRecord
      /\ Len(handed) \in Nat /\ \A j \in 1 .. Len(handed) : handed[j] \in HandedPacket
    BY <1>0, RecordTypes
<1>3. CASE ring' = ring /\ cpu' = cpu
  <2>1. RingType' /\ RingClock' /\ RingCpus'
      BY <1>0, <1>1, <1>3 DEF RingType, RingClock, RingCpus
  <2>2. RingOrder'
      BY <1>0, <1>1, <1>2, <1>3 DEF RingOrder, RingRecord, HandedPacket
  <2>3. RingLate'
    <3>1. \A j : Overtaken(j)' \subseteq Overtaken(j)
        BY <1>1, <1>3 DEF Overtaken
    <3> QED BY <1>0, <1>1, <1>3, <3>1, LateStays
  <2> QED BY <2>1, <2>2, <2>3 DEF RingGood
<1>4. CASE ~ (ring' = ring /\ cpu' = cpu)
  <2>1. /\ ring' \in Seq(RingRecord) /\ Len(ring') = n + 1
        /\ \A i \in 1 .. n : ring'[i] = ring[i]
        /\ ring'[n + 1].id = frames + 1
        /\ ring'[n + 1].state = "busy" /\ ring'[n + 1].ts = 0
        /\ cpu' = [cpu EXCEPT ![c] = frames + 1]
      BY <1>0, <1>4, ReserveFacts
  <2> HIDE DEF n
  <2>2. 1 .. (n + 1) = (1 .. n) \cup {n + 1} /\ n + 1 \notin 1 .. n
      BY <1>2
  <2>3. RingType'
      BY <1>0, <1>1, <2>1 DEF RingType
  <2>4. RingOrder'
    <3>1. /\ \A i, j \in 1 .. n : i < j => ring[i].id < ring[j].id
          /\ \A j \in 1 .. n : ring[j].id <= frames /\ ring[j].id # 0 /\ ring[j].id \in Nat
          /\ \A i \in 1 .. Len(handed) : handed[i].id <= frames /\ handed[i].id \in Nat
          /\ \A i, j \in 1 .. Len(handed) : i < j => handed[i].id < handed[j].id
          /\ \A i \in 1 .. Len(handed), j \in 1 .. n : handed[i].id < ring[j].id
        BY <1>0, <1>2 DEF RingOrder, RingRecord, HandedPacket, n
    <3>2. ASSUME NEW i \in 1 .. (n + 1), NEW j \in 1 .. (n + 1), i < j
          PROVE  ring'[i].id < ring'[j].id
      <4>1. i \in 1 .. n /\ ring'[i] = ring[i]
          BY <1>2, <2>1, <3>2
      <4>2. CASE j \in 1 .. n
          BY <2>1, <3>1, <3>2, <4>1, <4>2
      <4>3. CASE j = n + 1
        <5>1. ring[i].id <= frames /\ ring[i].id \in Nat
            BY <3>1, <4>1
        <5> QED BY <1>1, <2>1, <4>1, <4>3, <5>1
      <4> QED BY <2>2, <4>2, <4>3
    <3>3. \A j \in 1 .. (n + 1) : ring'[j].id <= frames' /\ ring'[j].id # 0
        BY <1>1, <2>1, <2>2, <3>1
    <3>4. ASSUME NEW i \in 1 .. Len(handed), NEW j \in 1 .. (n + 1)
          PROVE  handed[i].id < ring'[j].id
      <4>1. CASE j \in 1 .. n
          BY <2>1, <3>1, <4>1
      <4>2. CASE j = n + 1
        <5>1. handed[i].id <= frames /\ handed[i].id \in Nat
            BY <3>1
        <5> QED BY <1>1, <2>1, <4>2, <5>1
      <4> QED BY <2>2, <4>1, <4>2
    <3>5. \A i \in 1 .. Len(handed) : handed[i].id <= frames'
        BY <1>1, <3>1
    <3> QED BY <1>1, <2>1, <3>1, <3>2, <3>3, <3>4, <3>5 DEF RingOrder
  <2>5. RingClock'
    <3>1. \A j \in 1 .. (n + 1) : ring'[j].ts <= ktime'
        BY <1>0, <1>1, <2>1, <2>2, SMTT(20) DEF RingClock, n
    <3> QED BY <1>0, <1>1, <2>1, <3>1 DEF RingClock
  <2>6. RingCpus'
    <3>1. /\ \A j \in 1 .. n : ring[j].id # frames + 1 /\ ring[j].id # 0
          /\ \A d \in Cpus : cpu[d] # frames + 1 /\ cpu[d] \in Nat
      <4>1. \A j \in 1 .. n : ring[j].id # frames + 1 /\ ring[j].id # 0
          BY <1>0, <1>1, <1>2 DEF RingOrder, RingRecord, n
      <4> QED BY <1>0, <1>1, <4>1 DEF RingCpus, n
    <3>2. \A d \in Cpus : cpu'[d] = IF d = c THEN frames + 1 ELSE cpu[d]
        BY <1>1, <2>1
    <3>3. \A j \in 1 .. (n + 1) :
             /\ ring'[j].state = "busy" <=> \E d \in Cpus : cpu'[d] = ring'[j].id
             /\ ring'[j].ts = 0 => ring'[j].state = "busy"
      <4>1. \A j \in 1 .. n :
               /\ ring[j].state = "busy" <=> \E d \in Cpus : cpu'[d] = ring[j].id
               /\ ring[j].ts = 0 => ring[j].state = "busy"
          BY <1>0, <1>1, <3>1, <3>2 DEF RingCpus, n
      <4> QED BY <2>1, <2>2, <3>2, <4>1
    <3>4. \A d \in Cpus : cpu'[d] # 0 => \E j \in 1 .. (n + 1) : ring'[j].id = cpu'[d]
        BY <1>0, <2>1, <2>2, <3>2 DEF RingCpus, n
    <3>5. \A d, e \in Cpus : cpu'[d] = cpu'[e] /\ cpu'[d] # 0 => d = e
        BY <1>0, <3>1, <3>2 DEF RingCpus
    <3> QED BY <2>1, <3>3, <3>4, <3>5 DEF RingCpus
  <2>7. RingLate'
    <3>1. ASSUME NEW j \in 1 .. Len(ring'), ring'[j].ts # 0
          PROVE  j \in 1 .. n /\ ring[j].ts # 0 /\ Overtaken(j)' \subseteq Overtaken(j)
      <4>1. j \in 1 .. n /\ ring'[j] = ring[j] /\ ring[j].ts # 0
          BY <2>1, <2>2, <3>1
      <4>2. Overtaken(j)' \subseteq Overtaken(j)
          BY <1>1, <1>2, <2>1, <2>2, <4>1 DEF Overtaken, n
      <4> QED BY <4>1, <4>2
    <3> QED BY <1>0, <1>1, <3>1, LateStays DEF n
  <2> QED BY <2>3, <2>4, <2>5, <2>6, <2>7 DEF RingGood
<1> QED BY <1>3, <1>4

\* What Stamp and Commit keep of the order, whatever they write.
LEMMA ReplacesOrder ==
    ASSUME RingType, RingOrder, NEW k \in 1 .. Len(ring), Replaces(k)
    PROVE  /\ RingOrder'
           /\ \A j \in 1 .. Len(ring) : ring'[j].id = ring[j].id
<1>1. \A j \in 1 .. Len(ring) : ring'[j].id = ring[j].id
    BY DEF Replaces
<1>2. Len(ring') = Len(ring) /\ handed' = handed /\ frames' = frames
    BY DEF Replaces
<1> QED BY <1>1, <1>2 DEF RingOrder

\* A stamp is later than all the ones before it.
LEMMA StampGood ==
    ASSUME RingGood, NEW c \in Cpus, Stamp(c) PROVE RingGood'
<1>0. RingType /\ RingOrder /\ RingClock /\ RingCpus /\ RingLate
    BY DEF RingGood
<1> PICK k : k = At(cpu[c])
    OBVIOUS
<1>1. /\ cpu[c] # 0 /\ ktime' = ktime + 1 /\ cpu' = cpu /\ Replaces(k)
      /\ ring[k].ts = 0 /\ ring'[k].ts = ktime + 1 /\ ring'[k].state = ring[k].state
    BY <1>0, StampFacts
<1>2. k \in 1 .. Len(ring) /\ ring[k].id = cpu[c]
    BY <1>0, <1>1, AtFinds
<1>3. /\ Len(ring') = Len(ring) /\ \A j \in 1 .. Len(ring) : j # k => ring'[j] = ring[j]
      /\ handed' = handed /\ frames' = frames /\ reader' = reader /\ ring' \in Seq(RingRecord)
    BY <1>1 DEF Replaces
<1>4. RingOrder' /\ \A j \in 1 .. Len(ring) : ring'[j].id = ring[j].id
    BY <1>0, <1>1, <1>2, ReplacesOrder
<1>5. /\ Len(ring) \in Nat /\ ktime \in Nat /\ WallOffset \in Nat
      /\ \A j \in 1 .. Len(ring) : ring[j].ts \in Nat /\ ring[j].id \in Nat
      /\ \A j \in 1 .. Len(handed) : handed[j].ts \in Nat /\ handed[j].id \in Nat
    BY <1>0, RecordTypes, CaptureAssumption DEF RingRecord, HandedPacket, RingType
<1>6. RingType'
    BY <1>0, <1>1, <1>3 DEF RingType
<1>7. RingClock'
  <2>1. ASSUME NEW j \in 1 .. Len(ring) PROVE ring'[j].ts <= ktime + 1
    <3>1. ring[j].ts <= ktime /\ ring[j].ts \in Nat
        BY <1>0, <1>5 DEF RingClock
    <3>2. ring'[j].ts \in {ktime + 1, ring[j].ts}
        BY <1>1, <1>3
    <3> QED BY <1>5, <3>1, <3>2
  <2>2. \A j \in 1 .. Len(handed) : handed[j].ts <= WallOffset + (ktime + 1)
      BY <1>0, <1>5 DEF RingClock
  <2> QED BY <1>1, <1>3, <2>1, <2>2 DEF RingClock
<1>8. RingCpus'
  <2>1. \A j \in 1 .. Len(ring) : ring'[j].state = ring[j].state
      BY <1>1, <1>3
  <2>2. \A j \in 1 .. Len(ring) : ring'[j].ts = 0 => ring[j].ts = 0
      BY <1>1, <1>3
  <2> QED BY <1>0, <1>1, <1>3, <1>4, <2>1, <2>2 DEF RingCpus
<1>9. RingLate'
  <2>1. Few(Overtaken(k)')
    <3>1. ASSUME NEW x \in Overtaken(k)' PROVE \E d \in Cpus \ {c} : cpu[d] = x
      <4>1. ~ \E i \in 1 .. Len(handed) : handed[i].ts > WallOffset + (ktime + 1)
          BY <1>0, <1>5 DEF RingClock
      <4>2. PICK i \in 1 .. Len(ring) :
               i < k /\ ring'[i].id = x /\ (ring'[i].ts = 0 \/ ring'[i].ts > ktime + 1)
        <5>1. \/ \E i \in 1 .. Len(handed') :
                    handed'[i].id = x /\ handed'[i].ts > WallOffset + ring'[k].ts
              \/ \E i \in 1 .. Len(ring') :
                    i < k /\ ring'[i].id = x /\ (ring'[i].ts = 0 \/ ring'[i].ts > ring'[k].ts)
            BY <3>1 DEF Overtaken
        <5> QED BY <1>1, <1>3, <4>1, <5>1
      <4>3. i # k /\ ring'[i] = ring[i] /\ ring[i].ts <= ktime /\ ring[i].ts \in Nat
          BY <1>0, <1>2, <1>3, <1>5, <4>2 DEF RingClock
      <4>4. ring[i].ts = 0 /\ ring[i].id = x
          BY <1>5, <4>2, <4>3
      <4>5. PICK d \in Cpus : cpu[d] = x
          BY <1>0, <4>4 DEF RingCpus
      <4>6. ring[i].id < ring[k].id /\ ring[i].id \in Nat /\ ring[k].id \in Nat
          BY <1>0, <1>2, <1>5, <4>2 DEF RingOrder
      <4>7. d # c
          BY <1>2, <4>4, <4>5, <4>6
      <4> QED BY <4>5, <4>7
    <3> QED BY <3>1, FewOthers
  <2>2. ASSUME NEW j \in 1 .. Len(ring), j # k
        PROVE  ring'[j] = ring[j] /\ Overtaken(j)' \subseteq Overtaken(j)
    <3>1. ring'[j] = ring[j]
        BY <1>3, <2>2
    <3>2. ASSUME NEW x \in Overtaken(j)' PROVE x \in Overtaken(j)
      <4>1. CASE \E i \in 1 .. Len(handed) :
                    handed[i].id = x /\ handed[i].ts > WallOffset + ring[j].ts
          BY <3>2, <4>1 DEF Overtaken
      <4>2. CASE \E i \in 1 .. Len(ring) :
                    i < j /\ ring'[i].id = x /\ (ring'[i].ts = 0 \/ ring'[i].ts > ring[j].ts)
        <5>1. PICK i \in 1 .. Len(ring) :
                    i < j /\ ring'[i].id = x /\ (ring'[i].ts = 0 \/ ring'[i].ts > ring[j].ts)
            BY <4>2
        <5>2. ring[i].id = x /\ (ring[i].ts = 0 \/ ring[i].ts > ring[j].ts)
            BY <1>1, <1>3, <1>4, <5>1
        <5> QED BY <3>2, <5>1, <5>2 DEF Overtaken
      <4>3. \/ \E i \in 1 .. Len(handed') :
                  handed'[i].id = x /\ handed'[i].ts > WallOffset + ring'[j].ts
            \/ \E i \in 1 .. Len(ring') :
                  i < j /\ ring'[i].id = x /\ (ring'[i].ts = 0 \/ ring'[i].ts > ring'[j].ts)
          BY <3>2 DEF Overtaken
      <4> QED BY <1>3, <3>1, <4>1, <4>2, <4>3
    <3> QED BY <3>1, <3>2
  <2> QED BY <1>0, <1>3, <2>1, <2>2, LateStays
<1> QED BY <1>4, <1>6, <1>7, <1>8, <1>9 DEF RingGood

\* A submission changes no time.
LEMMA CommitGood ==
    ASSUME RingGood, NEW c \in Cpus, Commit(c) PROVE RingGood'
<1> DEFINE k == At(cpu[c])
<1>0. RingType /\ RingOrder /\ RingClock /\ RingCpus /\ RingLate
    BY DEF RingGood
<1>1. /\ cpu[c] # 0 /\ ktime' = ktime /\ cpu' = [cpu EXCEPT ![c] = 0] /\ Replaces(k)
      /\ ring[k].ts # 0 /\ ring'[k].ts = ring[k].ts /\ ring'[k].state # "busy"
    BY <1>0, CommitFacts
<1>2. k \in 1 .. Len(ring) /\ ring[k].id = cpu[c]
    BY <1>0, <1>1, AtFinds
<1> HIDE DEF k
<1>3. /\ Len(ring') = Len(ring) /\ \A j \in 1 .. Len(ring) : j # k => ring'[j] = ring[j]
      /\ handed' = handed /\ frames' = frames /\ reader' = reader /\ ring' \in Seq(RingRecord)
    BY <1>1 DEF Replaces
<1>4. RingOrder' /\ \A j \in 1 .. Len(ring) : ring'[j].id = ring[j].id
    BY <1>0, <1>1, <1>2, ReplacesOrder
<1>5. \A j \in 1 .. Len(ring) : ring'[j].ts = ring[j].ts
    BY <1>1, <1>3
<1>6. RingType' /\ \A d \in Cpus : cpu'[d] = IF d = c THEN 0 ELSE cpu[d]
    BY <1>0, <1>1, <1>3 DEF RingType
<1>7. RingClock'
    BY <1>0, <1>1, <1>3, <1>5 DEF RingClock
<1>8. RingCpus'
  <2>1. \A j \in 1 .. Len(ring) : ring[j].id # 0 /\ (j # k => ring[j].id # cpu[c])
    <3>1. \A j \in 1 .. Len(ring) : ring[j].id \in Nat /\ j \in Int
        BY <1>0, RecordTypes DEF RingRecord
    <3> QED BY <1>0, <1>2, <3>1 DEF RingOrder
  <2>2. ASSUME NEW j \in 1 .. Len(ring)
        PROVE  /\ ring'[j].state = "busy" <=> \E d \in Cpus : cpu'[d] = ring[j].id
               /\ ring'[j].ts = 0 => ring'[j].state = "busy"
    <3>1. CASE j = k
      <4>1. ~ \E d \in Cpus : cpu'[d] = ring[k].id
          BY <1>0, <1>1, <1>2, <1>6, <2>1 DEF RingCpus
      <4> QED BY <1>1, <3>1, <4>1
    <3>2. CASE j # k
      <4>1. ring'[j] = ring[j]
          BY <1>3, <3>2
      <4>2. (\E d \in Cpus : cpu'[d] = ring[j].id) <=> (\E d \in Cpus : cpu[d] = ring[j].id)
          BY <1>6, <2>1, <3>2
      <4> QED BY <1>0, <4>1, <4>2 DEF RingCpus
    <3> QED BY <3>1, <3>2
  <2>3. \A d \in Cpus : cpu'[d] # 0 => \E j \in 1 .. Len(ring) : ring[j].id = cpu'[d]
      BY <1>0, <1>6 DEF RingCpus
  <2>4. \A d, e \in Cpus : cpu'[d] = cpu'[e] /\ cpu'[d] # 0 => d = e
      BY <1>0, <1>6 DEF RingCpus
  <2> QED BY <1>3, <1>4, <2>2, <2>3, <2>4 DEF RingCpus
<1>9. RingLate'
  <2>1. ASSUME NEW j \in 1 .. Len(ring) PROVE Overtaken(j)' \subseteq Overtaken(j)
      BY <1>3, <1>4, <1>5 DEF Overtaken
  <2> QED BY <1>0, <1>3, <1>5, <2>1, LateStays
<1> QED BY <1>4, <1>6, <1>7, <1>8, <1>9 DEF RingGood

\* The consumer takes the oldest record, so what it overtakes is still there.
LEMMA NextRecordGood ==
    ASSUME RingGood, NextRecord PROVE RingGood'
<1> DEFINE n == Len(ring)
           m == Len(handed)
<1>0. RingType /\ RingOrder /\ RingClock /\ RingCpus /\ RingLate
    BY DEF RingGood
<1>1. frames' = frames /\ ktime' = ktime /\ cpu' = cpu /\ reader' = reader
    BY <1>0, NextRecordFacts
<1>2. CASE ring' = ring /\ handed' = handed
    BY <1>1, <1>2, RestsGood DEF RingRests
<1>3. CASE ~ (ring' = ring /\ handed' = handed)
  <2>1. /\ n # 0 /\ ring[1].state # "busy"
        /\ ring' \in Seq(RingRecord) /\ Len(ring') = n - 1
        /\ \A i \in 1 .. Len(ring') : ring'[i] = ring[i + 1]
      BY <1>0, <1>3, NextRecordFacts
  <2>2. \/ handed' = handed
        \/ /\ handed' \in Seq(HandedPacket) /\ Len(handed') = m + 1
           /\ \A i \in 1 .. m : handed'[i] = handed[i]
           /\ handed'[m + 1].id = ring[1].id /\ handed'[m + 1].ts = WallOffset + ring[1].ts
      BY <1>0, <1>3, NextRecordFacts
  <2>3. /\ n \in Nat /\ m \in Nat /\ ktime \in Nat /\ WallOffset \in Nat /\ frames \in Nat
        /\ \A j \in 1 .. n : ring[j].ts \in Nat /\ ring[j].id \in Nat
        /\ \A j \in 1 .. m : handed[j].ts \in Nat /\ handed[j].id \in Nat
      BY <1>0, RecordTypes, CaptureAssumption DEF RingRecord, HandedPacket, RingType
  <2>4. /\ \A i, j \in 1 .. m : i < j => handed[i].id < handed[j].id
        /\ \A i, j \in 1 .. n : i < j => ring[i].id < ring[j].id
        /\ \A i \in 1 .. m, j \in 1 .. n : handed[i].id < ring[j].id
        /\ \A i \in 1 .. m : handed[i].id <= frames
        /\ \A j \in 1 .. n : ring[j].id <= frames /\ ring[j].id # 0
      BY <1>0 DEF RingOrder
  <2>5. /\ \A j \in 1 .. n :
             /\ ring[j].state = "busy" <=> \E c \in Cpus : cpu[c] = ring[j].id
             /\ ring[j].ts = 0 => ring[j].state = "busy"
        /\ \A c \in Cpus : cpu[c] # 0 => \E j \in 1 .. n : ring[j].id = cpu[c]
        /\ \A c, d \in Cpus : cpu[c] = cpu[d] /\ cpu[c] # 0 => c = d
      BY <1>0 DEF RingCpus
  <2>6. /\ \A i \in 1 .. m : handed[i].ts <= WallOffset + ktime
        /\ \A j \in 1 .. n : ring[j].ts <= ktime
      BY <1>0 DEF RingClock
  <2>7. \A j \in 1 .. Len(ring') : j + 1 \in 1 .. n /\ ring'[j] = ring[j + 1] /\ j + 1 # 1
      BY <2>1, <2>3
  <2>8. 1 \in 1 .. n
      BY <2>1, <2>3
  <2> HIDE DEF n, m
  <2>9. RingType'
      BY <1>0, <1>1, <2>1, <2>2 DEF RingType
  <2>10. RingCpus'
    <3>1. \A c \in Cpus : cpu[c] # 0 => \E j \in 1 .. Len(ring') : ring'[j].id = cpu[c]
      <4> SUFFICES ASSUME NEW c \in Cpus, cpu[c] # 0
                   PROVE  \E j \in 1 .. Len(ring') : ring'[j].id = cpu[c]
          OBVIOUS
      <4>1. PICK j \in 1 .. n : ring[j].id = cpu[c]
          BY <2>5
      <4>2. j # 1
          BY <2>1, <2>5, <4>1
      <4>3. j - 1 \in 1 .. Len(ring') /\ (j - 1) + 1 = j
          BY <2>1, <2>3, <4>2
      <4>4. ring'[j - 1] = ring[(j - 1) + 1]
          BY <2>7, <4>3
      <4> QED BY <4>1, <4>3, <4>4
    <3>2. \A j \in 1 .. Len(ring') :
             /\ ring'[j].state = "busy" <=> \E c \in Cpus : cpu[c] = ring'[j].id
             /\ ring'[j].ts = 0 => ring'[j].state = "busy"
        BY <2>5, <2>7
    <3> QED BY <1>1, <2>5, <3>1, <3>2 DEF RingCpus
  <2>11. /\ \A i, j \in 1 .. Len(ring') : i < j => ring'[i].id < ring'[j].id
         /\ \A j \in 1 .. Len(ring') : ring'[j].id <= frames /\ ring'[j].id # 0 /\ ring'[j].ts <= ktime
         /\ \A j \in 1 .. Len(ring') : ring[1].id < ring'[j].id
         /\ \A i \in 1 .. m, j \in 1 .. Len(ring') : handed[i].id < ring'[j].id
    <3>1. ASSUME NEW i \in 1 .. Len(ring'), NEW j \in 1 .. Len(ring'), i < j
          PROVE  ring'[i].id < ring'[j].id
      <4>1. i + 1 < j + 1 /\ i + 1 \in 1 .. n /\ j + 1 \in 1 .. n
          BY <2>1, <2>3, <2>7, <3>1
      <4> QED BY <2>4, <2>7, <4>1
    <3>2. ASSUME NEW j \in 1 .. Len(ring')
          PROVE  ring'[j].id <= frames /\ ring'[j].id # 0 /\ ring'[j].ts <= ktime
        BY <2>4, <2>6, <2>7
    <3>3. ASSUME NEW j \in 1 .. Len(ring') PROVE ring[1].id < ring'[j].id
      <4>1. 1 < j + 1 /\ j + 1 \in 1 .. n
          BY <2>1, <2>3, <2>7
      <4> QED BY <2>4, <2>7, <2>8, <4>1
    <3>4. ASSUME NEW i \in 1 .. m, NEW j \in 1 .. Len(ring') PROVE handed[i].id < ring'[j].id
        BY <2>4, <2>7
    <3> QED BY <3>1, <3>2, <3>3, <3>4
  <2>12. CASE handed' = handed
    <3>1. RingOrder'
        BY <1>1, <2>4, <2>11, <2>12 DEF RingOrder, m
    <3>2. RingClock'
        BY <1>1, <2>6, <2>11, <2>12 DEF RingClock, m
    <3>3. RingLate'
      <4>1. ASSUME NEW j \in 1 .. Len(ring') PROVE Overtaken(j)' \subseteq Overtaken(j + 1)
        <5>1. ASSUME NEW x \in Overtaken(j)' PROVE x \in Overtaken(j + 1)
          <6>1. \/ \E i \in 1 .. Len(handed') :
                      handed'[i].id = x /\ handed'[i].ts > WallOffset + ring'[j].ts
                \/ \E i \in 1 .. Len(ring') :
                      i < j /\ ring'[i].id = x /\ (ring'[i].ts = 0 \/ ring'[i].ts > ring'[j].ts)
              BY <5>1 DEF Overtaken
          <6>2. CASE \E i \in 1 .. Len(handed') :
                        handed'[i].id = x /\ handed'[i].ts > WallOffset + ring'[j].ts
              BY <2>7, <2>12, <5>1, <6>2 DEF Overtaken
          <6>3. CASE \E i \in 1 .. Len(ring') :
                        i < j /\ ring'[i].id = x /\ (ring'[i].ts = 0 \/ ring'[i].ts > ring'[j].ts)
            <7>1. PICK i \in 1 .. Len(ring') :
                        i < j /\ ring'[i].id = x /\ (ring'[i].ts = 0 \/ ring'[i].ts > ring'[j].ts)
                BY <6>3
            <7>2. /\ i + 1 \in 1 .. Len(ring) /\ i + 1 < j + 1 /\ ring[i + 1].id = x
                  /\ (ring[i + 1].ts = 0 \/ ring[i + 1].ts > ring[j + 1].ts)
                BY <2>1, <2>3, <2>7, <7>1 DEF n
            <7> QED BY <5>1, <7>2 DEF Overtaken
          <6> QED BY <6>1, <6>2, <6>3
        <5> QED BY <5>1
      <4>2. \A j \in 1 .. Len(ring') : ring'[j].ts # 0 =>
               \E k \in 1 .. Len(ring) : ring[k].ts # 0 /\ Overtaken(j)' \subseteq Overtaken(k)
          BY <2>7, <4>1 DEF n
      <4> QED BY <1>0, <2>12, <4>2, LateStays
    <3> QED BY <2>9, <2>10, <3>1, <3>2, <3>3 DEF RingGood
  <2>13. CASE handed' # handed
    <3>1. /\ Len(handed') = m + 1 /\ \A i \in 1 .. m : handed'[i] = handed[i]
          /\ handed'[m + 1].id = ring[1].id /\ handed'[m + 1].ts = WallOffset + ring[1].ts
        BY <2>2, <2>13
    <3>2. 1 .. (m + 1) = (1 .. m) \cup {m + 1} /\ m + 1 \notin 1 .. m
        BY <2>3
    <3>3. RingOrder'
      <4>1. ASSUME NEW i \in 1 .. (m + 1), NEW j \in 1 .. (m + 1), i < j
            PROVE  handed'[i].id < handed'[j].id
        <5>1. i \in 1 .. m /\ handed'[i] = handed[i]
            BY <2>3, <3>1, <4>1
        <5>2. CASE j \in 1 .. m
            BY <2>4, <3>1, <4>1, <5>1, <5>2
        <5>3. CASE j = m + 1
            BY <2>4, <2>8, <3>1, <5>1, <5>3
        <5> QED BY <3>2, <5>2, <5>3
      <4>2. ASSUME NEW i \in 1 .. (m + 1), NEW j \in 1 .. Len(ring')
            PROVE  handed'[i].id < ring'[j].id
        <5>1. CASE i \in 1 .. m
            BY <2>11, <3>1, <5>1
        <5>2. CASE i = m + 1
            BY <2>11, <3>1, <5>2
        <5> QED BY <3>2, <5>1, <5>2
      <4>3. \A i \in 1 .. (m + 1) : handed'[i].id <= frames
          BY <2>4, <2>8, <3>1, <3>2
      <4> QED BY <1>1, <2>11, <3>1, <4>1, <4>2, <4>3 DEF RingOrder
    <3>4. RingClock'
      <4>1. WallOffset + ring[1].ts <= WallOffset + ktime
          BY <2>3, <2>6, <2>8
      <4>2. \A i \in 1 .. (m + 1) : handed'[i].ts <= WallOffset + ktime
          BY <2>6, <3>1, <3>2, <4>1
      <4> QED BY <1>1, <2>11, <3>1, <4>2 DEF RingClock
    <3>5. RingLate'
      <4>1. ASSUME NEW j \in 1 .. Len(ring'), ring'[j].ts # 0 PROVE Few(Overtaken(j)')
        <5>1. ASSUME NEW x \in Overtaken(j)' PROVE x \in Overtaken(j + 1)
          <6>1. \/ \E i \in 1 .. Len(handed') :
                      handed'[i].id = x /\ handed'[i].ts > WallOffset + ring'[j].ts
                \/ \E i \in 1 .. Len(ring') :
                      i < j /\ ring'[i].id = x /\ (ring'[i].ts = 0 \/ ring'[i].ts > ring'[j].ts)
              BY <5>1 DEF Overtaken
          <6>2. CASE \E i \in 1 .. Len(handed') :
                        handed'[i].id = x /\ handed'[i].ts > WallOffset + ring'[j].ts
            <7>1. PICK i \in 1 .. (m + 1) :
                        handed'[i].id = x /\ handed'[i].ts > WallOffset + ring'[j].ts
                BY <3>1, <6>2
            <7>2. CASE i \in 1 .. m
                BY <2>7, <3>1, <5>1, <7>1, <7>2 DEF Overtaken, m
            <7>3. CASE i = m + 1
              <8>1. ring[1].id = x /\ ring[1].ts > ring[j + 1].ts
                  BY <2>3, <2>7, <2>8, <3>1, <7>1, <7>3, SMTT(20)
              <8>2. 1 \in 1 .. Len(ring) /\ 1 < j + 1
                  BY <2>1, <2>3, <2>7, <2>8 DEF n
              <8> QED BY <5>1, <8>1, <8>2 DEF Overtaken
            <7> QED BY <3>2, <7>1, <7>2, <7>3
          <6>3. CASE \E i \in 1 .. Len(ring') :
                        i < j /\ ring'[i].id = x /\ (ring'[i].ts = 0 \/ ring'[i].ts > ring'[j].ts)
            <7>1. PICK i \in 1 .. Len(ring') :
                        i < j /\ ring'[i].id = x /\ (ring'[i].ts = 0 \/ ring'[i].ts > ring'[j].ts)
                BY <6>3
            <7>2. /\ i + 1 \in 1 .. Len(ring) /\ i + 1 < j + 1 /\ ring[i + 1].id = x
                  /\ (ring[i + 1].ts = 0 \/ ring[i + 1].ts > ring[j + 1].ts)
                BY <2>1, <2>3, <2>7, <7>1 DEF n
            <7> QED BY <5>1, <7>2 DEF Overtaken
          <6> QED BY <6>1, <6>2, <6>3
        <5>2. Overtaken(j)' \subseteq Overtaken(j + 1)
            BY <5>1
        <5>3. Few(Overtaken(j + 1))
            BY <1>0, <2>7, <4>1 DEF RingLate, n
        <5> QED BY <5>2, <5>3, FewSubset
      <4>2. ASSUME NEW j \in 1 .. (m + 1) PROVE Few(OvertakenByHanded(j)')
        <5>1. \A x \in OvertakenByHanded(j)' : \E i \in 1 .. m :
                 i < j /\ handed[i].id = x /\ handed[i].ts > handed'[j].ts /\ x \in Nat
          <6> SUFFICES ASSUME NEW x \in OvertakenByHanded(j)'
                       PROVE  \E i \in 1 .. m :
                                 i < j /\ handed[i].id = x /\ handed[i].ts > handed'[j].ts /\ x \in Nat
              OBVIOUS
          <6>1. PICK i \in 1 .. Len(handed') :
                   i < j /\ handed'[i].id = x /\ handed'[i].ts > handed'[j].ts /\ x \in Nat
              BY DEF OvertakenByHanded
          <6>2. i \in 1 .. m
              BY <2>3, <3>1, <6>1
          <6> QED BY <3>1, <6>1, <6>2
        <5>2. CASE j \in 1 .. m
          <6>1. OvertakenByHanded(j)' \subseteq OvertakenByHanded(j)
              BY <3>1, <5>1, <5>2 DEF OvertakenByHanded, m
          <6>2. Few(OvertakenByHanded(j))
              BY <1>0, <5>2 DEF RingLate, m
          <6> QED BY <6>1, <6>2, FewSubset
        <5>3. CASE j = m + 1
          <6>1. OvertakenByHanded(j)' \subseteq Overtaken(1)
              BY <3>1, <5>1, <5>3 DEF Overtaken, m
          <6>2. Few(Overtaken(1))
              BY <1>0, <2>1, <2>5, <2>8 DEF RingLate, n
          <6> QED BY <6>1, <6>2, FewSubset
        <5> QED BY <3>2, <5>2, <5>3
      <4> QED BY <3>1, <4>1, <4>2 DEF RingLate
    <3> QED BY <2>9, <2>10, <3>3, <3>4, <3>5 DEF RingGood
  <2> QED BY <2>12, <2>13
<1> QED BY <1>2, <1>3

-----------------------------------------------------------------------------
(* Theorems.                                                                 *)

\* The ring starts out empty.
LEMMA RingInitGood == ASSUME Init, backend = "ebpf" PROVE RingGood
<1>1. /\ ring = <<>> /\ handed = <<>> /\ frames = 0 /\ ktime = 0 /\ cpu = [c \in Cpus |-> 0]
      /\ reader.phase = "none" /\ Len(ring) = 0 /\ Len(handed) = 0
    BY DEF Init, Unread, NewReader
<1>2. RingType
    BY <1>1, EmptySeq DEF RingType
<1>3. RingOrder /\ RingClock /\ RingCpus /\ RingLate
    BY <1>1 DEF RingOrder, RingClock, RingCpus, RingLate
<1> QED BY <1>2, <1>3 DEF RingGood

(* In every state of the eBPF backend, records leave the ring in the order   *)
(* of their reservations, a busy record belongs to one CPU, and a stamped    *)
(* one overtakes fewer frames than there are CPUs (l4scope.bpf.c:56-99).     *)
THEOREM RingInvariant == Spec => []RingInv
<1>1. Init => RingInv
    BY RingInitGood DEF RingInv
<1>2. ASSUME RingInv, [Next]_vars PROVE RingInv'
  <2>1. CASE backend # "ebpf"
    <3>1. backend' = backend
        BY <1>2 DEF Next, Opening, OpenFails, OpenAtOnce, OpenStream, Source, ReadBytes, ReadEof,
           NextScripted, NextRecord, PollReturns, ReadFails, ToolWrites, ToolExits, DropSource,
           WaitReturns, Reserve, Kernel, Stamp, Commit, Done, vars
    <3> QED BY <2>1, <3>1 DEF RingInv
  <2>2. CASE backend = "ebpf"
    <3>1. RingGood
        BY <1>2, <2>2 DEF RingInv
    <3>2. RingRests \/ NextRecord \/ \E c \in Cpus : Reserve(c) \/ Stamp(c) \/ Commit(c)
        BY <1>2, <2>2, <3>1, EbpfSteps DEF RingGood
    <3>3. RingGood'
        BY <3>1, <3>2, RestsGood, NextRecordGood, ReserveGood, StampGood, CommitGood
    <3> QED BY <3>3 DEF RingInv
  <2> QED BY <2>1, <2>2
<1> QED BY <1>1, <1>2, PTL DEF Spec

(* A packet of the eBPF backend comes after fewer packets with a later time  *)
(* than there are CPUs, however many CPUs there are and however long they    *)
(* are delayed between reserving and stamping (l4scope.bpf.c:61-65).         *)
THEOREM DisorderIsBounded == Spec => []DisorderBounded
<1>1. ASSUME RingInv PROVE DisorderBounded
  <2> SUFFICES ASSUME backend = "ebpf", NEW j \in DOMAIN handed
               PROVE  Cardinality({i \in 1 .. j - 1 : handed[i].ts > handed[j].ts}) < Cardinality(Cpus)
      BY DEF DisorderBounded
  <2> DEFINE S == {i \in 1 .. j - 1 : handed[i].ts > handed[j].ts}
             T == OvertakenByHanded(j)
             f == [i \in S |-> handed[i].id]
  <2>1. RingType /\ RingOrder /\ RingLate
      BY <1>1 DEF RingInv, RingGood
  <2>2. /\ Len(handed) \in Nat /\ j \in 1 .. Len(handed)
        /\ \A i \in 1 .. Len(handed) : handed[i].id \in Nat
      BY <2>1, RecordTypes DEF HandedPacket
  <2>3. \A i \in S : i \in 1 .. Len(handed) /\ i < j /\ handed[i].ts > handed[j].ts
      BY <2>2
  <2>4. \A i \in S : handed[i].id \in T
      BY <2>2, <2>3 DEF OvertakenByHanded
  <2>5. \A h, i \in S : handed[h].id = handed[i].id => h = i
    <3> SUFFICES ASSUME NEW h \in S, NEW i \in S, h # i PROVE handed[h].id # handed[i].id
        OBVIOUS
    <3>1. h < i \/ i < h
        BY <2>2, <2>3
    <3>2. handed[h].id < handed[i].id \/ handed[i].id < handed[h].id
        BY <2>1, <2>3, <3>1 DEF RingOrder
    <3> QED BY <2>2, <2>3, <3>2
  <2> HIDE DEF S, T
  <2>6. f \in Injection(S, T)
      BY <2>4, <2>5 DEF Injection, IsInjective
  <2>7. IsFiniteSet(T) /\ Cardinality(T) < Cardinality(Cpus)
      BY <2>1, <2>2 DEF RingLate, Few, T
  <2> HIDE DEF f
  <2>8. IsFiniteSet(S) /\ Cardinality(S) <= Cardinality(T)
      BY <2>6, <2>7, FS_Injection
  <2>9. Cardinality(S) \in Nat /\ Cardinality(T) \in Nat /\ Cardinality(Cpus) \in Nat
      BY <2>7, <2>8, FS_CardinalityType, CaptureAssumption
  <2>10. Cardinality(S) < Cardinality(Cpus)
      BY <2>7, <2>8, <2>9
  <2> QED BY <2>10 DEF S
<1> QED BY <1>1, RingInvariant, PTL

-----------------------------------------------------------------------------
(* The packets that are still owed: members of a sequence at some places.    *)

\* The sums of the model are those of SumProofs.
LEMMA SumIsSumOver == ASSUME NEW f, NEW S PROVE SumFunctionOnSet(f, S) = SumOver(f, S)
BY DEF SumFunctionOnSet, FoldFunctionOnSet, SumOver, MapThenSumSet, MapThenFoldSet

\* How many of some places are no further than one of them.
Rank(P, p) == Cardinality({q \in P : q <= p})

\* Ranks run from 1 to the number of places, and increase.
LEMMA RankFacts ==
    ASSUME NEW P \in SUBSET Nat, IsFiniteSet(P)
    PROVE  /\ Cardinality(P) \in Nat
           /\ \A p \in P : Rank(P, p) \in 1 .. Cardinality(P)
           /\ \A p, r \in P : p < r => Rank(P, p) < Rank(P, r)
<1>1. \A p \in Nat : /\ IsFiniteSet({q \in P : q <= p}) /\ Rank(P, p) \in Nat
                     /\ Rank(P, p) <= Cardinality(P)
  <2> SUFFICES ASSUME NEW p \in Nat
               PROVE  /\ IsFiniteSet({q \in P : q <= p}) /\ Rank(P, p) \in Nat
                      /\ Rank(P, p) <= Cardinality(P)
      OBVIOUS
  <2>1. {q \in P : q <= p} \in SUBSET P
      OBVIOUS
  <2> QED BY <2>1, FS_Subset, FS_CardinalityType DEF Rank
<1>2. Cardinality(P) \in Nat
    BY FS_CardinalityType
<1>3. ASSUME NEW p \in P PROVE Rank(P, p) # 0
  <2>1. p \in {q \in P : q <= p}
      OBVIOUS
  <2> QED BY <1>1, <2>1, FS_EmptySet DEF Rank
<1>4. ASSUME NEW p \in P, NEW r \in P, p < r PROVE Rank(P, p) < Rank(P, r)
  <2> DEFINE S == {q \in P : q <= p}
             T == {q \in P : q <= r}
  <2>0. p \in Nat /\ r \in Nat /\ \A q \in P : q \in Nat
      OBVIOUS
  <2>1. S \in SUBSET T /\ r \in T /\ r \notin S
    <3>1. \A q \in S : q \in T
        BY <1>4, <2>0
    <3>2. r <= r /\ ~ (r <= p)
        BY <1>4, <2>0
    <3> QED BY <3>1, <3>2
  <2>2. IsFiniteSet(T) /\ Cardinality(S) \in Nat /\ Cardinality(T) \in Nat
      BY <1>1 DEF Rank
  <2> HIDE DEF S, T
  <2>3. Cardinality(S) <= Cardinality(T) /\ Cardinality(T) # Cardinality(S)
      BY <2>1, <2>2, FS_Subset
  <2>4. Cardinality(S) < Cardinality(T)
      BY <2>2, <2>3
  <2> QED BY <2>4 DEF S, T, Rank
<1>5. \A p \in P : Rank(P, p) \in 1 .. Cardinality(P)
  <2> TAKE p \in P
  <2>1. p \in Nat
      OBVIOUS
  <2>2. Rank(P, p) \in Nat /\ Rank(P, p) <= Cardinality(P)
      BY <1>1, <2>1
  <2>3. Rank(P, p) # 0
      BY <1>3
  <2> QED BY <1>2, <2>2, <2>3
<1> QED BY <1>2, <1>4, <1>5

\* The k-th place is the place of rank k, and there is one for every k.
LEMMA PlaceFacts ==
    ASSUME NEW P \in SUBSET Nat, IsFiniteSet(P)
    PROVE  /\ \A p \in P : Place(P, Rank(P, p)) = p
           /\ \A k \in 1 .. Cardinality(P) : Place(P, k) \in P /\ Rank(P, Place(P, k)) = k
<1> DEFINE n == Cardinality(P)
           f == [p \in P |-> Rank(P, p)]
<1>1. \A p, r \in P : Rank(P, p) = Rank(P, r) => p = r
  <2> SUFFICES ASSUME NEW p \in P, NEW r \in P, p # r PROVE Rank(P, p) # Rank(P, r)
      OBVIOUS
  <2>1. p < r \/ r < p
      OBVIOUS
  <2>2. Rank(P, p) \in Int /\ Rank(P, r) \in Int
      BY RankFacts
  <2>3. Rank(P, p) < Rank(P, r) \/ Rank(P, r) < Rank(P, p)
      BY <2>1, RankFacts
  <2> QED BY <2>2, <2>3
<1>2. f \in [P -> 1 .. n] /\ n \in Nat
    BY RankFacts
<1>3. f \in Injection(P, 1 .. n)
    BY <1>1, <1>2 DEF Injection, IsInjective
<1>4. IsFiniteSet(1 .. n) /\ Cardinality(1 .. n) = n
    BY <1>2, FS_Interval
<1> HIDE DEF f
<1>5. f \in Surjection(P, 1 .. n)
    BY <1>3, <1>4, FS_Injection
<1>6. \A k \in 1 .. n : \E p \in P : Rank(P, p) = k
    BY <1>5 DEF Surjection, f
<1>7. \A k \in 1 .. n : Place(P, k) \in P /\ Rank(P, Place(P, k)) = k
    BY <1>6 DEF Place, Rank
<1>8. \A p \in P : Place(P, Rank(P, p)) = p
  <2> TAKE p \in P
  <2>1. Rank(P, p) \in 1 .. n
      BY RankFacts
  <2> QED BY <1>1, <1>7, <2>1
<1> QED BY <1>7, <1>8

\* Members of s at places where it has members.
LEMMA AtPlacesIs ==
    ASSUME NEW P \in SUBSET Nat, IsFiniteSet(P), NEW s
    PROVE  /\ Cardinality(P) \in Nat /\ Len(AtPlaces(s, P)) = Cardinality(P)
           /\ DOMAIN AtPlaces(s, P) = 1 .. Cardinality(P)
           /\ \A p \in P : Rank(P, p) \in 1 .. Cardinality(P) /\ AtPlaces(s, P)[Rank(P, p)] = s[p]
           /\ \A k \in 1 .. Cardinality(P) : \E p \in P : k = Rank(P, p) /\ AtPlaces(s, P)[k] = s[p]
<1> DEFINE n == Cardinality(P)
           a == AtPlaces(s, P)
<1>1. n \in Nat
    BY FS_CardinalityType
<1>2. a = [k \in 1 .. n |-> s[Place(P, k)]]
    BY DEF AtPlaces
<1>3. DOMAIN a = 1 .. n /\ \A k \in 1 .. n : a[k] = s[Place(P, k)]
    BY <1>2
<1>4. Len(a) = n
    BY <1>1, <1>2
<1>5. \A p \in P : Rank(P, p) \in 1 .. n /\ a[Rank(P, p)] = s[p]
    BY <1>3, RankFacts, PlaceFacts
<1>6. \A k \in 1 .. n : \E p \in P : k = Rank(P, p) /\ a[k] = s[p]
    BY <1>3, PlaceFacts
<1> QED BY <1>1, <1>3, <1>4, <1>5, <1>6

\* They form a sequence.
LEMMA AtPlacesType ==
    ASSUME NEW P \in SUBSET Nat, IsFiniteSet(P), NEW s, NEW V, \A p \in P : s[p] \in V
    PROVE  AtPlaces(s, P) \in Seq(V)
<1>1. \A k \in 1 .. Cardinality(P) : s[Place(P, k)] \in V
    BY PlaceFacts
<1>2. Cardinality(P) \in Nat
    BY FS_CardinalityType
<1> QED BY <1>1, <1>2, IsASeq DEF AtPlaces

\* Nothing at no places.
LEMMA AtNoPlaces == ASSUME NEW s PROVE AtPlaces(s, {}) = <<>>
<1>1. IsFiniteSet({}) /\ Cardinality({}) = 0
    BY FS_EmptySet
<1>2. AtPlaces(s, {}) \in Seq({})
    BY <1>1, AtPlacesType
<1>3. Len(AtPlaces(s, {})) = 0
    BY <1>1, AtPlacesIs
<1> QED BY <1>2, <1>3, EmptySeq

\* Places behind the others add members at the end.
LEMMA AtPlacesPrefix ==
    ASSUME NEW P \in SUBSET Nat, NEW Q \in SUBSET Nat, IsFiniteSet(Q), P \subseteq Q,
           \A p \in P, q \in Q \ P : p < q,
           NEW s, NEW t, \A p \in P : t[p] = s[p],
           NEW V, \A q \in Q : t[q] \in V
    PROVE  IsPrefix(AtPlaces(s, P), AtPlaces(t, Q))
<1> DEFINE a == AtPlaces(s, P)
           b == AtPlaces(t, Q)
           n == Cardinality(P)
<1>1. IsFiniteSet(P) /\ n <= Cardinality(Q)
    BY FS_Subset
<1>2. a \in Seq(V) /\ b \in Seq(V)
    BY <1>1, AtPlacesType
<1>3. n \in Nat /\ Len(a) = n /\ Len(b) = Cardinality(Q) /\ Cardinality(Q) \in Nat
    BY <1>1, AtPlacesIs
<1>4. ASSUME NEW p \in P PROVE Rank(P, p) = Rank(Q, p)
  <2>1. {q \in P : q <= p} = {q \in Q : q <= p}
    <3>1. ASSUME NEW q \in Q, q <= p, q \notin P PROVE FALSE
      <4>1. p < q /\ p \in Nat /\ q \in Nat
          BY <3>1
      <4> QED BY <3>1, <4>1
    <3> QED BY <3>1
  <2> QED BY <2>1 DEF Rank
<1>5. ASSUME NEW k \in 1 .. n PROVE a[k] = b[k]
  <2>1. PICK p \in P : k = Rank(P, p) /\ a[k] = s[p]
      BY <1>1, AtPlacesIs
  <2>2. b[Rank(Q, p)] = t[p]
      BY AtPlacesIs
  <2> QED BY <1>4, <2>1, <2>2
<1> HIDE DEF a, b, n
<1>6. /\ SubSeq(a, 1, n) \in Seq(V) /\ Len(SubSeq(a, 1, n)) = n
      /\ \A i \in 1 .. n : SubSeq(a, 1, n)[i] = a[i]
  <2>1. \A i \in 1 .. n : a[i] \in V
      BY <1>2, <1>3, ElementOfSeq
  <2>2. /\ SubSeq(a, 1, n) \in Seq(V) /\ Len(SubSeq(a, 1, n)) = (IF 1 <= n THEN n - 1 + 1 ELSE 0)
        /\ \A i \in 1 .. n - 1 + 1 : SubSeq(a, 1, n)[i] = a[1 + i - 1]
      BY <1>3, <2>1, SubSeqProperties
  <2> QED BY <1>3, <2>2
<1>7. /\ SubSeq(b, 1, n) \in Seq(V) /\ Len(SubSeq(b, 1, n)) = n
      /\ \A i \in 1 .. n : SubSeq(b, 1, n)[i] = b[i]
  <2>1. \A i \in 1 .. n : b[i] \in V
      BY <1>1, <1>2, <1>3, ElementOfSeq
  <2>2. /\ SubSeq(b, 1, n) \in Seq(V) /\ Len(SubSeq(b, 1, n)) = (IF 1 <= n THEN n - 1 + 1 ELSE 0)
        /\ \A i \in 1 .. n - 1 + 1 : SubSeq(b, 1, n)[i] = b[1 + i - 1]
      BY <1>3, <2>1, SubSeqProperties
  <2> QED BY <1>3, <2>2
<1>8. SubSeq(a, 1, n) = SubSeq(b, 1, n)
    BY <1>5, <1>6, <1>7, SeqEqual
<1> QED BY <1>1, <1>3, <1>8 DEF IsPrefix, a, b

\* What matters is the order of the places and what is there.
LEMMA AtPlacesMoved ==
    ASSUME NEW P \in SUBSET Nat, IsFiniteSet(P), NEW Q \in SUBSET Nat,
           NEW s, NEW t, \A p \in P : \E q \in Q : p = q + 1 /\ t[q] = s[p],
           \A q \in Q : \E p \in P : p = q + 1
    PROVE  AtPlaces(t, Q) = AtPlaces(s, P)
<1> DEFINE d == 1
           V == {s[p] : p \in P}
<1>0. \A p \in P : p \in Nat /\ p - d \in Nat /\ p - d \in Q /\ t[p - d] = s[p]
  <2> TAKE p \in P
  <2>1. PICK q \in Q : p = q + d /\ t[q] = s[p]
      OBVIOUS
  <2>2. q = p - d /\ q \in Nat /\ p \in Nat
      BY <2>1
  <2> QED BY <2>1, <2>2
<1>1. \A q \in Q : q \in Nat /\ q + d \in P /\ (q + d) - d = q
    OBVIOUS
<1>2. d \in Nat /\ \A p \in P : s[p] \in V
    OBVIOUS
<1> HIDE DEF d, V
<1> DEFINE f == [p \in P |-> p - d]
<1>3. f \in Bijection(P, Q)
  <2>1. f \in [P -> Q]
      BY <1>0
  <2>2. \A p, r \in P : f[p] = f[r] => p = r
      BY <1>0, <1>2
  <2>3. \A q \in Q : \E p \in P : f[p] = q
      BY <1>1
  <2> HIDE DEF f
  <2> QED BY <2>1, <2>2, <2>3 DEF Bijection, Injection, Surjection, IsInjective
<1>4. IsFiniteSet(Q) /\ Cardinality(Q) = Cardinality(P)
    BY <1>3, FS_Bijection DEF ExistsBijection
<1>5. \A q \in Q : t[q] \in V
  <2> TAKE q \in Q
  <2>1. t[(q + d) - d] \in V
      BY <1>0, <1>1, <1>2
  <2> QED BY <1>1, <2>1
<1>6. AtPlaces(t, Q) \in Seq(V) /\ AtPlaces(s, P) \in Seq(V)
    BY <1>2, <1>4, <1>5, AtPlacesType
<1>7. ASSUME NEW p \in P PROVE Rank(Q, p - d) = Rank(P, p)
  <2> DEFINE S == {r \in P : r <= p}
             T == {q \in Q : q <= p - d}
             g == [r \in S |-> r - d]
  <2>1. g \in [S -> T]
    <3>1. ASSUME NEW r \in S PROVE r - d \in Q /\ r - d <= p - d
        BY <1>0, <1>2
    <3>2. \A r \in S : r - d \in T
        BY <3>1
    <3> HIDE DEF T
    <3> QED BY <3>2
  <2>2. \A r, u \in S : g[r] = g[u] => r = u
    <3>1. \A r \in S : r \in Nat
        BY <1>0, <1>2
    <3>2. \A r \in S : g[r] = r - d
        OBVIOUS
    <3> HIDE DEF S, g
    <3> QED BY <1>2, <3>1, <3>2
  <2>3. \A q \in T : \E r \in S : g[r] = q
    <3> SUFFICES ASSUME NEW q \in T PROVE \E r \in S : r - d = q
        OBVIOUS
    <3>1. PICK r \in P : q = r - d
        BY <1>1
    <3>2. r <= p
        BY <1>0, <1>2, <3>1
    <3> QED BY <3>1, <3>2
  <2>4. IsFiniteSet(S)
    <3>1. S \in SUBSET P
        OBVIOUS
    <3> QED BY <3>1, FS_Subset
  <2> HIDE DEF S, T, g
  <2>5. g \in Bijection(S, T)
      BY <2>1, <2>2, <2>3 DEF Bijection, Injection, Surjection, IsInjective
  <2>6. Cardinality(T) = Cardinality(S)
      BY <2>4, <2>5, FS_Bijection DEF ExistsBijection
  <2> QED BY <2>6 DEF S, T, Rank
<1>8. ASSUME NEW k \in 1 .. Cardinality(P) PROVE AtPlaces(t, Q)[k] = AtPlaces(s, P)[k]
  <2>1. PICK p \in P : k = Rank(P, p) /\ AtPlaces(s, P)[k] = s[p]
      BY AtPlacesIs
  <2>2. p - d \in Q /\ t[p - d] = s[p]
      BY <1>0
  <2>3. AtPlaces(t, Q)[Rank(Q, p - d)] = t[p - d]
    <3>1. \A q \in Q : AtPlaces(t, Q)[Rank(Q, q)] = t[q]
        BY <1>4, AtPlacesIs
    <3> QED BY <2>2, <3>1
  <2> QED BY <1>7, <2>1, <2>2, <2>3
<1>9. Len(AtPlaces(t, Q)) = Cardinality(P) /\ Len(AtPlaces(s, P)) = Cardinality(P)
    BY <1>4, AtPlacesIs
<1> QED BY <1>6, <1>8, <1>9, SeqEqual

\* The first place has the head, the others the tail.
LEMMA AtPlacesTail ==
    ASSUME NEW P \in SUBSET Nat, IsFiniteSet(P), NEW m \in P, \A p \in P : m <= p,
           NEW s, NEW V, \A p \in P : s[p] \in V
    PROVE  /\ AtPlaces(s, P) # <<>> /\ Head(AtPlaces(s, P)) = s[m]
           /\ Tail(AtPlaces(s, P)) = AtPlaces(s, P \ {m})
<1> DEFINE a == AtPlaces(s, P)
           Q == P \ {m}
           b == AtPlaces(s, Q)
<1>0. m \in Nat /\ \A p \in P : p \in Nat
    OBVIOUS
<1>1. IsFiniteSet(Q) /\ Cardinality(Q) = Cardinality(P) - 1
    BY FS_RemoveElement
<1>2. a \in Seq(V) /\ b \in Seq(V)
    BY <1>1, AtPlacesType
<1>3. /\ Cardinality(P) \in Nat /\ Cardinality(Q) \in Nat
      /\ Len(a) = Cardinality(P) /\ Len(b) = Cardinality(Q)
    BY <1>1, AtPlacesIs
<1>4. Rank(P, m) = 1
  <2>1. \A q \in P : q <= m <=> q = m
      BY <1>0
  <2>2. {q \in P : q <= m} = {m}
      BY <2>1
  <2> QED BY <2>2, FS_Singleton DEF Rank
<1>5. a[1] = s[m] /\ Len(a) # 0
  <2>1. Rank(P, m) \in 1 .. Cardinality(P) /\ a[Rank(P, m)] = s[m]
      BY AtPlacesIs
  <2> HIDE DEF a
  <2> QED BY <1>3, <1>4, <2>1
<1>6. ASSUME NEW p \in Q PROVE Rank(P, p) = Rank(Q, p) + 1
  <2> DEFINE S == {q \in P : q <= p}
  <2>1. {q \in Q : q <= p} = S \ {m} /\ m \in S /\ S \in SUBSET P
      OBVIOUS
  <2>2. IsFiniteSet(S)
      BY <2>1, FS_Subset
  <2> HIDE DEF S
  <2>3. Cardinality(S \ {m}) = Cardinality(S) - 1 /\ Cardinality(S) \in Nat
      BY <2>1, <2>2, FS_RemoveElement, FS_CardinalityType
  <2>4. Rank(Q, p) = Cardinality(S \ {m})
      BY <2>1 DEF Rank
  <2>5. Rank(P, p) = Cardinality(S)
      BY DEF S, Rank
  <2> QED BY <2>3, <2>4, <2>5
<1>7. ASSUME NEW k \in 1 .. Len(b) PROVE a[k + 1] = b[k]
  <2>1. \A r \in P : a[Rank(P, r)] = s[r]
    <3> HIDE DEF a
    <3>1. \A r \in P : AtPlaces(s, P)[Rank(P, r)] = s[r]
        BY AtPlacesIs
    <3> QED BY <3>1 DEF a
  <2>2. \E p \in Q : k = Rank(Q, p) /\ b[k] = s[p]
    <3>1. k \in 1 .. Cardinality(Q) /\ Q \in SUBSET Nat
        BY <1>3
    <3> HIDE DEF Q
    <3>2. \A i \in 1 .. Cardinality(Q) : \E p \in Q : i = Rank(Q, p) /\ AtPlaces(s, Q)[i] = s[p]
        BY <1>1, <3>1, AtPlacesIs
    <3> QED BY <3>1, <3>2
  <2> HIDE DEF a, b
  <2>3. PICK p \in Q : k = Rank(Q, p) /\ b[k] = s[p]
      BY <2>2
  <2>4. Rank(P, p) = k + 1
      BY <1>6, <2>3
  <2> QED BY <2>1, <2>3, <2>4
<1> HIDE DEF a, b, Q
<1>8. a # <<>> /\ Head(a) = a[1]
    BY <1>2, <1>5, EmptySeq
<1>9. Tail(a) \in Seq(V) /\ Len(Tail(a)) = Len(a) - 1 /\ \A i \in 1 .. Len(Tail(a)) : Tail(a)[i] = a[i + 1]
    BY <1>2, <1>8, HeadTailProperties
<1>10. Len(Tail(a)) = Len(b) /\ \A i \in 1 .. Len(Tail(a)) : Tail(a)[i] = b[i]
    BY <1>1, <1>3, <1>7, <1>9
<1>11. Tail(a) = b
    BY <1>2, <1>9, <1>10, SeqEqual
<1> QED BY <1>5, <1>8, <1>11 DEF a, b, Q

-----------------------------------------------------------------------------
(* The steps of the eBPF backend, as steps of CaptureSource.                 *)

\* A frame is discarded when it is short and submitted when it is not.
RingKinds ==
    \A j \in 1 .. Len(ring) : /\ ring[j].state = "discarded" => ring[j].kind = "short"
                              /\ ring[j].state = "ready" => ring[j].kind = "l4"

\* The sources without a stream have no writer that could close it.
Streamless ==
    backend \notin {"pcap_file", "live"} =>
        closed = FALSE /\ child = "none" /\ reader.phase = "none"

\* Their steps leave the stream alone.
LEMMA StreamlessSteps ==
    ASSUME backend \notin {"pcap_file", "live"}, Streamless, [Next]_vars
    PROVE  /\ backend' = backend /\ Streamless' /\ Torn = FALSE /\ Torn' = FALSE
           /\ \/ OpenFails \/ OpenAtOnce \/ NextScripted \/ NextRecord \/ PollReturns
              \/ DropSource \/ WaitReturns \/ UNCHANGED vars
              \/ \E c \in Cpus : Reserve(c) \/ Stamp(c) \/ Commit(c)
<1>0. ~ Reading /\ child = "none" /\ closed = FALSE
    BY DEF Streamless, Reading
<1>1. \/ OpenFails \/ OpenAtOnce \/ NextScripted \/ NextRecord \/ PollReturns
      \/ DropSource \/ WaitReturns \/ UNCHANGED vars
      \/ \E c \in Cpus : Reserve(c) \/ Stamp(c) \/ Commit(c)
    BY <1>0 DEF Next, Opening, OpenStream, Source, ReadBytes, ReadEof, ReadFails, ToolWrites,
       ToolExits, Kernel, Done
<1>2. backend' = backend /\ closed' = closed /\ child' = child /\ reader' = reader
    BY <1>0, <1>1 DEF OpenFails, OpenAtOnce, NextScripted, NextRecord, PollReturns, DropSource,
       WaitReturns, Reserve, Stamp, Commit, vars, pcapVars
<1> QED BY <1>0, <1>1, <1>2 DEF Streamless, Torn

L4 == {i \in DOMAIN ring : ring[i].kind = "l4"}
Ids == [i \in DOMAIN ring |-> ring[i].id]

\* The places of the packets in the ring.
LEMMA L4Facts ==
    ASSUME RingType
    PROVE  /\ L4 \in SUBSET Nat /\ IsFiniteSet(L4) /\ Reserved = AtPlaces(Ids, L4)
           /\ \A i \in 1 .. Len(ring) : i \in L4 <=> ring[i].kind = "l4"
           /\ \A i \in L4 : i \in 1 .. Len(ring)
           /\ \A i \in 1 .. Len(ring) : Ids[i] = ring[i].id /\ Ids[i] \in Nat
<1>1. Len(ring) \in Nat /\ DOMAIN ring = 1 .. Len(ring)
    BY RecordTypes
<1>2. L4 \in SUBSET (1 .. Len(ring)) /\ IsFiniteSet(1 .. Len(ring))
    BY <1>1, FS_Interval DEF L4
<1>3. L4 \in SUBSET Nat /\ IsFiniteSet(L4)
  <2>1. \A i \in 1 .. Len(ring) : i \in Nat
      BY <1>1
  <2> QED BY <1>2, <2>1, FS_Subset
<1>4. \A i \in 1 .. Len(ring) : Ids[i] = ring[i].id /\ Ids[i] \in Nat
    BY <1>1, RecordTypes DEF Ids, RingRecord
<1> QED BY <1>1, <1>2, <1>3, <1>4 DEF L4, Ids, Reserved

\* Frames keep their kind, and the kernel discards the short ones only.
LEMMA KindsStay ==
    ASSUME backend = "ebpf", RingGood, RingKinds, [Next]_vars PROVE RingKinds'
<1>0. RingType /\ RingOrder /\ RingCpus
    BY DEF RingGood
<1>1. RingRests \/ NextRecord \/ \E c \in Cpus : Reserve(c) \/ Stamp(c) \/ Commit(c)
    BY <1>0, EbpfSteps
<1>2. CASE RingRests
    BY <1>2 DEF RingRests, RingKinds
<1>3. CASE NextRecord
  <2>1. CASE ring' = ring
      BY <2>1 DEF RingKinds
  <2>2. CASE ring' # ring
    <3>1. Len(ring') = Len(ring) - 1 /\ \A i \in 1 .. Len(ring') : ring'[i] = ring[i + 1]
        BY <1>0, <1>3, <2>2, NextRecordFacts
    <3>2. Len(ring) \in Nat
        BY <1>0, RecordTypes
    <3>3. \A i \in 1 .. Len(ring') : i + 1 \in 1 .. Len(ring)
        BY <3>1, <3>2
    <3> QED BY <3>1, <3>3 DEF RingKinds
  <2> QED BY <2>1, <2>2
<1>4. ASSUME NEW c \in Cpus, Reserve(c) PROVE RingKinds'
  <2>1. CASE ring' = ring
      BY <2>1 DEF RingKinds
  <2>2. CASE ring' # ring
    <3>1. /\ Len(ring') = Len(ring) + 1 /\ \A i \in 1 .. Len(ring) : ring'[i] = ring[i]
          /\ ring'[Len(ring) + 1].state = "busy"
        BY <1>0, <1>4, <2>2, ReserveFacts
    <3>2. Len(ring) \in Nat
        BY <1>0, RecordTypes
    <3>3. \A i \in 1 .. Len(ring') : i \in 1 .. Len(ring) \/ i = Len(ring) + 1
        BY <3>1, <3>2
    <3> QED BY <3>1, <3>3 DEF RingKinds
  <2> QED BY <2>1, <2>2
<1>5. ASSUME NEW c \in Cpus, Stamp(c) PROVE RingKinds'
    BY <1>0, <1>5, StampFacts DEF Replaces, RingKinds
<1>6. ASSUME NEW c \in Cpus, Commit(c) PROVE RingKinds'
  <2>1. /\ Replaces(At(cpu[c])) /\ cpu[c] # 0
        /\ ring'[At(cpu[c])].state = IF ring[At(cpu[c])].kind = "short"
                                        THEN "discarded" ELSE "ready"
      BY <1>0, <1>6, CommitFacts
  <2>2. At(cpu[c]) \in 1 .. Len(ring)
      BY <1>0, <2>1, AtFinds
  <2>3. ring[At(cpu[c])].kind \in {"l4", "short"}
      BY <1>0, <2>2, RecordTypes DEF RingRecord
  <2> QED BY <2>1, <2>2, <2>3 DEF Replaces, RingKinds
<1> QED BY <1>1, <1>2, <1>3, <1>4, <1>5, <1>6

\* A step that keeps numbers and kinds owes the same packets.
LEMMA SameFrames ==
    ASSUME RingType, RingType', Len(ring') = Len(ring),
           \A j \in 1 .. Len(ring) : ring'[j].id = ring[j].id /\ ring'[j].kind = ring[j].kind
    PROVE  Reserved' = Reserved
<1>1. DOMAIN ring' = DOMAIN ring /\ DOMAIN ring = 1 .. Len(ring)
    BY RecordTypes DEF RingType
<1> QED BY <1>1 DEF Reserved

\* The numbers of the packets that were handed out.
LEMMA HandedIds ==
    ASSUME backend = "ebpf", RingType
    PROVE  /\ HandedOut \in Seq(Nat) /\ Len(HandedOut) = Len(handed)
           /\ \A i \in 1 .. Len(handed) : HandedOut[i] = handed[i].id
<1>1. /\ Len(handed) \in Nat /\ DOMAIN handed = 1 .. Len(handed)
      /\ \A i \in 1 .. Len(handed) : handed[i].id \in Nat
    BY RecordTypes DEF HandedPacket
<1>2. HandedOut = [i \in 1 .. Len(handed) |-> handed[i].id]
    BY <1>1 DEF HandedOut
<1>3. [i \in 1 .. Len(handed) |-> handed[i].id] \in Seq(Nat)
    BY <1>1, IsASeq
<1> QED BY <1>1, <1>2, <1>3

\* A frame that is reserved joins the packets that are owed, behind the others.
LEMMA ReserveOwes ==
    ASSUME RingType, RingType', NEW c \in Cpus, Reserve(c)
    PROVE  IsPrefix(Reserved, Reserved')
<1>1. CASE ring' = ring
  <2>1. Reserved' = Reserved
      BY <1>1 DEF Reserved
  <2>2. IsPrefix(Reserved, Reserved)
    <3>1. /\ L4 \in SUBSET Nat /\ IsFiniteSet(L4) /\ Reserved = AtPlaces(Ids, L4)
          /\ \A i \in L4 : Ids[i] \in Nat
        BY L4Facts
    <3> HIDE DEF L4, Ids
    <3>2. \A p \in L4, q \in L4 \ L4 : p < q
        OBVIOUS
    <3>3. IsPrefix(AtPlaces(Ids, L4), AtPlaces(Ids, L4))
        BY <3>1, <3>2, AtPlacesPrefix
    <3> QED BY <3>1, <3>3
  <2> QED BY <2>1, <2>2
<1>2. CASE ring' # ring
  <2>1. /\ Len(ring') = Len(ring) + 1 /\ Len(ring) \in Nat
        /\ \A i \in 1 .. Len(ring) : ring'[i] = ring[i]
      BY <1>2, ReserveFacts, RecordTypes
  <2> DEFINE P == L4
             Q == L4'
             s == Ids
             t == Ids'
             n == Len(ring)
             m == Len(ring')
  <2>2. /\ P \in SUBSET Nat /\ Reserved = AtPlaces(s, P)
        /\ \A i \in 1 .. n : i \in P <=> ring[i].kind = "l4"
        /\ \A i \in P : i \in 1 .. n
        /\ \A i \in 1 .. n : s[i] = ring[i].id
      BY L4Facts
  <2>3. /\ Q \in SUBSET Nat /\ IsFiniteSet(Q) /\ Reserved' = AtPlaces(t, Q)
        /\ \A i \in 1 .. m : i \in Q <=> ring'[i].kind = "l4"
        /\ \A i \in Q : i \in 1 .. m
        /\ \A i \in 1 .. m : t[i] = ring'[i].id /\ t[i] \in Nat
    <3>1. (RingType => /\ L4 \in SUBSET Nat /\ IsFiniteSet(L4) /\ Reserved = AtPlaces(Ids, L4)
                       /\ \A i \in 1 .. Len(ring) : i \in L4 <=> ring[i].kind = "l4"
                       /\ \A i \in L4 : i \in 1 .. Len(ring)
                       /\ \A i \in 1 .. Len(ring) : Ids[i] = ring[i].id /\ Ids[i] \in Nat)'
        BY L4Facts, PTL
    <3> QED BY <3>1
  <2>4. m = n + 1 /\ n \in Nat /\ \A i \in 1 .. n : ring'[i] = ring[i]
      BY <2>1
  <2> HIDE DEF P, Q, s, t, n, m
  <2>5. P \subseteq Q /\ \A p \in P : t[p] = s[p]
      BY <2>2, <2>3, <2>4
  <2>6. ASSUME NEW p \in P, NEW q \in Q \ P PROVE p < q
    <3>1. p \in 1 .. n /\ q \in 1 .. n + 1
        BY <2>2, <2>3, <2>4
    <3>2. q \notin 1 .. n
        BY <2>2, <2>3, <2>4, <2>6
    <3> QED BY <2>4, <3>1, <3>2
  <2>7. \A q \in Q : t[q] \in Nat
      BY <2>3
  <2>8. IsPrefix(AtPlaces(s, P), AtPlaces(t, Q))
      BY <2>2, <2>3, <2>5, <2>6, <2>7, AtPlacesPrefix
  <2> QED BY <2>2, <2>3, <2>8
<1> QED BY <1>1, <1>2

\* The oldest record leaves; a packet is handed out, a short frame is not.
LEMMA NextRecordOwes ==
    ASSUME backend = "ebpf", backend' = "ebpf", RingType, RingType', RingKinds, NextRecord
    PROVE  \/ HandedOut' = HandedOut /\ Reserved' = Reserved
           \/ /\ Reserved # <<>> /\ Reserved' = Tail(Reserved)
              /\ HandedOut' = Append(HandedOut, Head(Reserved))
<1>1. CASE ring' = ring /\ handed' = handed
    BY <1>1 DEF HandedOut, Reserved
<1>2. CASE ~ (ring' = ring /\ handed' = handed)
  <2> DEFINE P == L4
             Q == L4'
             s == Ids
             t == Ids'
             n == Len(ring)
             m == Len(ring')
             first == 1
  <2>1. /\ n # 0 /\ ring[1].state # "busy" /\ m = n - 1
        /\ \A i \in 1 .. m : ring'[i] = ring[i + 1]
        /\ \/ handed' = handed /\ ring[1].state = "discarded"
           \/ /\ ring[1].state # "discarded" /\ Len(handed') = Len(handed) + 1
              /\ \A i \in 1 .. Len(handed) : handed'[i] = handed[i]
              /\ handed'[Len(handed) + 1].id = ring[1].id
      BY <1>2, NextRecordFacts
  <2>2. /\ P \in SUBSET Nat /\ Reserved = AtPlaces(s, P) /\ IsFiniteSet(P)
        /\ \A i \in 1 .. n : i \in P <=> ring[i].kind = "l4"
        /\ \A i \in P : i \in 1 .. n
        /\ \A i \in 1 .. n : s[i] = ring[i].id /\ s[i] \in Nat
      BY L4Facts
  <2>3. /\ Reserved' = AtPlaces(t, Q) /\ Q \in SUBSET Nat
        /\ \A i \in 1 .. m : i \in Q <=> ring'[i].kind = "l4"
        /\ \A i \in Q : i \in 1 .. m
        /\ \A i \in 1 .. m : t[i] = ring'[i].id
    <3>1. (RingType => /\ L4 \in SUBSET Nat /\ IsFiniteSet(L4) /\ Reserved = AtPlaces(Ids, L4)
                       /\ \A i \in 1 .. Len(ring) : i \in L4 <=> ring[i].kind = "l4"
                       /\ \A i \in L4 : i \in 1 .. Len(ring)
                       /\ \A i \in 1 .. Len(ring) : Ids[i] = ring[i].id /\ Ids[i] \in Nat)'
        BY L4Facts, PTL
    <3> QED BY <3>1
  <2>4. /\ n \in Nat /\ Len(handed) \in Nat
        /\ ring[1].kind \in {"l4", "short"} /\ ring[1].state \in {"ready", "discarded"}
      BY <2>1, RecordTypes DEF RingRecord
  <2> HIDE DEF P, Q, s, t, n, m
  <2>5. 1 \in 1 .. n /\ \A i \in 1 .. m : i + 1 \in 1 .. n
      BY <2>1, <2>4
  <2> DEFINE R == P \ {1}
  <2>6. (\A q \in Q : q + 1 \in R) /\ (\A p \in R : p - 1 \in Q)
    <3>1. \A q \in Q : q + 1 \in R
        BY <2>1, <2>2, <2>3, <2>4, <2>5
    <3>2. \A p \in R : p - 1 \in Q
      <4> TAKE p \in R
      <4>1. p \in 1 .. n /\ p - 1 \in 1 .. m /\ p - 1 + 1 = p
          BY <2>1, <2>2, <2>4
      <4> QED BY <2>1, <2>2, <2>3, <4>1
    <3> QED BY <3>1, <3>2
  <2>7. /\ R \in SUBSET Nat /\ IsFiniteSet(R) /\ \A p \in R : p >= 1
        /\ \A p \in R : t[p - 1] = s[p] /\ s[p] \in Nat
    <3>1. R \in SUBSET Nat /\ IsFiniteSet(R)
        BY <2>2, FS_RemoveElement
    <3>2. ASSUME NEW p \in R PROVE p >= 1 /\ t[p - 1] = s[p] /\ s[p] \in Nat
      <4>1. p \in 1 .. n /\ p - 1 \in 1 .. m /\ p - 1 + 1 = p
          BY <2>1, <2>2, <2>4
      <4> QED BY <2>1, <2>2, <2>3, <4>1
    <3> QED BY <3>1, <3>2
  <2>8. Reserved' = AtPlaces(s, R)
    <3>1. R \in SUBSET Nat /\ IsFiniteSet(R) /\ Q \in SUBSET Nat
        BY <2>3, <2>7
    <3>2. \A p \in R : \E q \in Q : p = q + 1 /\ t[q] = s[p]
      <4> TAKE p \in R
      <4>1. p \in Nat /\ p - 1 \in Q /\ t[p - 1] = s[p] /\ p = (p - 1) + 1
          BY <2>6, <2>7
      <4> QED BY <4>1
    <3>3. \A q \in Q : \E p \in R : p = q + 1
        BY <2>6
    <3> HIDE DEF R
    <3>6. AtPlaces(t, Q) = AtPlaces(s, R)
        BY <3>1, <3>2, <3>3, AtPlacesMoved
    <3> QED BY <2>3, <3>6
  <2>9. CASE ring[1].kind = "short"
    <3>1. R = P /\ handed' = handed
        BY <2>1, <2>2, <2>4, <2>5, <2>9 DEF RingKinds, n
    <3> QED BY <2>2, <2>8, <3>1 DEF HandedOut
  <2>10. CASE ring[1].kind = "l4"
    <3>1. ring[1].state # "discarded"
        BY <2>4, <2>5, <2>10 DEF RingKinds, n
    <3>2. first \in P /\ \A p \in P : first <= p
        BY <2>2, <2>4, <2>5, <2>10
    <3>3. (\A p \in P : s[p] \in Nat) /\ P \in SUBSET Nat /\ IsFiniteSet(P)
        BY <2>2
    <3>4. /\ AtPlaces(s, P) # <<>> /\ Head(AtPlaces(s, P)) = s[first]
          /\ Tail(AtPlaces(s, P)) = AtPlaces(s, R)
      <4> HIDE DEF first, R
      <4>1. /\ AtPlaces(s, P) # <<>> /\ Head(AtPlaces(s, P)) = s[first]
            /\ Tail(AtPlaces(s, P)) = AtPlaces(s, P \ {first})
          BY <3>2, <3>3, AtPlacesTail
      <4> QED BY <4>1 DEF first, R
    <3> DEFINE k == Len(handed)
    <3>5. /\ HandedOut \in Seq(Nat) /\ Len(HandedOut) = k
          /\ \A i \in 1 .. k : HandedOut[i] = handed[i].id
        BY HandedIds
    <3>6. /\ HandedOut' \in Seq(Nat) /\ Len(HandedOut') = Len(handed')
          /\ \A i \in 1 .. Len(handed') : HandedOut'[i] = handed'[i].id
      <4>1. (backend = "ebpf" /\ RingType =>
               /\ HandedOut \in Seq(Nat) /\ Len(HandedOut) = Len(handed)
               /\ \A i \in 1 .. Len(handed) : HandedOut[i] = handed[i].id)'
          BY HandedIds, PTL
      <4> QED BY <4>1
    <3>7. /\ Len(handed') = k + 1 /\ \A i \in 1 .. k : handed'[i] = handed[i]
          /\ handed'[k + 1].id = s[1] /\ s[1] \in Nat /\ k \in Nat
        BY <2>1, <2>2, <2>4, <2>5, <3>1
    <3> DEFINE g == Append(HandedOut, s[1])
    <3>8. /\ g \in Seq(Nat) /\ Len(g) = k + 1 /\ \A i \in 1 .. k : g[i] = HandedOut[i]
          /\ g[k + 1] = s[1]
        BY <3>5, <3>7, AppendProperties
    <3> HIDE DEF g, k
    <3>9. Len(HandedOut') = Len(g) /\ \A i \in 1 .. Len(HandedOut') : HandedOut'[i] = g[i]
      <4>1. \A i \in 1 .. k + 1 : i \in 1 .. k \/ i = k + 1
          BY <3>7
      <4>2. Len(HandedOut') = k + 1 /\ \A i \in 1 .. k + 1 : HandedOut'[i] = handed'[i].id
          BY <3>6, <3>7
      <4>3. \A i \in 1 .. k : HandedOut'[i] = g[i]
          BY <3>5, <3>7, <3>8, <4>1, <4>2, SMTT(20)
      <4>4. HandedOut'[k + 1] = g[k + 1]
          BY <3>7, <3>8, <4>2
      <4> QED BY <3>8, <4>1, <4>2, <4>3, <4>4
    <3>10. HandedOut' = g
        BY <3>6, <3>8, <3>9, SeqEqual
    <3> QED BY <2>2, <2>8, <3>4, <3>10 DEF g
  <2> QED BY <2>4, <2>9, <2>10
<1> QED BY <1>1, <1>2

\* Every step of the eBPF source is one of CaptureSource.
LEMMA EbpfRefines ==
    ASSUME backend = "ebpf", RingGood, RingGood', RingKinds, Streamless, [Next]_vars
    PROVE  [CS!Next]_(CS!vars)
<1>0. RingType /\ RingOrder /\ RingCpus /\ RingType'
    BY DEF RingGood
<1>1. /\ backend' = "ebpf" /\ Torn = FALSE /\ Torn' = FALSE
      /\ \/ OpenFails \/ OpenAtOnce \/ NextScripted \/ NextRecord \/ PollReturns
         \/ DropSource \/ WaitReturns \/ UNCHANGED vars
         \/ \E c \in Cpus : Reserve(c) \/ Stamp(c) \/ Commit(c)
    BY StreamlessSteps
<1>2. Owed = Reserved /\ Owed' = Reserved'
    BY <1>1 DEF Owed
<1>3. ASSUME ring' = ring PROVE Owed' = Owed
    BY <1>2, <1>3 DEF Reserved
<1>4. ASSUME handed' = handed PROVE HandedOut' = HandedOut
    BY <1>1, <1>4 DEF HandedOut
<1>5. CASE OpenFails \/ OpenAtOnce \/ PollReturns \/ DropSource \/ WaitReturns \/ UNCHANGED vars
  <2>1. ring' = ring /\ handed' = handed
      BY <1>5 DEF OpenFails, OpenAtOnce, PollReturns, DropSource, WaitReturns, vars, kernelVars
  <2>2. Owed' = Owed /\ HandedOut' = HandedOut /\ Torn' = Torn
      BY <1>1, <1>3, <1>4, <2>1
  <2>3. \/ status' = status
        \/ status = "opening" /\ status' \in {"failed", "open"}
        \/ status = "open" /\ status' = "error"
        \/ status \in {"end", "error"} /\ status' = "dropping"
        \/ status = "dropping" /\ status' = "dropped"
      BY <1>5 DEF OpenFails, OpenAtOnce, PollReturns, Attached, DropSource, WaitReturns, vars
  <2> QED BY <2>2, <2>3 DEF CS!Next, CS!vars, CS!Open, CS!Fail, CS!Drop
<1>6. CASE NextScripted
    BY <1>6 DEF NextScripted
<1>7. CASE NextRecord
  <2>1. status = "open" /\ status' = status /\ Torn' = Torn
      BY <1>1, <1>7 DEF NextRecord, Attached
  <2> QED BY <1>0, <1>1, <1>2, <1>7, <2>1, NextRecordOwes DEF CS!Next, CS!vars, CS!HandOut
<1>8. ASSUME NEW c \in Cpus, Reserve(c) PROVE CS!Next
  <2>1. status = "open" /\ status' = status /\ handed' = handed
      BY <1>8 DEF Reserve, Attached
  <2>2. IsPrefix(Owed, Owed')
      BY <1>0, <1>2, <1>8, ReserveOwes
  <2>3. HandedOut' = HandedOut
      BY <1>4, <2>1
  <2>4. CS!Arrive
      BY <1>1, <2>1, <2>2, <2>3 DEF CS!Arrive, CS!IsPrefix, IsPrefix
  <2> QED BY <2>4 DEF CS!Next
<1>9. ASSUME NEW c \in Cpus, Stamp(c) \/ Commit(c) PROVE UNCHANGED CS!vars
  <2>1. status' = status /\ handed' = handed
      BY <1>9 DEF Stamp, Commit
  <2>2. cpu[c] # 0 /\ Replaces(At(cpu[c]))
      BY <1>0, <1>9, StampFacts, CommitFacts
  <2>3. Reserved' = Reserved
    <3>1. /\ Len(ring') = Len(ring)
          /\ \A j \in 1 .. Len(ring) : ring'[j].id = ring[j].id /\ ring'[j].kind = ring[j].kind
        BY <2>2 DEF Replaces
    <3> QED BY <1>0, <3>1, SameFrames
  <2>4. HandedOut' = HandedOut
      BY <1>4, <2>1
  <2> QED BY <1>1, <1>2, <2>1, <2>3, <2>4 DEF CS!vars
<1> QED BY <1>1, <1>5, <1>6, <1>7, <1>8, <1>9

-----------------------------------------------------------------------------
(* The layout of a pcap stream: sequences that are joined.                   *)

\* The sequences joined so far, one by one.
Joins(seqs, n, g) == \A i \in 1 .. n : g[i] = IF i = 1 THEN seqs[i] ELSE g[i - 1] \o seqs[i]

\* FlattenSeq joins its sequences one by one.
LEMMA FlattenIs ==
    ASSUME NEW S, NEW seqs \in Seq(Seq(S)), seqs # <<>>
    PROVE  \E g \in [1 .. Len(seqs) -> Seq(S)] :
              Joins(seqs, Len(seqs), g) /\ FlattenSeq(seqs) = g[Len(seqs)]
<1> DEFINE n == Len(seqs)
           T == {k \in 1 .. n : ~ \E g \in [1 .. k -> Seq(S)] : Joins(seqs, k, g)}
<1>1. n \in Nat /\ n # 0 /\ \A i \in 1 .. n : seqs[i] \in Seq(S)
    BY EmptySeq, LenProperties, ElementOfSeq
<1> HIDE DEF n
<1>2. T = {}
  <2> SUFFICES ASSUME T # {} PROVE FALSE
      OBVIOUS
  <2>1. T \in SUBSET Nat
      BY <1>1
  <2>2. PICK k \in T : \A m \in T : k <= m
    <3> HIDE DEF T
    <3> QED BY <2>1, Least
  <2>3. k \in 1 .. n /\ ~ \E g \in [1 .. k -> Seq(S)] : Joins(seqs, k, g)
      BY <2>2
  <2>4. CASE k = 1
    <3> DEFINE g == [i \in 1 .. 1 |-> seqs[1]]
    <3>1. g \in [1 .. k -> Seq(S)] /\ Joins(seqs, k, g)
        BY <1>1, <2>3, <2>4 DEF Joins
    <3> QED BY <2>3, <3>1
  <2>5. CASE k # 1
    <3>1. k - 1 \in 1 .. n /\ k - 1 \notin T
      <4> HIDE DEF T
      <4> QED BY <1>1, <2>2, <2>3, <2>5
    <3>2. PICK g \in [1 .. k - 1 -> Seq(S)] : Joins(seqs, k - 1, g)
        BY <3>1
    <3> DEFINE h == [i \in 1 .. k |-> IF i = k THEN g[k - 1] \o seqs[k] ELSE g[i]]
    <3>3. g[k - 1] \o seqs[k] \in Seq(S)
      <4>1. g[k - 1] \in Seq(S) /\ seqs[k] \in Seq(S)
          BY <1>1, <2>3, <3>1
      <4> QED BY <4>1, ConcatProperties
    <3>4. \A i \in 1 .. k : i # k => i \in 1 .. k - 1
        BY <2>3
    <3>5. h \in [1 .. k -> Seq(S)]
        BY <3>3, <3>4
    <3>6. \A i \in 1 .. k : h[i] = IF i = k THEN g[k - 1] \o seqs[k] ELSE g[i]
        OBVIOUS
    <3> HIDE DEF h
    <3>7. ASSUME NEW i \in 1 .. k
          PROVE  h[i] = IF i = 1 THEN seqs[i] ELSE h[i - 1] \o seqs[i]
      <4>1. CASE i = k
        <5>1. k - 1 \in 1 .. k /\ k - 1 # k
            BY <1>1, <2>3, <3>1
        <5> QED BY <2>5, <3>6, <4>1, <5>1
      <4>2. CASE i # k /\ i = 1
          BY <3>2, <3>4, <3>6, <4>2 DEF Joins
      <4>3. CASE i # k /\ i # 1
        <5>1. i \in 1 .. k - 1 /\ i - 1 \in 1 .. k /\ i - 1 # k
            BY <2>3, <3>4, <4>3
        <5> QED BY <3>2, <3>6, <4>3, <5>1 DEF Joins
      <4> QED BY <4>1, <4>2, <4>3
    <3>8. Joins(seqs, k, h)
        BY <3>7 DEF Joins
    <3> QED BY <2>3, <3>5, <3>8
  <2> QED BY <2>4, <2>5
<1>3. n \in 1 .. n
    BY <1>1
<1>4. PICK g \in [1 .. n -> Seq(S)] : Joins(seqs, n, g)
    BY <1>2, <1>3
<1>5. g = [i \in 1 .. n |-> IF i = 1 THEN seqs[i] ELSE g[i - 1] \o seqs[i]]
    BY <1>4 DEF Joins
<1> DEFINE f == CHOOSE f : f = [i \in 1 .. n |-> IF i = 1 THEN seqs[i] ELSE f[i - 1] \o seqs[i]]
<1>6. f = [i \in 1 .. n |-> IF i = 1 THEN seqs[i] ELSE f[i - 1] \o seqs[i]]
    BY <1>5
<1>7. FlattenSeq(seqs) = f[n]
    BY <1>1 DEF FlattenSeq, n
<1> HIDE DEF f
<1>8. DOMAIN f = 1 .. n /\ \A i \in 1 .. n : f[i] = IF i = 1 THEN seqs[i] ELSE f[i - 1] \o seqs[i]
    BY <1>6
<1> DEFINE U == {i \in 1 .. n : f[i] # g[i]}
<1>9. U = {}
  <2> SUFFICES ASSUME U # {} PROVE FALSE
      OBVIOUS
  <2>1. U \in SUBSET Nat
      BY <1>1
  <2>2. PICK k \in U : \A m \in U : k <= m
    <3> HIDE DEF U
    <3> QED BY <2>1, Least
  <2>3. k \in 1 .. n /\ f[k] # g[k]
      BY <2>2
  <2>4. CASE k = 1
      BY <1>4, <1>8, <2>3, <2>4 DEF Joins
  <2>5. CASE k # 1
    <3>1. k - 1 \in 1 .. n /\ k - 1 \notin U
      <4> HIDE DEF U
      <4> QED BY <1>1, <2>2, <2>3, <2>5
    <3>2. f[k - 1] = g[k - 1]
        BY <3>1
    <3> QED BY <1>4, <1>8, <2>3, <2>5, <3>2 DEF Joins
  <2> QED BY <2>4, <2>5
<1>10. f[n] = g[n]
    BY <1>3, <1>9
<1> QED BY <1>4, <1>7, <1>10 DEF n

\* Where each of the sequences ends once they are joined.
Ends(seqs, end) ==
    /\ end[0] = 0 /\ \A i \in 0 .. Len(seqs) : end[i] \in Nat
    /\ \A i \in 1 .. Len(seqs) : end[i] = end[i - 1] + Len(seqs[i])

\* Where the members of the joined sequences are.
LEMMA FlattenFacts ==
    ASSUME NEW S, NEW seqs \in Seq(Seq(S)), NEW end, Ends(seqs, end)
    PROVE  /\ FlattenSeq(seqs) \in Seq(S) /\ Len(FlattenSeq(seqs)) = end[Len(seqs)]
           /\ \A j \in 1 .. Len(seqs) : \A k \in 1 .. Len(seqs[j]) :
                 FlattenSeq(seqs)[end[j - 1] + k] = seqs[j][k]
<1> DEFINE n == Len(seqs)
<1>1. n \in Nat /\ \A i \in 1 .. n : seqs[i] \in Seq(S) /\ Len(seqs[i]) \in Nat
    BY LenProperties, ElementOfSeq
<1>2. CASE seqs = <<>>
  <2>1. Len(seqs) = 0 /\ FlattenSeq(seqs) = seqs
      BY <1>2, EmptySeq DEF FlattenSeq
  <2>2. 1 .. Len(seqs) = {} /\ seqs \in Seq(S) /\ Len(seqs) = end[Len(seqs)]
      BY <1>2, <2>1, EmptySeq DEF Ends
  <2> QED BY <2>1, <2>2
<1>3. CASE seqs # <<>>
  <2>1. PICK g \in [1 .. n -> Seq(S)] : Joins(seqs, n, g) /\ FlattenSeq(seqs) = g[n]
      BY <1>3, FlattenIs
  <2>2. n \in 1 .. n
      BY <1>1, <1>3, EmptySeq
  <2> HIDE DEF n
  <2> DEFINE Good(i) == /\ Len(g[i]) = end[i]
                        /\ \A j \in 1 .. i : \A k \in 1 .. Len(seqs[j]) :
                              g[i][end[j - 1] + k] = seqs[j][k]
             T == {i \in 1 .. n : ~ Good(i)}
  <2>3. /\ \A i \in 0 .. n : end[i] \in Nat
        /\ \A i \in 1 .. n : end[i] = end[i - 1] + Len(seqs[i])
        /\ end[0] = 0
      BY DEF n, Ends
  <2>4. ASSUME NEW i \in 1 .. n, i # 1, Good(i - 1) PROVE Good(i)
    <3> DEFINE a == g[i - 1]
               b == seqs[i]
    <3>1. i - 1 \in 1 .. n /\ i \in Nat /\ i - 1 \in Nat
        BY <1>1, <2>4
    <3>2. g[i] = a \o b /\ a \in Seq(S) /\ b \in Seq(S) /\ Len(b) \in Nat
        BY <1>1, <2>1, <2>4, <3>1 DEF Joins
    <3>3. Len(a) = end[i - 1] /\ end[i - 1] \in Nat /\ end[i] = end[i - 1] + Len(b)
        BY <2>3, <2>4, <3>1
    <3>0. seqs[i] = b
        OBVIOUS
    <3> HIDE DEF a, b
    <3>4. /\ Len(a \o b) = Len(a) + Len(b)
          /\ \A k \in 1 .. Len(a) + Len(b) :
                (a \o b)[k] = IF k <= Len(a) THEN a[k] ELSE b[k - Len(a)]
        BY <3>2, ConcatProperties
    <3>5. Len(g[i]) = end[i]
        BY <3>2, <3>3, <3>4
    <3>6. ASSUME NEW j \in 1 .. i, NEW k \in 1 .. Len(seqs[j])
          PROVE  g[i][end[j - 1] + k] = seqs[j][k]
      <4>1. CASE j = i
        <5> DEFINE x == Len(a)
                   y == Len(b)
        <5>0. x \in Nat /\ y \in Nat /\ k \in 1 .. y
            BY <3>0, <3>2, <3>3, <4>1
        <5>1. x + k \in 1 .. x + y /\ ~ (x + k <= x) /\ (x + k) - x = k
          <6> HIDE DEF x, y
          <6> QED BY <5>0
        <5>2. (a \o b)[Len(a) + k] = b[k]
            BY <3>4, <5>1
        <5> QED BY <3>0, <3>2, <3>3, <4>1, <5>2
      <4>2. CASE j # i
        <5>1. j \in 1 .. i - 1 /\ j \in 1 .. n /\ j - 1 \in 0 .. n
            BY <1>1, <3>1, <4>2
        <5>2. a[end[j - 1] + k] = seqs[j][k]
            BY <2>4, <5>1 DEF a
        <5>3. end[j] = end[j - 1] + Len(seqs[j]) /\ end[j - 1] \in Nat /\ Len(seqs[j]) \in Nat
            BY <1>1, <2>3, <5>1
        <5>4. end[j] <= end[i - 1]
          <6> DEFINE U == {m \in j .. i - 1 : ~ (end[j] <= end[m])}
          <6>1. U = {}
            <7> SUFFICES ASSUME U # {} PROVE FALSE
                OBVIOUS
            <7>1. U \in SUBSET Nat
                BY <5>1
            <7>2. PICK m \in U : \A q \in U : m <= q
              <8> HIDE DEF U
              <8> QED BY <7>1, Least
            <7>3. m \in j .. i - 1 /\ ~ (end[j] <= end[m]) /\ m \in 1 .. n /\ end[j] \in Nat
              <8>1. m \in j .. i - 1 /\ ~ (end[j] <= end[m])
                  BY <7>2
              <8>2. m \in 1 .. n
                  BY <1>1, <3>1, <5>1, <8>1
              <8> QED BY <5>3, <8>1, <8>2
            <7>4. m # j
                BY <7>3
            <7>5. m - 1 \in j .. i - 1 /\ m - 1 \notin U /\ m - 1 \in 0 .. n
              <8> HIDE DEF U
              <8> QED BY <1>1, <5>1, <7>2, <7>3, <7>4
            <7>6. end[j] <= end[m - 1]
                BY <7>5
            <7>7. end[m] = end[m - 1] + Len(seqs[m]) /\ Len(seqs[m]) \in Nat /\ end[m - 1] \in Nat
                BY <1>1, <2>3, <7>3, <7>5
            <7> QED BY <7>3, <7>6, <7>7
          <6>2. i - 1 \in j .. i - 1
              BY <5>1, <3>1
          <6> QED BY <6>1, <6>2
        <5>5. end[j - 1] + k \in 1 .. Len(a) + Len(b) /\ end[j - 1] + k <= Len(a)
          <6>1. end[j - 1] + k <= end[j] /\ end[j - 1] + k \in Nat /\ end[j - 1] + k >= 1 /\ end[j] \in Nat
            <7> DEFINE e == end[j - 1]
                       l == Len(seqs[j])
            <7>1. k \in 1 .. l /\ e \in Nat /\ l \in Nat /\ end[j] = e + l
                BY <5>3
            <7> HIDE DEF e, l
            <7>2. e + k <= e + l /\ e + k \in Nat /\ e + k >= 1 /\ e + l \in Nat
                BY <7>1
            <7> QED BY <7>1, <7>2 DEF e
          <6> DEFINE x == end[j - 1] + k
                     y == end[j]
                     z == end[i - 1]
          <6>2. x <= y /\ y <= z /\ x >= 1 /\ x \in Nat /\ y \in Nat /\ z \in Nat /\ Len(a) = z
              BY <3>3, <5>4, <6>1
          <6> HIDE DEF x, y, z
          <6>3. x \in 1 .. Len(a) + Len(b) /\ x <= Len(a)
              BY <3>2, <6>2
          <6> QED BY <6>3 DEF x
        <5> QED BY <3>2, <3>4, <5>2, <5>5
      <4> QED BY <4>1, <4>2
    <3> QED BY <3>5, <3>6
  <2>5. Good(1)
    <3>0. 1 \in 1 .. n
        BY <1>1, <2>2
    <3>1. g[1] = seqs[1] /\ 1 \in 1 .. n
        BY <2>1, <3>0 DEF Joins
    <3>2. end[1] = Len(seqs[1])
        BY <1>1, <2>3, <3>1
    <3>3. \A j \in 1 .. 1 : \A k \in 1 .. Len(seqs[j]) : g[1][end[j - 1] + k] = seqs[j][k]
      <4> TAKE j \in 1 .. 1
      <4>1. j = 1 /\ end[j - 1] = 0
          BY <2>3
      <4> TAKE k \in 1 .. Len(seqs[j])
      <4>2. k \in Int /\ 0 + k = k
          BY <1>1, <3>1, <4>1
      <4> QED BY <3>1, <4>1, <4>2
    <3> QED BY <3>1, <3>2, <3>3
  <2> HIDE DEF Good
  <2>6. T = {}
    <3> SUFFICES ASSUME T # {} PROVE FALSE
        OBVIOUS
    <3>1. T \in SUBSET Nat
        BY <1>1
    <3>2. PICK i \in T : \A m \in T : i <= m
      <4> HIDE DEF T
      <4> QED BY <3>1, Least
    <3>3. i \in 1 .. n /\ ~ Good(i) /\ i # 1
        BY <2>5, <3>2
    <3>4. i - 1 \in 1 .. n /\ i - 1 \notin T
      <4> HIDE DEF T
      <4> QED BY <1>1, <3>2, <3>3
    <3>5. Good(i - 1)
        BY <3>4
    <3> QED BY <2>4, <3>3, <3>5
  <2>7. Good(n) /\ g[n] \in Seq(S)
      BY <2>2, <2>6
  <2> QED BY <2>1, <2>7 DEF Good, n
<1> QED BY <1>2, <1>3

-----------------------------------------------------------------------------
(* Words and headers are read back as they were written.                     *)

Rec    == [sec : Nat, micro : Nat, data : Seq(Nat)]
Stream == [little : BOOLEAN, nanos : BOOLEAN, valid : BOOLEAN, records : Seq(Rec)]

\* Division leaves a quotient and a remainder.
LEMMA Division ==
    ASSUME NEW n \in Nat, NEW b \in Nat, b > 0
    PROVE  n \div b \in Nat /\ n % b \in Nat /\ (n % b) < b /\ (n % b) + b * (n \div b) = n
OBVIOUS

\* A word is read as what it was written for (PcapStream::read_u32).
LEMMA WordRead ==
    ASSUME NEW n \in Nat, NEW little \in BOOLEAN
    PROVE  /\ Word(n, little) \in Seq(Nat) /\ Len(Word(n, little)) = 2
           /\ \A b : b[1] = Word(n, little)[1] /\ b[2] = Word(n, little)[2]
                        => ReadU32(b, little) = n
<1> DEFINE lo == n % Base
           hi == n \div Base
<1>1. lo \in Nat /\ hi \in Nat /\ lo + Base * hi = n
    BY PcapAssumption, Division
<1> HIDE DEF lo, hi
<1>2. Word(n, little) = IF little THEN <<lo, hi>> ELSE <<hi, lo>>
    BY DEF Word, lo, hi
<1>3. Word(n, little) \in Seq(Nat) /\ Len(Word(n, little)) = 2
    BY <1>1, <1>2
<1>4. /\ Word(n, little)[1] = IF little THEN lo ELSE hi
      /\ Word(n, little)[2] = IF little THEN hi ELSE lo
    BY <1>2
<1> QED BY <1>1, <1>3, <1>4 DEF ReadU32

Fraction(st, rec) == IF st.nanos THEN rec.micro * NsPerMicro ELSE rec.micro

\* The bytes of a record: three words and the frame.
LEMMA RecordBytesAre ==
    ASSUME NEW st \in Stream, NEW rec \in Rec
    PROVE  LET rb == RecordBytes(st, rec)
               w1 == Word(rec.sec, st.little)
               w2 == Word(Fraction(st, rec), st.little)
               w3 == Word(Len(rec.data), st.little)
           IN  /\ rb \in Seq(Nat) /\ Len(rec.data) \in Nat /\ Len(rb) = 6 + Len(rec.data)
               /\ rb[1] = w1[1] /\ rb[2] = w1[2] /\ rb[3] = w2[1] /\ rb[4] = w2[2]
               /\ rb[5] = w3[1] /\ rb[6] = w3[2]
               /\ \A k \in 1 .. Len(rec.data) : rb[6 + k] = rec.data[k]
<1> DEFINE w1 == Word(rec.sec, st.little)
           w2 == Word(Fraction(st, rec), st.little)
           w3 == Word(Len(rec.data), st.little)
           d  == rec.data
<1>1. rec.sec \in Nat /\ Fraction(st, rec) \in Nat /\ d \in Seq(Nat) /\ Len(d) \in Nat /\ st.little \in BOOLEAN
  <2>1. rec.sec \in Nat /\ rec.micro \in Nat /\ d \in Seq(Nat) /\ st.little \in BOOLEAN
      BY DEF Rec, Stream
  <2>2. \A x, y \in Nat : x * y \in Nat
      OBVIOUS
  <2> QED BY <2>1, <2>2, PcapAssumption, LenProperties DEF Fraction
<1>2. /\ w1 \in Seq(Nat) /\ Len(w1) = 2 /\ w2 \in Seq(Nat) /\ Len(w2) = 2
      /\ w3 \in Seq(Nat) /\ Len(w3) = 2
    BY <1>1, WordRead
<1>3. RecordBytes(st, rec) = ((w1 \o w2) \o w3) \o d
    BY DEF RecordBytes, Fraction
<1> HIDE DEF w1, w2, w3, d
<1> DEFINE x == w1 \o w2
           y == x \o w3
           z == y \o d
<1>4. /\ x \in Seq(Nat) /\ Len(x) = 4
      /\ x[1] = w1[1] /\ x[2] = w1[2] /\ x[3] = w2[1] /\ x[4] = w2[2]
  <2>0. /\ x \in Seq(Nat) /\ Len(x) = Len(w1) + Len(w2)
        /\ \A i \in 1 .. Len(w1) + Len(w2) : x[i] = IF i <= Len(w1) THEN w1[i] ELSE w2[i - Len(w1)]
      BY <1>2, ConcatProperties
  <2>1. /\ x \in Seq(Nat) /\ Len(x) = 2 + 2
        /\ \A i \in 1 .. 2 + 2 : x[i] = IF i <= 2 THEN w1[i] ELSE w2[i - 2]
    <3> HIDE DEF x
    <3> QED BY <1>2, <2>0
  <2> HIDE DEF x
  <2> QED BY <2>1
<1> HIDE DEF x
<1>5. /\ y \in Seq(Nat) /\ Len(y) = 6
      /\ y[1] = x[1] /\ y[2] = x[2] /\ y[3] = x[3] /\ y[4] = x[4] /\ y[5] = w3[1] /\ y[6] = w3[2]
  <2>0. /\ y \in Seq(Nat) /\ Len(y) = Len(x) + Len(w3)
        /\ \A i \in 1 .. Len(x) + Len(w3) : y[i] = IF i <= Len(x) THEN x[i] ELSE w3[i - Len(x)]
      BY <1>2, <1>4, ConcatProperties
  <2>1. /\ y \in Seq(Nat) /\ Len(y) = 4 + 2
        /\ \A i \in 1 .. 4 + 2 : y[i] = IF i <= 4 THEN x[i] ELSE w3[i - 4]
    <3> HIDE DEF y
    <3> QED BY <1>2, <1>4, <2>0
  <2> HIDE DEF y
  <2> QED BY <2>1
<1> HIDE DEF y
<1>6. /\ z \in Seq(Nat) /\ Len(z) = 6 + Len(d)
      /\ \A i \in 1 .. 6 : z[i] = y[i]
      /\ \A k \in 1 .. Len(d) : z[6 + k] = d[k]
  <2> DEFINE l == Len(d)
  <2>0. /\ z \in Seq(Nat) /\ Len(z) = Len(y) + Len(d)
        /\ \A i \in 1 .. Len(y) + Len(d) : z[i] = IF i <= Len(y) THEN y[i] ELSE d[i - Len(y)]
      BY <1>1, <1>5, ConcatProperties
  <2>1. /\ z \in Seq(Nat) /\ Len(z) = 6 + l
        /\ \A i \in 1 .. 6 + l : z[i] = IF i <= 6 THEN y[i] ELSE d[i - 6]
    <3> HIDE DEF z
    <3> QED BY <1>1, <1>5, <2>0
  <2>2. l \in Nat
      BY <1>1
  <2> HIDE DEF z, l
  <2>3. \A k \in 1 .. l : 6 + k \in 1 .. 6 + l /\ ~ (6 + k <= 6) /\ 6 + k - 6 = k
      BY <2>2
  <2>4. \A i \in 1 .. 6 : i \in 1 .. 6 + l /\ i <= 6
      BY <2>2
  <2>5. \A i \in 1 .. 6 : z[i] = y[i]
      BY <2>1, <2>4
  <2>6. ASSUME NEW k \in 1 .. l PROVE z[6 + k] = d[k]
    <3> DEFINE q == 6 + k
    <3>1. q \in 1 .. 6 + l /\ ~ (q <= 6) /\ q - 6 = k
        BY <2>3
    <3> HIDE DEF q
    <3>2. z[q] = d[q - 6]
        BY <2>1, <3>1
    <3> QED BY <3>1, <3>2 DEF q
  <2> QED BY <2>1, <2>5, <2>6 DEF l
<1> HIDE DEF z
<1>7. RecordBytes(st, rec) = z
    BY <1>3 DEF x, y, z
<1>8. z[1] = y[1] /\ z[2] = y[2] /\ z[3] = y[3] /\ z[4] = y[4] /\ z[5] = y[5] /\ z[6] = y[6]
    BY <1>6
<1> QED BY <1>1, <1>4, <1>5, <1>6, <1>7, <1>8 DEF w1, w2, w3, d

IsHeaderOf(buf, st, rec) == Len(buf) = 6 /\ \A k \in 1 .. 6 : buf[k] = RecordBytes(st, rec)[k]

\* The header of a record is read back (PcapStream::next_record).
LEMMA HeaderRead ==
    ASSUME NEW st \in Stream, NEW rec \in Rec, NEW buf \in Seq(Nat), IsHeaderOf(buf, st, rec)
    PROVE  /\ ReadU32(Field(buf, 1), st.little) = rec.sec
           /\ ReadU32(Field(buf, 2), st.little) = Fraction(st, rec)
           /\ ReadU32(Field(buf, 3), st.little) = Len(rec.data)
           /\ TsNanos(rec.sec, Fraction(st, rec), st.nanos) = Meant(rec).ts
<1>0. Len(buf) = 6 /\ \A k \in 1 .. 6 : buf[k] = RecordBytes(st, rec)[k]
    BY DEF IsHeaderOf
<1>1. \A i \in 1 .. 3 : Field(buf, i)[1] = buf[2 * (i - 1) + 1] /\ Field(buf, i)[2] = buf[2 * (i - 1) + 2]
  <2> TAKE i \in 1 .. 3
  <2> DEFINE m == 2 * (i - 1) + 1
             n == 2 * i
  <2>1. Field(buf, i) = SubSeq(buf, m, n) /\ m \in Int /\ n \in Int /\ n - m + 1 = 2
      BY DEF Field, WordLen
  <2>2. \A j \in m .. n : buf[j] \in Nat
    <3>1. \A j \in m .. n : j \in 1 .. Len(buf)
        BY <1>0
    <3> QED BY <3>1, ElementOfSeq
  <2>4. m + 1 - 1 = 2 * (i - 1) + 1 /\ m + 2 - 1 = 2 * (i - 1) + 2
      OBVIOUS
  <2> HIDE DEF m, n
  <2>3. \A j \in 1 .. n - m + 1 : SubSeq(buf, m, n)[j] = buf[m + j - 1]
      BY <2>1, <2>2, SubSeqProperties
  <2>5. SubSeq(buf, m, n)[1] = buf[m + 1 - 1] /\ SubSeq(buf, m, n)[2] = buf[m + 2 - 1]
      BY <2>1, <2>3
  <2> QED BY <2>1, <2>4, <2>5
<1>2. /\ Field(buf, 1)[1] = buf[1] /\ Field(buf, 1)[2] = buf[2]
      /\ Field(buf, 2)[1] = buf[3] /\ Field(buf, 2)[2] = buf[4]
      /\ Field(buf, 3)[1] = buf[5] /\ Field(buf, 3)[2] = buf[6]
    BY <1>1
<1>3. rec.sec \in Nat /\ Fraction(st, rec) \in Nat /\ Len(rec.data) \in Nat /\ st.little \in BOOLEAN
  <2>1. rec.sec \in Nat /\ rec.micro \in Nat /\ rec.data \in Seq(Nat) /\ st.little \in BOOLEAN
      BY DEF Rec, Stream
  <2>2. \A x, y \in Nat : x * y \in Nat
      OBVIOUS
  <2> QED BY <2>1, <2>2, PcapAssumption, LenProperties DEF Fraction
<1>4. TsNanos(rec.sec, Fraction(st, rec), st.nanos) = Meant(rec).ts
    BY DEF TsNanos, Fraction, Meant
<1> DEFINE rb == RecordBytes(st, rec)
<1>5. /\ rb[1] = Word(rec.sec, st.little)[1] /\ rb[2] = Word(rec.sec, st.little)[2]
      /\ rb[3] = Word(Fraction(st, rec), st.little)[1] /\ rb[4] = Word(Fraction(st, rec), st.little)[2]
      /\ rb[5] = Word(Len(rec.data), st.little)[1] /\ rb[6] = Word(Len(rec.data), st.little)[2]
    BY RecordBytesAre
<1>6. /\ buf[1] = rb[1] /\ buf[2] = rb[2] /\ buf[3] = rb[3]
      /\ buf[4] = rb[4] /\ buf[5] = rb[5] /\ buf[6] = rb[6]
    BY <1>0
<1> HIDE DEF rb
<1>7. ReadU32(Field(buf, 1), st.little) = rec.sec
  <2> DEFINE b == Field(buf, 1)
             n == rec.sec
             little == st.little
  <2>1. b[1] = Word(n, little)[1] /\ b[2] = Word(n, little)[2] /\ n \in Nat /\ little \in BOOLEAN
      BY <1>2, <1>3, <1>5, <1>6
  <2> HIDE DEF b, n, little
  <2>2. ReadU32(b, little) = n
      BY <2>1, WordRead
  <2> QED BY <2>2 DEF b, n, little
<1>8. ReadU32(Field(buf, 2), st.little) = Fraction(st, rec)
  <2> DEFINE b == Field(buf, 2)
             n == Fraction(st, rec)
             little == st.little
  <2>1. b[1] = Word(n, little)[1] /\ b[2] = Word(n, little)[2] /\ n \in Nat /\ little \in BOOLEAN
      BY <1>2, <1>3, <1>5, <1>6
  <2> HIDE DEF b, n, little
  <2>2. ReadU32(b, little) = n
      BY <2>1, WordRead
  <2> QED BY <2>2 DEF b, n, little
<1>9. ReadU32(Field(buf, 3), st.little) = Len(rec.data)
  <2> DEFINE b == Field(buf, 3)
             n == Len(rec.data)
             little == st.little
  <2>1. b[1] = Word(n, little)[1] /\ b[2] = Word(n, little)[2] /\ n \in Nat /\ little \in BOOLEAN
      BY <1>2, <1>3, <1>5, <1>6
  <2> HIDE DEF b, n, little
  <2>2. ReadU32(b, little) = n
      BY <2>1, WordRead
  <2> QED BY <2>2 DEF b, n, little
<1> QED BY <1>4, <1>7, <1>8, <1>9

-----------------------------------------------------------------------------
(* Where the records of a stream are.                                        *)

\* The bytes of a stream, and where its records end.
BytesOf(st) ==
    GlobalHeader(st)
      \o FlattenSeq([i \in DOMAIN st.records |-> RecordBytes(st, st.records[i])])

SizesOf(st) == [j \in DOMAIN st.records |-> Len(RecordBytes(st, st.records[j]))]

EndOf(st, i) == GlobalLen + SumFunctionOnSet(SizesOf(st), 1 .. i)

\* Each record takes its header and its frame.
LEMMA EndFacts ==
    ASSUME NEW st \in Stream
    PROVE  /\ Len(st.records) \in Nat /\ DOMAIN st.records = 1 .. Len(st.records)
           /\ EndOf(st, 0) = 4
           /\ \A i \in 0 .. Len(st.records) : EndOf(st, i) \in Nat
           /\ \A i \in 1 .. Len(st.records) :
                 /\ st.records[i] \in Rec /\ Len(st.records[i].data) \in Nat
                 /\ SizesOf(st)[i] = 6 + Len(st.records[i].data)
                 /\ EndOf(st, i) = EndOf(st, i - 1) + 6 + Len(st.records[i].data)
<1> DEFINE z == SizesOf(st)
           n == Len(st.records)
<1>1. n \in Nat /\ DOMAIN st.records = 1 .. n /\ \A i \in 1 .. n : st.records[i] \in Rec
  <2>1. st.records \in Seq(Rec)
      BY DEF Stream
  <2> QED BY <2>1, LenProperties, ElementOfSeq
<1>2. \A i \in 1 .. n : z[i] = 6 + Len(st.records[i].data) /\ Len(st.records[i].data) \in Nat
    BY <1>1, RecordBytesAre DEF SizesOf
<1>3. \A i : EndOf(st, i) = 4 + SumOver(z, 1 .. i)
    BY SumIsSumOver DEF EndOf, GlobalLen, WordLen
<1> HIDE DEF z, n
<1>4. EndOf(st, 0) = 4
  <2>1. 1 .. 0 = {}
      OBVIOUS
  <2> QED BY <1>3, <2>1, SumEmpty
<1>5. \A i \in 0 .. n : SumOver(z, 1 .. i) \in Nat
  <2> TAKE i \in 0 .. n
  <2>1. IsFiniteSet(1 .. i)
      BY <1>1, FS_Interval
  <2>2. \A x \in 1 .. i : z[x] \in Nat
    <3>1. \A x \in 1 .. i : x \in 1 .. n
        BY <1>1
    <3> QED BY <1>2, <3>1
  <2> QED BY <2>1, <2>2, SumType
<1>6. ASSUME NEW i \in 1 .. n PROVE EndOf(st, i) = EndOf(st, i - 1) + 6 + Len(st.records[i].data)
  <2> DEFINE D == 1 .. i - 1
  <2>1. IsFiniteSet(D) /\ i \notin D /\ D \cup {i} = 1 .. i
    <3> DEFINE m == i - 1
    <3>1. 1 \in Int /\ m \in Int /\ i = m + 1 /\ m >= 0
        BY <1>1
    <3> HIDE DEF m
    <3>2. IsFiniteSet(1 .. m)
        BY <3>1, FS_Interval
    <3>3. i \notin 1 .. m /\ (1 .. m) \cup {i} = 1 .. i
        BY <3>1
    <3> QED BY <3>2, <3>3 DEF m
  <2>2. \A x \in D \cup {i} : z[x] \in Nat
    <3>1. \A x \in D \cup {i} : x \in 1 .. n
        BY <1>1
    <3> QED BY <1>2, <3>1
  <2>3. SumOver(z, D) \in Nat
    <3>1. i - 1 \in 0 .. n
        BY <1>1
    <3> QED BY <1>5, <3>1
  <2>4. EndOf(st, i) = 4 + SumOver(z, D \cup {i}) /\ EndOf(st, i - 1) = 4 + SumOver(z, D)
      BY <1>3, <2>1
  <2> HIDE DEF D
  <2>5. SumOver(z, D \cup {i}) = z[i] + SumOver(z, D)
      BY <2>1, <2>2, SumAdd
  <2> DEFINE t == SumOver(z, D)
             l == Len(st.records[i].data)
  <2>6. /\ EndOf(st, i) = 4 + ((6 + l) + t) /\ EndOf(st, i - 1) = 4 + t
        /\ t \in Nat /\ l \in Nat
      BY <1>2, <2>3, <2>4, <2>5
  <2> HIDE DEF t, l
  <2>7. 4 + ((6 + l) + t) = 4 + t + 6 + l
      BY <2>6
  <2> QED BY <2>6, <2>7 DEF l
<1> QED BY <1>1, <1>2, <1>3, <1>4, <1>5, <1>6, SMTT(20) DEF z, n

\* The global header has four bytes.
LEMMA GlobalBytesAre ==
    ASSUME NEW st \in Stream
    PROVE  /\ GlobalHeader(st) \in Seq(Nat) /\ Len(GlobalHeader(st)) = 4
           /\ \A k \in 1 .. 2 :
                 GlobalHeader(st)[k] = (IF ~ st.valid THEN <<0, 0>>
                                        ELSE IF st.nanos THEN Word(Magic.ns_le, st.little)
                                             ELSE Word(Magic.us_le, st.little))[k]
<1> DEFINE w == IF ~ st.valid THEN <<0, 0>>
                ELSE IF st.nanos THEN Word(Magic.ns_le, st.little) ELSE Word(Magic.us_le, st.little)
           v == Word(1, st.little)
<1>1. Magic.ns_le \in Nat /\ Magic.us_le \in Nat /\ st.little \in BOOLEAN
    BY PcapAssumption DEF Magic, Stream
<1>2. w \in Seq(Nat) /\ Len(w) = 2
  <2>1. <<0, 0>> \in Seq(Nat) /\ Len(<<0, 0>>) = 2
      OBVIOUS
  <2> QED BY <1>1, <2>1, WordRead
<1>3. v \in Seq(Nat) /\ Len(v) = 2
  <2>1. 1 \in Nat
      OBVIOUS
  <2> QED BY <1>1, <2>1, WordRead
<1>4. GlobalHeader(st) = w \o v
    BY DEF GlobalHeader
<1> HIDE DEF w, v
<1>5. /\ w \o v \in Seq(Nat) /\ Len(w \o v) = Len(w) + Len(v)
      /\ \A i \in 1 .. Len(w) + Len(v) : (w \o v)[i] = IF i <= Len(w) THEN w[i] ELSE v[i - Len(w)]
    BY <1>2, <1>3, ConcatProperties
<1>6. \A k \in 1 .. 2 : (w \o v)[k] = w[k]
    BY <1>2, <1>3, <1>5
<1> QED BY <1>2, <1>3, <1>4, <1>5, <1>6, SMTT(20) DEF w

\* Where the bytes of the headers and of the records are.
LEMMA Layout ==
    ASSUME NEW st \in Stream
    PROVE  /\ BytesOf(st) \in Seq(Nat) /\ Len(BytesOf(st)) = EndOf(st, Len(st.records))
           /\ \A k \in 1 .. 4 : BytesOf(st)[k] = GlobalHeader(st)[k]
           /\ \A i \in 1 .. Len(st.records) : \A k \in 1 .. SizesOf(st)[i] :
                 BytesOf(st)[EndOf(st, i - 1) + k] = RecordBytes(st, st.records[i])[k]
<1> DEFINE n == Len(st.records)
           seqs == [i \in DOMAIN st.records |-> RecordBytes(st, st.records[i])]
           end == [i \in 0 .. n |-> EndOf(st, i) - 4]
           g == GlobalHeader(st)
           f == FlattenSeq(seqs)
<1>1. /\ n \in Nat /\ DOMAIN st.records = 1 .. n /\ EndOf(st, 0) = 4
      /\ \A i \in 0 .. n : EndOf(st, i) \in Nat
      /\ \A i \in 1 .. n : /\ st.records[i] \in Rec /\ Len(st.records[i].data) \in Nat
                           /\ SizesOf(st)[i] = 6 + Len(st.records[i].data)
                           /\ EndOf(st, i) = EndOf(st, i - 1) + 6 + Len(st.records[i].data)
    BY EndFacts
<1>2. seqs = [i \in 1 .. n |-> RecordBytes(st, st.records[i])]
    BY <1>1
<1>3. \A i \in 1 .. n : /\ RecordBytes(st, st.records[i]) \in Seq(Nat)
                        /\ Len(RecordBytes(st, st.records[i])) = SizesOf(st)[i]
    BY <1>1, RecordBytesAre
<1>4. seqs \in Seq(Seq(Nat)) /\ Len(seqs) = n
    BY <1>1, <1>2, <1>3, IsASeq
<1>5. \A i \in 1 .. n : seqs[i] = RecordBytes(st, st.records[i]) /\ Len(seqs[i]) = SizesOf(st)[i]
    BY <1>2, <1>3
<1>6. \A i \in 0 .. n : EndOf(st, i) >= 4
  <2> DEFINE T == {i \in 0 .. n : ~ (EndOf(st, i) >= 4)}
  <2>1. T = {}
    <3> SUFFICES ASSUME T # {} PROVE FALSE
        OBVIOUS
    <3>1. T \in SUBSET Nat
        BY <1>1
    <3>2. PICK i \in T : \A m \in T : i <= m
      <4> HIDE DEF T
      <4> QED BY <3>1, Least
    <3>3. i \in 0 .. n /\ ~ (EndOf(st, i) >= 4) /\ i # 0
        BY <1>1, <3>2
    <3>4. i \in 1 .. n /\ i - 1 \in 0 .. n /\ i - 1 \notin T
      <4> HIDE DEF T
      <4> QED BY <1>1, <3>2, <3>3
    <3>5. EndOf(st, i - 1) >= 4
        BY <3>4
    <3>6. EndOf(st, i) = EndOf(st, i - 1) + 6 + Len(st.records[i].data) /\ Len(st.records[i].data) \in Nat
          /\ EndOf(st, i - 1) \in Nat
        BY <1>1, <3>4
    <3> QED BY <3>3, <3>5, <3>6
  <2> QED BY <2>1
<1>7. /\ end[0] = 0 /\ \A i \in 0 .. n : end[i] = EndOf(st, i) - 4 /\ end[i] \in Nat
    BY <1>1, <1>6
<1>8. \A i \in 1 .. n : end[i] = end[i - 1] + Len(seqs[i])
  <2> TAKE i \in 1 .. n
  <2>1. i \in 0 .. n /\ i - 1 \in 0 .. n
      BY <1>1
  <2>2. end[i] = EndOf(st, i) - 4 /\ end[i - 1] = EndOf(st, i - 1) - 4 /\ EndOf(st, i - 1) \in Nat
      BY <1>1, <1>7, <2>1
  <2>3. Len(seqs[i]) = 6 + Len(st.records[i].data) /\ Len(st.records[i].data) \in Nat
        /\ EndOf(st, i) = EndOf(st, i - 1) + 6 + Len(st.records[i].data)
      BY <1>1, <1>5
  <2> HIDE DEF seqs, end
  <2> DEFINE x == EndOf(st, i - 1)
             l == Len(st.records[i].data)
  <2>4. end[i] = (x + 6 + l) - 4 /\ end[i - 1] = x - 4 /\ Len(seqs[i]) = 6 + l /\ x \in Nat /\ l \in Nat
      BY <2>2, <2>3
  <2> HIDE DEF x, l
  <2>5. (x + 6 + l) - 4 = (x - 4) + (6 + l)
      BY <2>4
  <2> QED BY <2>4, <2>5
<1>9. g \in Seq(Nat) /\ Len(g) = 4
    BY GlobalBytesAre
<1>10. BytesOf(st) = g \o f
    BY DEF BytesOf
<1> HIDE DEF n, seqs, end, g
<1>11. /\ f \in Seq(Nat) /\ Len(f) = end[n]
       /\ \A j \in 1 .. n : \A k \in 1 .. Len(seqs[j]) : f[end[j - 1] + k] = seqs[j][k]
  <2>1. /\ FlattenSeq(seqs) \in Seq(Nat) /\ Len(FlattenSeq(seqs)) = end[Len(seqs)]
        /\ \A j \in 1 .. Len(seqs) : \A k \in 1 .. Len(seqs[j]) :
              FlattenSeq(seqs)[end[j - 1] + k] = seqs[j][k]
    <3>1. \A i \in 0 .. Len(seqs) : end[i] \in Nat
        BY <1>4, <1>7
    <3>2. \A i \in 1 .. Len(seqs) : end[i] = end[i - 1] + Len(seqs[i])
        BY <1>4, <1>8
    <3>3. end[0] = 0 /\ seqs \in Seq(Seq(Nat))
        BY <1>4, <1>7
    <3>4. Ends(seqs, end)
        BY <3>1, <3>2, <3>3 DEF Ends
    <3> QED BY <3>3, <3>4, FlattenFacts
  <2> QED BY <1>4, <2>1
<1> HIDE DEF f
<1>12. /\ g \o f \in Seq(Nat) /\ Len(g \o f) = 4 + end[n]
       /\ \A i \in 1 .. 4 + end[n] : (g \o f)[i] = IF i <= 4 THEN g[i] ELSE f[i - 4]
  <2>1. /\ g \o f \in Seq(Nat) /\ Len(g \o f) = Len(g) + Len(f)
        /\ \A i \in 1 .. Len(g) + Len(f) : (g \o f)[i] = IF i <= Len(g) THEN g[i] ELSE f[i - Len(g)]
      BY <1>9, <1>11, ConcatProperties
  <2> QED BY <1>9, <1>11, <2>1
<1>13. n \in 0 .. n
    BY <1>1
<1>14. Len(g \o f) = EndOf(st, n)
    BY <1>1, <1>7, <1>12, <1>13
<1>15. \A k \in 1 .. 4 : (g \o f)[k] = g[k]
  <2>1. \A k \in 1 .. 4 : k \in 1 .. 4 + end[n] /\ k <= 4
      BY <1>7, <1>13
  <2> QED BY <1>12, <2>1
<1>16. ASSUME NEW i \in 1 .. n, NEW k \in 1 .. SizesOf(st)[i]
       PROVE  (g \o f)[EndOf(st, i - 1) + k] = RecordBytes(st, st.records[i])[k]
  <2> DEFINE q == EndOf(st, i - 1) + k
             e == end[i - 1]
             l == Len(seqs[i])
  <2>1. i - 1 \in 0 .. n /\ i \in 0 .. n
      BY <1>1
  <2>2. /\ EndOf(st, i - 1) = e + 4 /\ e \in Nat /\ end[i] = e + l /\ l \in Nat /\ k \in 1 .. l
        /\ end[i] \in Nat
    <3>1. e \in Nat /\ end[i] = e + l /\ end[i] \in Nat
        BY <1>7, <1>8, <2>1
    <3>2. SizesOf(st)[i] = 6 + Len(st.records[i].data) /\ Len(st.records[i].data) \in Nat
        BY <1>1
    <3>3. l = SizesOf(st)[i] /\ l \in Nat
        BY <1>5, <3>2
    <3>4. e = EndOf(st, i - 1) - 4 /\ EndOf(st, i - 1) \in Nat
        BY <1>1, <1>7, <2>1
    <3> HIDE DEF e, l
    <3> QED BY <3>1, <3>3, <3>4
  <2>3. f[e + k] = seqs[i][k]
      BY <1>11, <2>2
  <2>4. end[i] <= end[n]
    <3> DEFINE U == {m \in i .. n : ~ (end[i] <= end[m])}
    <3>1. U = {}
      <4> SUFFICES ASSUME U # {} PROVE FALSE
          OBVIOUS
      <4>1. U \in SUBSET Nat
          BY <2>1
      <4>2. PICK m \in U : \A x \in U : m <= x
        <5> HIDE DEF U
        <5> QED BY <4>1, Least
      <4>3. m \in i .. n /\ ~ (end[i] <= end[m])
          BY <4>2
      <4>4. m # i
          BY <2>2, <4>3
      <4>5. m - 1 \in i .. n /\ m - 1 \notin U /\ m - 1 \in 0 .. n /\ m \in 1 .. n
        <5> HIDE DEF U
        <5> QED BY <1>1, <2>1, <4>2, <4>3, <4>4
      <4>6. end[i] <= end[m - 1]
          BY <4>5
      <4>7. end[m] = end[m - 1] + Len(seqs[m]) /\ Len(seqs[m]) \in Nat /\ end[m - 1] \in Nat
        <5>1. Len(seqs[m]) = 6 + Len(st.records[m].data) /\ Len(st.records[m].data) \in Nat
            BY <1>1, <1>5, <4>5
        <5>2. Len(seqs[m]) \in Nat
            BY <5>1
        <5>3. end[m] = end[m - 1] + Len(seqs[m])
            BY <1>8, <4>5
        <5>4. end[m - 1] \in Nat
            BY <1>7, <4>5
        <5> QED BY <5>2, <5>3, <5>4
      <4> DEFINE x == end[i]
                 y == end[m - 1]
                 t == Len(seqs[m])
      <4>8. x \in Nat /\ y \in Nat /\ t \in Nat /\ x <= y /\ ~ (x <= y + t)
          BY <2>2, <4>3, <4>6, <4>7
      <4> HIDE DEF x, y, t
      <4> QED BY <4>8
    <3>2. n \in i .. n
        BY <1>1
    <3> QED BY <3>1, <3>2
  <2> DEFINE w == end[n]
  <2>5. w \in Nat /\ e + l <= w
      BY <1>7, <1>13, <2>2, <2>4
  <2> HIDE DEF e, l, w
  <2>6. q \in 1 .. 4 + w /\ ~ (q <= 4) /\ q - 4 = e + k
      BY <2>2, <2>5
  <2> HIDE DEF q
  <2>7. (g \o f)[q] = f[e + k]
      BY <1>12, <2>6 DEF w
  <2> QED BY <1>5, <2>3, <2>7 DEF q
<1> QED BY <1>10, <1>12, <1>14, <1>15, <1>16, ZenonT(30) DEF g, n

\* Records end in order.
LEMMA EndsGrow ==
    ASSUME NEW st \in Stream, NEW i \in 0 .. Len(st.records), NEW j \in 0 .. Len(st.records), i < j
    PROVE  EndOf(st, i) + 6 <= EndOf(st, j)
<1> DEFINE n == Len(st.records)
           U == {m \in i + 1 .. n : ~ (EndOf(st, i) + 6 <= EndOf(st, m))}
<1>1. /\ n \in Nat /\ \A m \in 0 .. n : EndOf(st, m) \in Nat
      /\ \A m \in 1 .. n : /\ Len(st.records[m].data) \in Nat
                           /\ EndOf(st, m) = EndOf(st, m - 1) + 6 + Len(st.records[m].data)
    BY EndFacts
<1> HIDE DEF n
<1>0. i \in 0 .. n /\ j \in 0 .. n
    BY DEF n
<1>2. U = {}
  <2> SUFFICES ASSUME U # {} PROVE FALSE
      OBVIOUS
  <2>1. U \in SUBSET Nat
      BY <1>0, <1>1
  <2>2. PICK m \in U : \A x \in U : m <= x
    <3> HIDE DEF U
    <3> QED BY <2>1, Least
  <2>3. m \in i + 1 .. n /\ ~ (EndOf(st, i) + 6 <= EndOf(st, m))
      BY <2>2
  <2>4. m \in 1 .. n /\ m - 1 \in 0 .. n
      BY <1>0, <1>1, <2>3
  <2>5. /\ EndOf(st, m) = EndOf(st, m - 1) + 6 + Len(st.records[m].data)
        /\ Len(st.records[m].data) \in Nat /\ EndOf(st, m - 1) \in Nat /\ EndOf(st, i) \in Nat
      BY <1>0, <1>1, <2>4
  <2>6. CASE m = i + 1
    <3>1. m - 1 = i
        BY <1>0, <2>6
    <3> QED BY <2>3, <2>5, <3>1
  <2>7. CASE m # i + 1
    <3>1. m - 1 \in i + 1 .. n /\ m - 1 \notin U
      <4> HIDE DEF U
      <4> QED BY <1>0, <1>1, <2>2, <2>3, <2>7
    <3>2. EndOf(st, i) + 6 <= EndOf(st, m - 1)
        BY <3>1
    <3> DEFINE x == EndOf(st, i)
               y == EndOf(st, m - 1)
               l == Len(st.records[m].data)
    <3>3. x \in Nat /\ y \in Nat /\ l \in Nat /\ x + 6 <= y /\ ~ (x + 6 <= y + 6 + l)
        BY <2>3, <2>5, <3>2
    <3> HIDE DEF x, y, l
    <3> QED BY <3>3
  <2> QED BY <2>6, <2>7
<1>3. j \in i + 1 .. n
    BY <1>0, <1>1
<1> QED BY <1>2, <1>3

-----------------------------------------------------------------------------
(* The place of the reader in its stream.                                    *)

PcapPacket == [ts : Nat, data : Seq(Nat)]

Reader ==
    [phase : {"none", "global", "header", "body", "end", "failed"}, buf : Seq(Nat),
     little : BOOLEAN, nanos : BOOLEAN, len : Nat, ts : Nat, found : Seq(PcapPacket)]

\* The buffer of a reader that is at p holds what st has behind start.
Holds(st, r, p, start) ==
    /\ p = start + Len(r.buf)
    /\ \A k \in 1 .. Len(r.buf) : r.buf[k] = BytesOf(st)[start + k]

AtGlobal(st, r, p) == Holds(st, r, p, 0) /\ Len(r.buf) < 4

Agrees(st, r) == st.valid /\ r.little = st.little /\ r.nanos = st.nanos

\* Reading the header behind the i-th record, or the frame of the i-th record.
AtHeader(st, r, p, i) == Agrees(st, r) /\ Holds(st, r, p, EndOf(st, i)) /\ Len(r.buf) < 6

AtBody(st, r, p, i) ==
    /\ Agrees(st, r) /\ Holds(st, r, p, EndOf(st, i - 1) + 6)
    /\ r.len = Len(st.records[i].data) /\ r.ts = Meant(st.records[i]).ts
    /\ Len(r.buf) < r.len

PcapType ==
    /\ stream \in Stream /\ reader \in Reader /\ handed \in Seq(PcapPacket)
    /\ closed \in BOOLEAN /\ pos \in Nat /\ written \in Nat
    /\ pos <= written /\ written <= Len(BytesOf(stream))

Placed(st, r, p) ==
    /\ r.phase = "none" => p = 0
    /\ r.phase = "global" => AtGlobal(st, r, p)
    /\ r.phase = "header" => \E i \in 0 .. Len(st.records) : AtHeader(st, r, p, i)
    /\ r.phase = "body" => \E i \in 1 .. Len(st.records) : AtBody(st, r, p, i)

PcapStatus ==
    /\ status = "opening" => reader.phase \in {"none", "global"}
    /\ status = "open" => reader.phase \in {"header", "body"}
    /\ status = "end" => closed
    /\ reader.phase = "none" => child = "none"
    /\ child # "none" => backend = "live"
    /\ backend = "live" /\ closed => child \in {"zombie", "reaped"}

PcapGood == PcapType /\ Placed(stream, reader, pos) /\ PcapStatus

ScriptInv == backend = "synthetic" => pos \in 0 .. Len(Script)

-----------------------------------------------------------------------------
(* One read, in each phase of the reader.                                    *)

\* The reader with the bytes of one read, up to q, in its buffer.
Chunk(st, p, q) == SubSeq(BytesOf(st), p + 1, q)

Filled(st, r, p, q) == [r EXCEPT !.buf = @ \o Chunk(st, p, q), !.found = <<>>]

\* A read of the next bytes keeps the buffer in step with the stream.
LEMMA FilledHolds ==
    ASSUME NEW st \in Stream, NEW r \in Reader, NEW p \in Nat, NEW start \in Nat,
           Holds(st, r, p, start), NEW q \in Nat, p < q, q <= Len(BytesOf(st)),
           NEW s, s = Filled(st, r, p, q)
    PROVE  /\ s \in Reader /\ Holds(st, s, q, start) /\ Len(s.buf) = q - start
           /\ s.phase = r.phase /\ s.little = r.little /\ s.nanos = r.nanos
           /\ s.len = r.len /\ s.ts = r.ts /\ s.found = <<>>
<1> DEFINE k == q - p
<1>0. k \in Nat \ {0} /\ p + k = q
    OBVIOUS
<1> HIDE DEF k
<1> DEFINE B == BytesOf(st)
           b == SubSeq(B, p + 1, p + k)
           a == r.buf
           n == Len(a)
<1>1. B \in Seq(Nat) /\ a \in Seq(Nat) /\ Len(B) \in Nat /\ n \in Nat
    BY Layout, LenProperties DEF Reader
<1>2. p = start + n /\ \A j \in 1 .. n : a[j] = B[start + j]
    BY DEF Holds
<1>3. p + k <= Len(B)
    BY <1>0
<1> HIDE DEF B
<1>4. b \in Seq(Nat) /\ Len(b) = k /\ \A j \in 1 .. k : b[j] = B[p + j]
  <2>1. \A j \in p + 1 .. p + k : B[j] \in Nat
    <3>1. \A j \in p + 1 .. p + k : j \in 1 .. Len(B)
        BY <1>0, <1>1, <1>3
    <3> QED BY <1>1, <3>1, ElementOfSeq
  <2>2. /\ b \in Seq(Nat) /\ Len(b) = (IF p + 1 <= p + k THEN (p + k) - (p + 1) + 1 ELSE 0)
        /\ \A j \in 1 .. (p + k) - (p + 1) + 1 : b[j] = B[(p + 1) + j - 1]
    <3> DEFINE x == p + 1
               y == p + k
    <3>1. x \in Int /\ y \in Int /\ \A j \in x .. y : B[j] \in Nat
        BY <1>0, <2>1
    <3> HIDE DEF x, y
    <3>2. /\ SubSeq(B, x, y) \in Seq(Nat) /\ Len(SubSeq(B, x, y)) = (IF x <= y THEN y - x + 1 ELSE 0)
          /\ \A j \in 1 .. y - x + 1 : SubSeq(B, x, y)[j] = B[x + j - 1]
        BY <3>1, SubSeqProperties
    <3> QED BY <3>2 DEF x, y
  <2> HIDE DEF b
  <2>3. (p + k) - (p + 1) + 1 = k /\ p + 1 <= p + k /\ \A j \in 1 .. k : (p + 1) + j - 1 = p + j
      BY <1>0
  <2> QED BY <2>2, <2>3
<1> DEFINE c == a \o b
<1>5. /\ c \in Seq(Nat) /\ Len(c) = n + k
      /\ \A j \in 1 .. n + k : c[j] = IF j <= n THEN a[j] ELSE b[j - n]
  <2> HIDE DEF a, b
  <2>1. /\ c \in Seq(Nat) /\ Len(c) = Len(a) + Len(b)
        /\ \A j \in 1 .. Len(a) + Len(b) : c[j] = IF j <= Len(a) THEN a[j] ELSE b[j - Len(a)]
      BY <1>1, <1>4, ConcatProperties
  <2> QED BY <1>4, <2>1
<1>6. ASSUME NEW j \in 1 .. n + k PROVE c[j] = B[start + j]
  <2> HIDE DEF a, b, c, n
  <2>1. CASE j <= n
    <3>1. j \in 1 .. n
        BY <1>0, <1>1, <2>1
    <3> QED BY <1>2, <1>5, <2>1, <3>1
  <2>2. CASE ~ (j <= n)
    <3>1. j - n \in 1 .. k /\ p + (j - n) = start + j
        BY <1>0, <1>1, <1>2, <2>2
    <3>2. b[j - n] = B[p + (j - n)]
        BY <1>4, <3>1
    <3> QED BY <1>5, <2>2, <3>1, <3>2
  <2> QED BY <2>1, <2>2
<1>7. s = [r EXCEPT !.buf = c, !.found = <<>>]
    BY <1>0 DEF Filled, Chunk, B
<1> HIDE DEF b, c, n
<1>8. /\ s \in Reader /\ s.buf = c /\ s.phase = r.phase /\ s.little = r.little /\ s.nanos = r.nanos
      /\ s.len = r.len /\ s.ts = r.ts /\ s.found = <<>>
  <2>1. <<>> \in Seq(PcapPacket)
      BY EmptySeq
  <2> QED BY <1>5, <1>7, <2>1 DEF Reader
<1>9. q = start + (n + k) /\ n + k = q - start
    BY <1>0, <1>1, <1>2
<1>10. Holds(st, s, q, start)
  <2>1. q = start + Len(s.buf)
      BY <1>5, <1>8, <1>9
  <2>2. \A j \in 1 .. Len(s.buf) : s.buf[j] = B[start + j]
      BY <1>5, <1>6, <1>8
  <2> QED BY <2>1, <2>2 DEF Holds, B
<1> QED BY <1>5, <1>8, <1>9, <1>10

\* An empty buffer is in step with the stream wherever it is.
LEMMA EmptyHolds ==
    ASSUME NEW st, NEW r, r.buf = <<>>, NEW p \in Nat PROVE Holds(st, r, p, p) /\ Len(r.buf) = 0
<1>1. Len(r.buf) = 0 /\ 1 .. 0 = {}
    OBVIOUS
<1>2. p = p + Len(r.buf)
    BY <1>1
<1> QED BY <1>1, <1>2 DEF Holds

\* A reader that has emptied its buffer.
Emptied(r, found) == [r EXCEPT !.phase = "header", !.buf = <<>>, !.found = found]

\* It waits for the next record.
LEMMA EmptyReader ==
    ASSUME NEW r \in Reader, NEW found \in Seq(PcapPacket), NEW t, t = Emptied(r, found)
    PROVE  /\ t \in Reader /\ t.phase = "header" /\ t.buf = <<>> /\ t.found = found
           /\ t.little = r.little /\ t.nanos = r.nanos
<1>1. <<>> \in Seq(Nat)
    BY EmptySeq
<1> QED BY <1>1 DEF Reader, Emptied

\* A buffer that is not full yet is left alone, a full one is interpreted.
LEMMA FeedIs ==
    ASSUME NEW st, NEW r, NEW p, NEW q, NEW s, s = Filled(st, r, p, q),
           s.phase \in {"global", "header", "body"}, Missing(s) \in Nat
    PROVE  Feed(r, Chunk(st, p, q)) = IF Missing(s) > 0 THEN s
                            ELSE IF s.phase = "global" THEN TakeGlobal(s)
                            ELSE IF s.phase = "header" THEN TakeHeader(s)
                            ELSE TakeBody(s)
<1>1. Feed(r, Chunk(st, p, q)) = CASE Missing(s) > 0     -> s
          [] s.phase = "global" /\ Missing(s) = 0 -> TakeGlobal(s)
          [] s.phase = "header" /\ Missing(s) = 0 -> TakeHeader(s)
          [] s.phase = "body"   /\ Missing(s) = 0 -> TakeBody(s)
    BY DEF Feed, Filled
<1>2. Missing(s) > 0 \/ Missing(s) = 0
    OBVIOUS
<1> QED BY <1>1, <1>2

\* The magic number is recognised, with its byte order and resolution.
LEMMA TakeGlobalIs ==
    ASSUME NEW st \in Stream, NEW s \in Reader, Len(s.buf) = 4, Holds(st, s, 4, 0), s.found = <<>>
    PROVE  /\ TakeGlobal(s) \in Reader /\ TakeGlobal(s).found = <<>>
           /\ \/ TakeGlobal(s).phase = "failed"
              \/ /\ TakeGlobal(s).phase = "header" /\ TakeGlobal(s).buf = <<>>
                 /\ Agrees(st, TakeGlobal(s))
<1> DEFINE b == Field(s.buf, 1)
           magic == ReadU32(b, TRUE)
           B == BytesOf(st)
<1>1. s.buf \in Seq(Nat) /\ s.buf[1] = B[1] /\ s.buf[2] = B[2] /\ s.buf[1] \in Nat /\ s.buf[2] \in Nat
  <2>1. s.buf \in Seq(Nat)
      BY DEF Reader
  <2>2. \A k \in 1 .. 4 : s.buf[k] = B[0 + k]
      BY DEF Holds
  <2>3. 1 \in 1 .. 4 /\ 2 \in 1 .. 4 /\ 0 + 1 = 1 /\ 0 + 2 = 2
      OBVIOUS
  <2> HIDE DEF B
  <2>4. s.buf[1] = B[1] /\ s.buf[2] = B[2]
      BY <2>2, <2>3
  <2> QED BY <2>1, <2>3, <2>4, ElementOfSeq
<1>2. b[1] = B[1] /\ b[2] = B[2]
  <2>1. b = SubSeq(s.buf, 1, 2)
      BY DEF Field, WordLen
  <2>2. \A j \in 1 .. 2 : s.buf[j] \in Nat
      BY <1>1
  <2>3. \A j \in 1 .. 2 - 1 + 1 : SubSeq(s.buf, 1, 2)[j] = s.buf[1 + j - 1]
      BY <2>2, SubSeqProperties
  <2>4. SubSeq(s.buf, 1, 2)[1] = s.buf[1] /\ SubSeq(s.buf, 1, 2)[2] = s.buf[2]
      BY <2>3
  <2> HIDE DEF B
  <2> QED BY <1>1, <2>1, <2>4
<1> DEFINE w == IF ~ st.valid THEN <<0, 0>>
                ELSE IF st.nanos THEN Word(Magic.ns_le, st.little) ELSE Word(Magic.us_le, st.little)
<1>3. B[1] = w[1] /\ B[2] = w[2]
  <2>1. B[1] = GlobalHeader(st)[1] /\ B[2] = GlobalHeader(st)[2]
      BY Layout
  <2>2. GlobalHeader(st)[1] = w[1] /\ GlobalHeader(st)[2] = w[2]
      BY GlobalBytesAre
  <2> QED BY <2>1, <2>2
<1> HIDE DEF B
<1>4. magic = w[1] + Base * w[2]
    BY <1>2, <1>3 DEF ReadU32
<1>5. st.little \in BOOLEAN /\ st.nanos \in BOOLEAN /\ st.valid \in BOOLEAN
    BY DEF Stream
<1>6. Base \in Nat /\ Base > 3
    BY PcapAssumption
<1> DEFINE lo == IF st.nanos THEN 3 ELSE 2
<1>7. (lo + Base * 1) % Base = lo /\ (lo + Base * 1) \div Base = 1
  <2>1. \A x \in {2, 3} : (x + Base * 1) % Base = x /\ (x + Base * 1) \div Base = 1
      BY <1>6
  <2> QED BY <2>1
<1>10. lo \in {2, 3} /\ (lo = 3 <=> st.nanos)
    BY <1>5
<1>11. /\ Magic.us_le = 2 + Base /\ Magic.ns_le = 3 + Base
      /\ Magic.us_be = 1 + Base * 2 /\ Magic.ns_be = 1 + Base * 3
      /\ DOMAIN Magic = {"us_le", "us_be", "ns_le", "ns_be"}
    BY <1>6 DEF Magic
<1>12. w = IF ~ st.valid THEN <<0, 0>> ELSE Word(lo + Base * 1, st.little)
    BY DEF Magic
<1>13. TakeGlobal(s) = IF \E m \in DOMAIN Magic : Magic[m] = magic
                      THEN [s EXCEPT !.phase = "header", !.buf = <<>>,
                                     !.little = magic \in {Magic.us_le, Magic.ns_le},
                                     !.nanos = magic \in {Magic.ns_le, Magic.ns_be}]
                      ELSE [s EXCEPT !.phase = "failed"]
    BY DEF TakeGlobal
<1> HIDE DEF magic, w, lo, b
<1>8. CASE st.valid
  <2>1. Word(lo + Base * 1, st.little) = IF st.little THEN <<lo, 1>> ELSE <<1, lo>>
      BY <1>7 DEF Word
  <2>2. w[1] = (IF st.little THEN lo ELSE 1) /\ w[2] = (IF st.little THEN 1 ELSE lo)
      BY <1>8, <1>12, <2>1
  <2>3. magic = IF st.little THEN lo + Base * 1 ELSE 1 + Base * lo
      BY <1>4, <2>2
  <2>4. magic = IF st.little THEN IF st.nanos THEN 3 + Base ELSE 2 + Base
                ELSE IF st.nanos THEN 1 + Base * 3 ELSE 1 + Base * 2
      BY <1>6, <1>10, <2>3
  <2>6. \E m \in DOMAIN Magic : Magic[m] = magic
      BY <1>5, <1>11, <2>4
  <2> DEFINE l == magic \in {Magic.us_le, Magic.ns_le}
             n == magic \in {Magic.ns_le, Magic.ns_be}
  <2>7. (l <=> st.little) /\ (n <=> st.nanos)
      BY <1>5, <1>6, <1>11, <2>4
  <2>8. l = st.little /\ n = st.nanos
    <3>1. l \in BOOLEAN /\ n \in BOOLEAN
        OBVIOUS
    <3> HIDE DEF l, n
    <3> QED BY <1>5, <2>7, <3>1
  <2> DEFINE t == [s EXCEPT !.phase = "header", !.buf = <<>>, !.little = st.little, !.nanos = st.nanos]
  <2>9. TakeGlobal(s) = t
      BY <1>13, <2>6, <2>8
  <2>10. t \in Reader /\ t.found = <<>> /\ t.phase = "header" /\ t.buf = <<>> /\ t.little = st.little /\ t.nanos = st.nanos
    <3>1. <<>> \in Seq(Nat)
        BY EmptySeq
    <3> QED BY <1>5, <3>1 DEF Reader
  <2> QED BY <1>8, <2>9, <2>10 DEF Agrees
<1>9. CASE ~ st.valid
  <2>1. w[1] = 0 /\ w[2] = 0
      BY <1>9, <1>12
  <2>2. magic = 0
      BY <1>4, <1>6, <2>1
  <2>3. ~ \E m \in DOMAIN Magic : Magic[m] = magic
    <3>1. 2 + Base # 0 /\ 3 + Base # 0 /\ 1 + Base * 2 # 0 /\ 1 + Base * 3 # 0
        BY <1>6
    <3> QED BY <1>11, <2>2, <3>1
  <2>4. TakeGlobal(s) = [s EXCEPT !.phase = "failed"]
      BY <1>13, <2>3
  <2> QED BY <2>4 DEF Reader
<1> QED BY <1>8, <1>9

\* One read while the global header is being filled.
LEMMA FeedGlobal ==
    ASSUME NEW st \in Stream, NEW r \in Reader, r.phase = "global", NEW p \in Nat, AtGlobal(st, r, p),
           NEW q \in Nat, p < q, q <= p + Missing(r), q <= Len(BytesOf(st)),
           NEW t, t = Feed(r, Chunk(st, p, q))
    PROVE  /\ t \in Reader /\ t.found = <<>> /\ q <= 4
           /\ \/ t.phase = "global" /\ AtGlobal(st, t, q)
              \/ t.phase = "failed"
              \/ t.phase = "header" /\ AtHeader(st, t, q, 0)
<1> DEFINE s == Filled(st, r, p, q)
           start == 0
           m == Len(r.buf)
<1>1. m \in Nat /\ Holds(st, r, p, start) /\ m < 4 /\ p = start + m
  <2>1. r.buf \in Seq(Nat) /\ m \in Nat
      BY LenProperties DEF Reader
  <2> QED BY <2>1 DEF AtGlobal, Holds
<1>2. Missing(r) = 4 - m
    BY DEF Missing, GlobalLen, WordLen
<1>3. q <= 4 /\ start \in Nat
    BY <1>1, <1>2
<1>0. start = 0
    OBVIOUS
<1> HIDE DEF start, s, m
<1>4. /\ s \in Reader /\ Holds(st, s, q, start) /\ Len(s.buf) = q - start
      /\ s.phase = "global" /\ s.found = <<>>
  <2>1. /\ s \in Reader /\ Holds(st, s, q, start) /\ Len(s.buf) = q - start
        /\ s.phase = r.phase /\ s.found = <<>>
      BY <1>1, <1>3, FilledHolds DEF s
  <2> QED BY <2>1
<1>5. Missing(s) = 4 - q /\ Missing(s) \in Nat
  <2>1. Missing(s) = 4 - Len(s.buf)
      BY <1>4 DEF Missing, GlobalLen, WordLen
  <2> QED BY <1>0, <1>3, <1>4, <2>1
<1>6. t = IF Missing(s) > 0 THEN s ELSE TakeGlobal(s)
    BY <1>4, <1>5, FeedIs DEF s
<1>7. CASE Missing(s) > 0
  <2>1. Len(s.buf) < 4
      BY <1>0, <1>3, <1>4, <1>5, <1>7
  <2> QED BY <1>0, <1>3, <1>4, <1>6, <1>7, <2>1 DEF AtGlobal
<1>8. CASE ~ (Missing(s) > 0)
  <2>1. Len(s.buf) = 4 /\ q = 4
      BY <1>0, <1>3, <1>4, <1>5, <1>8
  <2>2. t = TakeGlobal(s) /\ Holds(st, s, 4, 0)
      BY <1>0, <1>4, <1>6, <1>8, <2>1
  <2>3. /\ t \in Reader /\ t.found = <<>>
        /\ \/ t.phase = "failed"
           \/ t.phase = "header" /\ t.buf = <<>> /\ Agrees(st, t)
      BY <1>4, <2>1, <2>2, TakeGlobalIs
  <2>4. ASSUME t.phase = "header", t.buf = <<>>, Agrees(st, t) PROVE AtHeader(st, t, q, 0)
    <3>1. Holds(st, t, q, q) /\ Len(t.buf) = 0
        BY <2>4, EmptyHolds
    <3>2. EndOf(st, 0) = q
        BY <2>1, EndFacts
    <3> QED BY <2>4, <3>1, <3>2 DEF AtHeader
  <2> QED BY <1>3, <2>3, <2>4
<1> QED BY <1>7, <1>8

\* A full record header is interpreted as what was written.
LEMMA TakeHeaderIs ==
    ASSUME NEW st \in Stream, NEW s \in Reader, NEW i \in 0 .. Len(st.records) - 1,
           Len(s.buf) = 6, Agrees(st, s), Holds(st, s, EndOf(st, i) + 6, EndOf(st, i)), s.found = <<>>,
           NEW t, t = TakeHeader(s)
    PROVE  /\ t \in Reader /\ t.found = <<>>
           /\ \/ t.phase = "failed" /\ Len(st.records[i + 1].data) > 0
              \/ /\ t.phase = "header" /\ t.buf = <<>> /\ Agrees(st, t)
                 /\ Len(st.records[i + 1].data) = 0
              \/ /\ t.phase = "body" /\ t.buf = <<>> /\ Agrees(st, t)
                 /\ t.len = Len(st.records[i + 1].data) /\ t.len > 0
                 /\ t.ts = Meant(st.records[i + 1]).ts
<1> DEFINE rec == st.records[i + 1]
           e == EndOf(st, i)
           B == BytesOf(st)
<1>0. Len(st.records) \in Nat /\ i + 1 \in 1 .. Len(st.records) /\ (i + 1) - 1 = i
    BY EndFacts
<1>1. rec \in Rec /\ Len(rec.data) \in Nat /\ SizesOf(st)[i + 1] = 6 + Len(rec.data)
    BY <1>0, EndFacts
<1>2. \A k \in 1 .. 6 : s.buf[k] = RecordBytes(st, rec)[k]
  <2>1. \A k \in 1 .. 6 : s.buf[k] = B[e + k]
      BY DEF Holds
  <2>2. \A k \in 1 .. SizesOf(st)[i + 1] : B[EndOf(st, (i + 1) - 1) + k] = RecordBytes(st, rec)[k]
      BY <1>0, Layout
  <2>4. EndOf(st, (i + 1) - 1) = e
      BY <1>0
  <2> DEFINE rb == RecordBytes(st, rec)
             z == SizesOf(st)[i + 1]
             d == EndOf(st, (i + 1) - 1)
             x == Len(rec.data)
  <2>5. x \in Nat /\ z = 6 + x /\ \A k \in 1 .. z : B[d + k] = rb[k]
      BY <1>1, <2>2
  <2> HIDE DEF B, e, rb, z, d, x
  <2>6. d = e /\ \A k \in 1 .. 6 : k \in 1 .. z
      BY <2>4, <2>5 DEF d
  <2>7. \A k \in 1 .. 6 : B[e + k] = rb[k]
      BY <2>5, <2>6
  <2> QED BY <2>1, <2>7 DEF rb
<1>3. s.buf \in Seq(Nat) /\ s.little = st.little /\ s.nanos = st.nanos /\ st.valid
    BY DEF Reader, Agrees
<1> HIDE DEF B, e, rec
<1>4. /\ ReadU32(Field(s.buf, 1), s.little) = rec.sec
      /\ ReadU32(Field(s.buf, 2), s.little) = Fraction(st, rec)
      /\ ReadU32(Field(s.buf, 3), s.little) = Len(rec.data)
      /\ TsNanos(rec.sec, Fraction(st, rec), s.nanos) = Meant(rec).ts
  <2>1. IsHeaderOf(s.buf, st, rec)
      BY <1>2 DEF IsHeaderOf
  <2>2. /\ ReadU32(Field(s.buf, 1), st.little) = rec.sec
        /\ ReadU32(Field(s.buf, 2), st.little) = Fraction(st, rec)
        /\ ReadU32(Field(s.buf, 3), st.little) = Len(rec.data)
        /\ TsNanos(rec.sec, Fraction(st, rec), st.nanos) = Meant(rec).ts
      BY <1>1, <1>3, <2>1, HeaderRead
  <2> QED BY <1>3, <2>2
<1> DEFINE len == Len(rec.data)
           ts == Meant(rec).ts
           n == [s EXCEPT !.phase = "body", !.buf = <<>>, !.len = len, !.ts = ts]
<1>5. t = IF len > MaxRecordLen THEN [s EXCEPT !.phase = "failed"]
          ELSE IF len = 0 THEN TakeBody(n) ELSE n
    BY <1>4 DEF TakeHeader
<1>6. len \in Nat /\ ts \in Nat /\ MaxRecordLen \in Nat
  <2>1. rec.sec \in Nat /\ rec.micro \in Nat /\ NsPerSec \in Nat /\ NsPerMicro \in Nat /\ MaxRecordLen \in Nat
      BY <1>1, PcapAssumption DEF Rec
  <2>2. \A x, y \in Nat : x * y \in Nat /\ x + y \in Nat
      OBVIOUS
  <2> QED BY <1>1, <2>1, <2>2 DEF Meant
<1> HIDE DEF len, ts
<1>7. n \in Reader /\ n.buf = <<>> /\ n.little = s.little /\ n.nanos = s.nanos /\ n.found = <<>>
      /\ n.phase = "body" /\ n.len = len /\ n.ts = ts
  <2>1. <<>> \in Seq(Nat)
      BY EmptySeq
  <2> QED BY <1>6, <2>1 DEF Reader
<1>8. CASE len > MaxRecordLen
  <2>1. t \in Reader /\ t.found = <<>> /\ t.phase = "failed"
      BY <1>5, <1>8 DEF Reader
  <2>2. len > 0
      BY <1>6, <1>8
  <2> QED BY <2>1, <2>2 DEF len, rec
<1>9. CASE ~ (len > MaxRecordLen) /\ len = 0
  <2>1. t = TakeBody(n)
      BY <1>5, <1>9
  <2> HIDE DEF n
  <2>2. TakeBody(n) = [n EXCEPT !.phase = "header", !.buf = <<>>, !.found = <<>>]
      BY <1>7 DEF TakeBody
  <2>3. /\ t \in Reader /\ t.found = <<>> /\ t.phase = "header" /\ t.buf = <<>>
        /\ t.little = s.little /\ t.nanos = s.nanos
    <3> DEFINE none == <<>>
    <3>1. none \in Seq(PcapPacket)
        BY EmptySeq
    <3>2. t = Emptied(n, none)
        BY <2>1, <2>2 DEF Emptied
    <3> HIDE DEF none
    <3>3. /\ t \in Reader /\ t.phase = "header" /\ t.buf = <<>> /\ t.found = none
          /\ t.little = n.little /\ t.nanos = n.nanos
        BY <1>7, <3>1, <3>2, EmptyReader
    <3> QED BY <1>7, <3>3 DEF none
  <2>4. Agrees(st, t)
      BY <1>3, <2>3 DEF Agrees
  <2> QED BY <1>9, <2>3, <2>4 DEF len, rec
<1>10. CASE ~ (len > MaxRecordLen) /\ len # 0
  <2>1. t = n
      BY <1>5, <1>10
  <2> HIDE DEF n
  <2>2. Agrees(st, t)
      BY <1>3, <1>7, <2>1 DEF Agrees
  <2>3. len > 0
      BY <1>6, <1>10
  <2> QED BY <1>7, <2>1, <2>2, <2>3 DEF len, ts, rec
<1> QED BY <1>8, <1>9, <1>10

\* One read while the header behind the i-th record is being filled.
LEMMA FeedHeader ==
    ASSUME NEW st \in Stream, NEW r \in Reader, r.phase = "header", NEW p \in Nat,
           NEW i \in 0 .. Len(st.records), AtHeader(st, r, p, i),
           NEW q \in Nat, p < q, q <= p + Missing(r), q <= Len(BytesOf(st)),
           NEW t, t = Feed(r, Chunk(st, p, q))
    PROVE  /\ t \in Reader /\ t.found = <<>> /\ i + 1 \in 1 .. Len(st.records)
           /\ EndOf(st, i) <= p
           /\ \/ t.phase = "header" /\ AtHeader(st, t, q, i) /\ q < EndOf(st, i + 1)
              \/ t.phase = "failed" /\ q < EndOf(st, i + 1)
              \/ /\ t.phase = "header" /\ AtHeader(st, t, q, i + 1) /\ q = EndOf(st, i + 1)
                 /\ Len(st.records[i + 1].data) = 0
              \/ t.phase = "body" /\ AtBody(st, t, q, i + 1) /\ q < EndOf(st, i + 1)
<1> DEFINE s == Filled(st, r, p, q)
           e == EndOf(st, i)
           f == EndOf(st, i + 1)
           n == Len(st.records)
           m == Len(r.buf)
           len == Len(st.records[i + 1].data)
<1>1. m \in Nat /\ Holds(st, r, p, e) /\ m < 6 /\ p = e + m /\ Agrees(st, r) /\ n \in Nat /\ e \in Nat
  <2>1. r.buf \in Seq(Nat) /\ m \in Nat
      BY LenProperties DEF Reader
  <2> QED BY <2>1, EndFacts DEF AtHeader, Holds
<1>2. Missing(r) = 6 - m
    BY DEF Missing, RecordHdrLen, WordLen
<1>4. i + 1 \in 1 .. n
  <2> DEFINE l == Len(BytesOf(st))
  <2>1. l = EndOf(st, n) /\ q <= l
      BY Layout
  <2>2. i = n => e = EndOf(st, n)
      OBVIOUS
  <2> HIDE DEF e, l, n, m
  <2>3. i # n
      BY <1>1, <2>1, <2>2
  <2>4. i \in 0 .. n
      BY DEF n
  <2> QED BY <1>1, <2>3, <2>4
<1>5. f = e + 6 + len /\ len \in Nat
  <2>1. (i + 1) - 1 = i
      OBVIOUS
  <2>2. f = EndOf(st, (i + 1) - 1) + 6 + len /\ len \in Nat
      BY <1>4, EndFacts
  <2> QED BY <2>1, <2>2
<1> HIDE DEF e, f, len, s, m
<1>3. q <= e + 6 /\ e <= p
    BY <1>1, <1>2
<1>6. /\ s \in Reader /\ Holds(st, s, q, e) /\ Len(s.buf) = q - e
      /\ s.phase = "header" /\ s.found = <<>> /\ s.little = r.little /\ s.nanos = r.nanos
  <2>1. /\ s \in Reader /\ Holds(st, s, q, e) /\ Len(s.buf) = q - e
        /\ s.phase = r.phase /\ s.found = <<>> /\ s.little = r.little /\ s.nanos = r.nanos
      BY <1>1, FilledHolds DEF s
  <2> QED BY <2>1
<1>7. Agrees(st, s)
    BY <1>1, <1>6 DEF Agrees
<1>8. Missing(s) = 6 - (q - e) /\ Missing(s) \in Nat
  <2>1. Missing(s) = 6 - Len(s.buf)
      BY <1>6 DEF Missing, RecordHdrLen, WordLen
  <2> QED BY <1>1, <1>3, <1>6, <2>1
<1>9. t = IF Missing(s) > 0 THEN s ELSE TakeHeader(s)
    BY <1>6, <1>8, FeedIs DEF s
<1>10. CASE Missing(s) > 0
  <2>1. Len(s.buf) < 6 /\ q < f
      BY <1>1, <1>3, <1>5, <1>6, <1>8, <1>10
  <2>2. AtHeader(st, s, q, i)
      BY <1>6, <1>7, <2>1 DEF AtHeader, e
  <2> QED BY <1>3, <1>4, <1>6, <1>9, <1>10, <2>1, <2>2 DEF e, f
<1>11. CASE ~ (Missing(s) > 0)
  <2>1. Len(s.buf) = 6 /\ q = e + 6
      BY <1>1, <1>3, <1>6, <1>8, <1>11
  <2>2. t = TakeHeader(s) /\ Holds(st, s, e + 6, e)
      BY <1>6, <1>9, <1>11, <2>1
  <2>3. i \in 0 .. Len(st.records) - 1
      BY <1>1, <1>4
  <2>4. /\ t \in Reader /\ t.found = <<>>
        /\ \/ t.phase = "failed" /\ len > 0
           \/ t.phase = "header" /\ t.buf = <<>> /\ Agrees(st, t) /\ len = 0
           \/ /\ t.phase = "body" /\ t.buf = <<>> /\ Agrees(st, t)
              /\ t.len = len /\ t.len > 0 /\ t.ts = Meant(st.records[i + 1]).ts
      BY <1>6, <1>7, <2>1, <2>2, <2>3, TakeHeaderIs DEF e, len
  <2>5. (len > 0 => q < f) /\ (len = 0 => q = f)
      BY <1>1, <1>5, <2>1
  <2>8. ASSUME t.phase = "header", t.buf = <<>>, Agrees(st, t), len = 0
        PROVE  AtHeader(st, t, q, i + 1)
    <3>1. Holds(st, t, q, q) /\ Len(t.buf) = 0
        BY <2>8, EmptyHolds
    <3> QED BY <2>5, <2>8, <3>1 DEF AtHeader, f
  <2>9. ASSUME t.phase = "body", t.buf = <<>>, Agrees(st, t), t.len = len, t.len > 0,
               t.ts = Meant(st.records[i + 1]).ts
        PROVE  AtBody(st, t, q, i + 1)
    <3>0. (i + 1) - 1 = i
        OBVIOUS
    <3>1. Holds(st, t, q, q) /\ Len(t.buf) = 0
        BY <2>9, EmptyHolds
    <3>2. Holds(st, t, q, EndOf(st, (i + 1) - 1) + 6)
        BY <2>1, <3>0, <3>1 DEF e
    <3> QED BY <2>9, <3>1, <3>2 DEF AtBody, len
  <2> QED BY <1>3, <1>4, <2>4, <2>5, <2>8, <2>9 DEF len, e, f
<1> QED BY <1>10, <1>11

\* What a whole frame gives: a packet, or nothing.
PacketOf(rec) == IF IsPacket(rec) THEN <<Meant(rec)>> ELSE <<>>

\* One read while the frame of the i-th record is being filled.
LEMMA FeedBody ==
    ASSUME NEW st \in Stream, NEW r \in Reader, r.phase = "body", NEW p \in Nat,
           NEW i \in 1 .. Len(st.records), AtBody(st, r, p, i),
           NEW q \in Nat, p < q, q <= p + Missing(r), q <= Len(BytesOf(st)),
           NEW t, t = Feed(r, Chunk(st, p, q))
    PROVE  /\ t \in Reader /\ EndOf(st, i - 1) <= p /\ p < EndOf(st, i)
           /\ \/ t.phase = "body" /\ AtBody(st, t, q, i) /\ q < EndOf(st, i) /\ t.found = <<>>
              \/ /\ t.phase = "header" /\ AtHeader(st, t, q, i) /\ q = EndOf(st, i)
                 /\ t.found = PacketOf(st.records[i])
<1> DEFINE s == Filled(st, r, p, q)
           a == EndOf(st, i - 1)
           f == EndOf(st, i)
           e == a + 6
           rec == st.records[i]
           m == Len(r.buf)
           len == Len(rec.data)
<1>1. /\ m \in Nat /\ Holds(st, r, p, e) /\ m < len /\ p = e + m
      /\ Agrees(st, r) /\ r.len = len /\ r.ts = Meant(rec).ts
  <2>1. r.buf \in Seq(Nat) /\ m \in Nat
      BY LenProperties DEF Reader
  <2> QED BY <2>1 DEF AtBody, Holds
<1>2. a \in Nat /\ len \in Nat /\ rec \in Rec /\ SizesOf(st)[i] = 6 + len /\ f = a + 6 + len
  <2>1. i - 1 \in 0 .. Len(st.records)
      BY EndFacts
  <2> QED BY <2>1, EndFacts
<1>3. Missing(r) = len - m
    BY <1>1 DEF Missing
<1> HIDE DEF a, len, rec, m, f, s
<1>4. q <= e + len /\ a <= p /\ p < f /\ e \in Nat /\ f = e + len
    BY <1>1, <1>2, <1>3
<1>0. e = a + 6
    OBVIOUS
<1> HIDE DEF e
<1>5. /\ s \in Reader /\ Holds(st, s, q, e) /\ Len(s.buf) = q - e
      /\ s.phase = "body" /\ s.found = <<>> /\ s.little = r.little /\ s.nanos = r.nanos
      /\ s.len = len /\ s.ts = r.ts
  <2>1. /\ s \in Reader /\ Holds(st, s, q, e) /\ Len(s.buf) = q - e
        /\ s.phase = r.phase /\ s.found = <<>> /\ s.little = r.little /\ s.nanos = r.nanos
        /\ s.len = r.len /\ s.ts = r.ts
      BY <1>1, <1>4, FilledHolds DEF s
  <2> QED BY <1>1, <2>1
<1>6. Agrees(st, s)
    BY <1>1, <1>5 DEF Agrees
<1>7. Missing(s) = len - (q - e) /\ Missing(s) \in Nat
  <2>1. Missing(s) = len - Len(s.buf)
      BY <1>5 DEF Missing
  <2>2. len \in Nat /\ e \in Nat /\ m \in Nat /\ p = e + m /\ p < q /\ q <= e + len /\ Len(s.buf) = q - e
      BY <1>1, <1>2, <1>4, <1>5
  <2> DEFINE b == Len(s.buf)
             w == Missing(s)
  <2> HIDE DEF b, w
  <2>3. b = q - e /\ w = len - b
      BY <2>1, <2>2 DEF b, w
  <2>4. w = len - (q - e) /\ w \in Nat
      BY <2>2, <2>3
  <2> QED BY <2>4 DEF w
<1>11. len \in Nat /\ e \in Nat /\ Len(s.buf) = q - e /\ f = e + len
    BY <1>2, <1>4, <1>5
<1> DEFINE w == Missing(s)
<1>12. (w > 0 => q - e < len /\ q < f) /\ (~ (w > 0) => q - e = len /\ q = f)
  <2>1. w = len - (q - e) /\ w \in Nat
      BY <1>7
  <2> HIDE DEF w
  <2> QED BY <1>11, <2>1
<1>8. t = IF Missing(s) > 0 THEN s ELSE TakeBody(s)
    BY <1>5, <1>7, FeedIs DEF s
<1>9. CASE Missing(s) > 0
  <2>1. Len(s.buf) < len /\ q < f
      BY <1>9, <1>11, <1>12
  <2>2. Holds(st, s, q, EndOf(st, i - 1) + 6)
      BY <1>0, <1>5 DEF a
  <2>3. AtBody(st, s, q, i)
      BY <1>1, <1>5, <1>6, <2>1, <2>2 DEF AtBody, len, rec
  <2> QED BY <1>4, <1>5, <1>8, <1>9, <2>1, <2>3 DEF a, f
<1>10. CASE ~ (Missing(s) > 0)
  <2>1. Len(s.buf) = len /\ q = f
      BY <1>10, <1>11, <1>12
  <2>2. t = TakeBody(s)
      BY <1>8, <1>10
  <2>3. s.buf = rec.data
    <3>1. s.buf \in Seq(Nat) /\ rec.data \in Seq(Nat)
        BY <1>2, <1>5 DEF Reader, Rec
    <3>2. ASSUME NEW j \in 1 .. len PROVE s.buf[j] = rec.data[j]
      <4> DEFINE B == BytesOf(st)
                 rb == RecordBytes(st, rec)
      <4>1. s.buf[j] = B[e + j]
          BY <1>5, <2>1 DEF Holds
      <4>2. 6 + j \in 1 .. SizesOf(st)[i] /\ e + j = a + (6 + j)
          BY <1>0, <1>2
      <4>3. \A x \in 1 .. SizesOf(st)[i] : B[a + x] = rb[x]
          BY Layout DEF a, rec
      <4>4. rb[6 + j] = rec.data[j]
          BY <1>2, RecordBytesAre DEF len
      <4> HIDE DEF B, rb
      <4>5. B[a + (6 + j)] = rb[6 + j]
          BY <4>2, <4>3
      <4> QED BY <4>1, <4>2, <4>4, <4>5
    <3> QED BY <2>1, <3>1, <3>2, SeqEqual DEF len
  <2>4. TakeBody(s) = [s EXCEPT !.phase = "header", !.buf = <<>>, !.found = PacketOf(rec)]
      BY <1>1, <1>5, <2>3 DEF TakeBody, PacketOf, IsPacket, Meant
  <2>5. PacketOf(rec) \in Seq(PcapPacket)
    <3>1. Meant(rec) \in PcapPacket
      <4>1. rec.sec \in Nat /\ rec.micro \in Nat /\ rec.data \in Seq(Nat) /\ NsPerSec \in Nat /\ NsPerMicro \in Nat
          BY <1>2, PcapAssumption DEF Rec
      <4>2. \A x, y \in Nat : x * y \in Nat /\ x + y \in Nat
          OBVIOUS
      <4> QED BY <4>1, <4>2 DEF Meant, PcapPacket
    <3>2. <<>> \in Seq(PcapPacket)
        BY EmptySeq
    <3>3. <<Meant(rec)>> \in Seq(PcapPacket)
        BY <3>1
    <3> QED BY <3>2, <3>3 DEF PacketOf
  <2>6. /\ t \in Reader /\ t.phase = "header" /\ t.buf = <<>> /\ t.found = PacketOf(rec)
        /\ t.little = s.little /\ t.nanos = s.nanos
    <3> DEFINE found == PacketOf(rec)
    <3>1. found \in Seq(PcapPacket) /\ t = Emptied(s, found)
        BY <2>2, <2>4, <2>5 DEF Emptied
    <3> HIDE DEF found
    <3>2. /\ t \in Reader /\ t.phase = "header" /\ t.buf = <<>> /\ t.found = found
          /\ t.little = s.little /\ t.nanos = s.nanos
        BY <1>5, <3>1, EmptyReader
    <3> QED BY <3>2 DEF found
  <2>7. Agrees(st, t)
      BY <1>6, <2>6 DEF Agrees
  <2>8. Holds(st, t, q, f) /\ Len(t.buf) < 6
      BY <2>1, <2>6, EmptyHolds
  <2> QED BY <1>4, <2>1, <2>6, <2>7, <2>8 DEF AtHeader, a, f, rec
<1> QED BY <1>9, <1>10

-----------------------------------------------------------------------------
(* The packets that are due at a position of the stream.                     *)

\* The packets of a stream that end behind p and no further than w.
Due(st, p, w) ==
    {j \in DOMAIN st.records : EndOf(st, j) \in p + 1 .. w /\ IsPacket(st.records[j])}

Means(st) == [i \in DOMAIN st.records |-> Meant(st.records[i])]

\* No packet ends between two positions.
NoneEnds(st, p, q) ==
    \A j \in 1 .. Len(st.records) : IsPacket(st.records[j]) => EndOf(st, j) <= p \/ q < EndOf(st, j)

\* Records of a stream have a packet's type.
LEMMA MeansType ==
    ASSUME NEW st \in Stream, NEW j \in 1 .. Len(st.records)
    PROVE  Means(st)[j] = Meant(st.records[j]) /\ Means(st)[j] \in PcapPacket
<1> DEFINE rec == st.records[j]
<1>1. rec \in Rec /\ j \in DOMAIN st.records
    BY EndFacts
<1>2. rec.sec \in Nat /\ rec.micro \in Nat /\ rec.data \in Seq(Nat) /\ NsPerSec \in Nat /\ NsPerMicro \in Nat
    BY <1>1, PcapAssumption DEF Rec
<1>3. \A x, y \in Nat : x * y \in Nat /\ x + y \in Nat
    OBVIOUS
<1>4. Means(st)[j] = Meant(rec)
    BY <1>1 DEF Means
<1> HIDE DEF rec
<1>5. Meant(rec) \in PcapPacket
    BY <1>2, <1>3 DEF Meant, PcapPacket
<1> QED BY <1>4, <1>5 DEF rec

\* Which packets are due.
LEMMA DueFacts ==
    ASSUME NEW st \in Stream, NEW p \in Nat, NEW w \in Nat
    PROVE  /\ Due(st, p, w) \in SUBSET Nat /\ IsFiniteSet(Due(st, p, w))
           /\ \A j \in Due(st, p, w) : j \in 1 .. Len(st.records) /\ Means(st)[j] \in PcapPacket
           /\ \A j \in 1 .. Len(st.records) :
                 j \in Due(st, p, w) <=> p < EndOf(st, j) /\ EndOf(st, j) <= w /\ IsPacket(st.records[j])
<1> DEFINE n == Len(st.records)
           D == Due(st, p, w)
<1>1. n \in Nat /\ DOMAIN st.records = 1 .. n /\ \A j \in 1 .. n : EndOf(st, j) \in Nat
  <2>1. Len(st.records) \in Nat /\ DOMAIN st.records = 1 .. n /\ \A j \in 0 .. n : EndOf(st, j) \in Nat
      BY EndFacts
  <2> QED BY <2>1
<1>2. D = {j \in 1 .. n : EndOf(st, j) \in p + 1 .. w /\ IsPacket(st.records[j])}
    BY <1>1 DEF Due
<1>3. D \subseteq 1 .. n
    BY <1>2
<1>4. IsFiniteSet(1 .. n)
  <2>1. 1 \in Int /\ n \in Int
      BY <1>1
  <2> HIDE DEF n
  <2> QED BY <2>1, FS_Interval
<1>5. IsFiniteSet(D)
    BY <1>3, <1>4, FS_Subset
<1>6. \A j \in D : j \in 1 .. n /\ Means(st)[j] \in PcapPacket
    BY <1>3, MeansType
<1>7. ASSUME NEW j \in 1 .. n
      PROVE  j \in D <=> p < EndOf(st, j) /\ EndOf(st, j) <= w /\ IsPacket(st.records[j])
  <2> DEFINE e == EndOf(st, j)
  <2>1. e \in Nat
      BY <1>1
  <2>2. j \in D <=> e \in p + 1 .. w /\ IsPacket(st.records[j])
      BY <1>2
  <2> HIDE DEF e, D
  <2>3. e \in p + 1 .. w <=> p < e /\ e <= w
      BY <2>1
  <2> QED BY <2>2, <2>3 DEF e
<1>8. D \in SUBSET Nat
  <2> HIDE DEF n, D
  <2> QED BY <1>1, <1>3
<1> QED BY <1>5, <1>6, <1>7, <1>8

\* Ends are in the order of the records.
LEMMA EndsMonotone ==
    ASSUME NEW st \in Stream, NEW i \in 0 .. Len(st.records), NEW j \in 0 .. Len(st.records), i <= j
    PROVE  EndOf(st, i) <= EndOf(st, j) /\ EndOf(st, i) \in Nat /\ EndOf(st, j) \in Nat
<1> DEFINE a == EndOf(st, i)
           b == EndOf(st, j)
<1>1. a \in Nat /\ b \in Nat /\ Len(st.records) \in Nat
    BY EndFacts
<1>2. CASE i = j
  <2>1. a = b
      BY <1>2
  <2> HIDE DEF a, b
  <2>2. a <= b
      BY <1>1, <2>1
  <2> QED BY <1>1, <2>2 DEF a, b
<1>3. CASE i < j
  <2>1. a + 6 <= b
      BY <1>3, EndsGrow
  <2> HIDE DEF a, b
  <2>2. a <= b
      BY <1>1, <2>1
  <2> QED BY <1>1, <2>2 DEF a, b
<1>4. i = j \/ i < j
    BY <1>1
<1> QED BY <1>2, <1>3, <1>4

\* Nothing ends within a record, nor where a record that is no packet ends.
LEMMA NothingEnds ==
    ASSUME NEW st \in Stream, NEW p \in Nat, NEW q \in Nat,
           NEW i \in 1 .. Len(st.records), EndOf(st, i - 1) <= p,
           \/ q < EndOf(st, i)
           \/ q <= EndOf(st, i) /\ ~ IsPacket(st.records[i])
    PROVE  NoneEnds(st, p, q)
<1> DEFINE n == Len(st.records)
<1>0. n \in Nat /\ i - 1 \in 0 .. n /\ i \in 0 .. n
    BY EndFacts
<1>1. SUFFICES ASSUME NEW j \in 1 .. n, IsPacket(st.records[j])
               PROVE  EndOf(st, j) <= p \/ q < EndOf(st, j)
    BY DEF NoneEnds
<1> DEFINE a == EndOf(st, i - 1)
           b == EndOf(st, i)
           c == EndOf(st, j)
<1>2. a \in Nat /\ b \in Nat /\ c \in Nat /\ j \in 0 .. n
    BY <1>0, EndFacts
<1>3. CASE j <= i - 1
  <2>1. c <= a
      BY <1>0, <1>2, <1>3, EndsMonotone
  <2>2. a <= p
      OBVIOUS
  <2> HIDE DEF a, c
  <2>3. c <= p
      BY <1>2, <2>1, <2>2
  <2> QED BY <2>3 DEF c
<1>4. CASE j = i
  <2>1. q < c
      BY <1>1, <1>4
  <2> QED BY <2>1
<1>5. CASE i < j
  <2>1. b + 6 <= c
      BY <1>0, <1>2, <1>5, EndsGrow
  <2>2. q <= b \/ q < b
      OBVIOUS
  <2> HIDE DEF b, c
  <2>3. q < c
      BY <1>2, <2>1, <2>2
  <2> QED BY <2>3 DEF c
<1>6. j <= i - 1 \/ j = i \/ i < j
    BY <1>0
<1> QED BY <1>3, <1>4, <1>5, <1>6

\* Nor within the global header.
LEMMA NothingEndsEarly ==
    ASSUME NEW st \in Stream, NEW p \in Nat, NEW q \in Nat, q <= 4 PROVE NoneEnds(st, p, q)
<1>1. SUFFICES ASSUME NEW j \in 1 .. Len(st.records) PROVE q < EndOf(st, j)
    BY DEF NoneEnds
<1> DEFINE c == EndOf(st, j)
           z == EndOf(st, 0)
<1>2. Len(st.records) \in Nat /\ z = 4 /\ 0 \in 0 .. Len(st.records) /\ j \in 0 .. Len(st.records) /\ 0 < j
    BY EndFacts
<1>3. z + 6 <= c /\ c \in Nat
    BY <1>2, EndsGrow, EndFacts
<1> HIDE DEF c, z
<1>4. q < c
    BY <1>2, <1>3
<1> QED BY <1>4 DEF c

\* A read that reaches no end of a packet leaves what is due.
LEMMA DueSame ==
    ASSUME NEW st \in Stream, NEW p \in Nat, NEW q \in Nat, p <= q, NEW w \in Nat, NoneEnds(st, p, q)
    PROVE  Due(st, q, w) = Due(st, p, w)
<1> DEFINE n == Len(st.records)
<1>1. ASSUME NEW j \in 1 .. n PROVE j \in Due(st, q, w) <=> j \in Due(st, p, w)
  <2> DEFINE e == EndOf(st, j)
             P == IsPacket(st.records[j])
  <2>1. /\ j \in Due(st, q, w) <=> q < e /\ e <= w /\ P
        /\ j \in Due(st, p, w) <=> p < e /\ e <= w /\ P
      BY DueFacts
  <2>2. P => e <= p \/ q < e
      BY DEF NoneEnds
  <2>3. e \in Nat
    <3>1. j \in 0 .. n
        BY EndFacts
    <3> QED BY <3>1, EndFacts
  <2> HIDE DEF e, P
  <2> QED BY <2>1, <2>2, <2>3
<1>2. Due(st, q, w) \subseteq 1 .. n /\ Due(st, p, w) \subseteq 1 .. n
    BY DueFacts
<1> QED BY <1>1, <1>2

\* A read that reaches the end of a packet takes the first of those that are due.
LEMMA DueFirst ==
    ASSUME NEW st \in Stream, NEW p \in Nat, NEW q \in Nat, p < q, NEW w \in Nat, q <= w,
           NEW i \in 1 .. Len(st.records), EndOf(st, i - 1) <= p, q = EndOf(st, i), IsPacket(st.records[i])
    PROVE  /\ i \in Due(st, p, w) /\ \A j \in Due(st, p, w) : i <= j
           /\ Due(st, q, w) = Due(st, p, w) \ {i}
<1> DEFINE n == Len(st.records)
<1>0. n \in Nat /\ i - 1 \in 0 .. n /\ i \in 0 .. n /\ EndOf(st, i - 1) \in Nat
    BY EndFacts
<1>1. i \in Due(st, p, w)
    BY DueFacts
<1>2. ASSUME NEW j \in 1 .. n PROVE j \in Due(st, q, w) <=> j \in Due(st, p, w) /\ i < j
  <2> DEFINE e == EndOf(st, j)
             P == IsPacket(st.records[j])
             a == EndOf(st, i - 1)
  <2>1. /\ j \in Due(st, q, w) <=> q < e /\ e <= w /\ P
        /\ j \in Due(st, p, w) <=> p < e /\ e <= w /\ P
      BY DueFacts
  <2>2. j \in 0 .. n /\ e \in Nat
    <3>1. j \in 0 .. n
        BY EndFacts
    <3> QED BY <3>1, EndFacts
  <2>3. j <= i => e <= q
      BY <1>0, <2>2, EndsMonotone
  <2>4. i < j => q + 6 <= e
      BY <1>0, <2>2, EndsGrow
  <2> HIDE DEF e, P
  <2>5. j <= i \/ i < j
      BY <1>0
  <2>6. i < j => p < e /\ q < e
      BY <2>2, <2>4
  <2>7. j <= i => ~ (q < e) /\ ~ (i < j)
      BY <1>0, <2>2, <2>3
  <2> QED BY <2>1, <2>5, <2>6, <2>7
<1>3. ASSUME NEW j \in Due(st, p, w) PROVE i <= j
  <2>1. j \in 1 .. n /\ p < EndOf(st, j)
      BY DueFacts
  <2> DEFINE e == EndOf(st, j)
             a == EndOf(st, i - 1)
  <2>2. j <= i - 1 => e <= a /\ e \in Nat
    <3>1. j \in 0 .. n
        BY <1>0, <2>1
    <3> QED BY <1>0, <3>1, EndsMonotone
  <2>3. a <= p /\ a \in Nat /\ p < e
      BY <1>0, <2>1
  <2> HIDE DEF e, a
  <2>4. ~ (j <= i - 1)
      BY <2>2, <2>3
  <2> QED BY <1>0, <2>1, <2>4
<1>4. Due(st, q, w) \subseteq 1 .. n /\ Due(st, p, w) \subseteq 1 .. n
    BY DueFacts
<1>5. ASSUME NEW j \in Due(st, p, w) PROVE j # i <=> i < j
  <2>1. j \in 1 .. n
      BY <1>4
  <2> QED BY <1>0, <1>3, <2>1
<1>6. ~ (i < i)
    BY <1>0
<1> QED BY <1>1, <1>2, <1>3, <1>4, <1>5, <1>6

\* What is written later is due later.
LEMMA DueMore ==
    ASSUME NEW st \in Stream, NEW p \in Nat, NEW w \in Nat, NEW v \in Nat, w <= v
    PROVE  /\ Due(st, p, w) \subseteq Due(st, p, v)
           /\ \A i \in Due(st, p, w), j \in Due(st, p, v) \ Due(st, p, w) : i < j
<1> DEFINE n == Len(st.records)
<1>0. n \in Nat /\ \A i \in 1 .. n : i \in 0 .. n /\ EndOf(st, i) \in Nat
  <2>1. n \in Nat /\ \A i \in 0 .. n : EndOf(st, i) \in Nat
      BY EndFacts
  <2> QED BY <2>1
<1>1. ASSUME NEW i \in Due(st, p, w) PROVE i \in Due(st, p, v) /\ i \in 1 .. n /\ EndOf(st, i) <= w
  <2> DEFINE e == EndOf(st, i)
  <2>1. i \in 1 .. n
      BY DueFacts
  <2>2. p < e /\ e <= w /\ IsPacket(st.records[i]) /\ e \in Nat
      BY <1>0, <2>1, DueFacts
  <2>3. e <= v
    <3> HIDE DEF e
    <3> QED BY <2>2
  <2> QED BY <2>1, <2>2, <2>3, DueFacts
<1>2. ASSUME NEW i \in Due(st, p, w), NEW j \in Due(st, p, v) \ Due(st, p, w) PROVE i < j
  <2> DEFINE e == EndOf(st, i)
             f == EndOf(st, j)
  <2>1. j \in 1 .. n /\ i \in 1 .. n /\ e \in Nat /\ f \in Nat /\ e <= w
    <3>1. j \in 1 .. n
        BY DueFacts
    <3> QED BY <1>0, <1>1, <3>1
  <2>2. p < f /\ IsPacket(st.records[j]) /\ ~ (f <= w)
      BY <2>1, DueFacts
  <2>3. j <= i => f <= e
      BY <1>0, <2>1, EndsMonotone
  <2> HIDE DEF e, f
  <2>4. ~ (j <= i)
      BY <2>1, <2>2, <2>3
  <2> QED BY <1>0, <2>1, <2>4
<1> QED BY <1>1, <1>2

\* What is owed of a stream of which p bytes were read and w written.
OwedOf(st, p, w) == AtPlaces(Means(st), Due(st, p, w))

\* A step of the reader either hands nothing out or the next packet.
Keeps(st, p, q, w, found) ==
    \/ found = <<>> /\ OwedOf(st, q, w) = OwedOf(st, p, w)
    \/ /\ OwedOf(st, p, w) # <<>> /\ found = <<Head(OwedOf(st, p, w))>>
       /\ OwedOf(st, q, w) = Tail(OwedOf(st, p, w))

\* No packet ends, and none is found.
LEMMA KeepsNone ==
    ASSUME NEW st \in Stream, NEW p \in Nat, NEW q \in Nat, p <= q, NEW w \in Nat,
           NoneEnds(st, p, q), NEW found, found = <<>>
    PROVE  Keeps(st, p, q, w, found)
<1>1. Due(st, q, w) = Due(st, p, w)
    BY DueSame
<1> QED BY <1>1 DEF Keeps, OwedOf

\* A packet ends and is found.
LEMMA KeepsFirst ==
    ASSUME NEW st \in Stream, NEW p \in Nat, NEW q \in Nat, p < q, NEW w \in Nat, q <= w,
           NEW i \in 1 .. Len(st.records), EndOf(st, i - 1) <= p, q = EndOf(st, i),
           NEW found, found = PacketOf(st.records[i])
    PROVE  Keeps(st, p, q, w, found)
<1> DEFINE D == Due(st, p, w)
           m == Means(st)
<1>1. CASE IsPacket(st.records[i])
  <2>1. i \in D /\ (\A j \in D : i <= j) /\ Due(st, q, w) = D \ {i}
      BY <1>1, DueFirst
  <2>2. D \in SUBSET Nat /\ IsFiniteSet(D) /\ \A j \in D : m[j] \in PcapPacket
      BY DueFacts
  <2>3. found = <<m[i]>>
    <3>1. m[i] = Meant(st.records[i])
        BY MeansType
    <3> QED BY <1>1, <3>1 DEF PacketOf
  <2> HIDE DEF D, m
  <2>4. AtPlaces(m, D) # <<>> /\ Head(AtPlaces(m, D)) = m[i] /\ Tail(AtPlaces(m, D)) = AtPlaces(m, D \ {i})
      BY <2>1, <2>2, AtPlacesTail
  <2> QED BY <2>1, <2>3, <2>4 DEF Keeps, OwedOf, D, m
<1>2. CASE ~ IsPacket(st.records[i])
  <2>1. found = <<>>
      BY <1>2 DEF PacketOf
  <2>2. q <= EndOf(st, i) /\ p <= q
      OBVIOUS
  <2>3. NoneEnds(st, p, q)
      BY <1>2, <2>2, NothingEnds
  <2> QED BY <2>1, <2>2, <2>3, KeepsNone
<1> QED BY <1>1, <1>2

\* Reads of any size keep the reader in its place and hand the packets out in order.
LEMMA ReadKeeps ==
    ASSUME NEW st \in Stream, NEW r \in Reader, r.phase \in {"global", "header", "body"},
           NEW p \in Nat, Placed(st, r, p), NEW w \in Nat, w <= Len(BytesOf(st)),
           NEW q \in Nat, p < q, q <= p + Missing(r), q <= w,
           NEW t, t = Feed(r, Chunk(st, p, q))
    PROVE  /\ t \in Reader /\ Placed(st, t, q) /\ Keeps(st, p, q, w, t.found)
           /\ t.phase \in {"global", "header", "body", "failed"}
           /\ t.phase = "global" => r.phase = "global"
           /\ t.found # <<>> => r.phase = "body" /\ t.phase = "header"
<1>0. q <= Len(BytesOf(st)) /\ p <= q
  <2>1. Len(BytesOf(st)) \in Nat
      BY Layout, LenProperties
  <2> DEFINE l == Len(BytesOf(st))
  <2> HIDE DEF l
  <2>2. q <= l
      BY <2>1 DEF l
  <2> QED BY <2>2 DEF l
<1>n. Len(st.records) \in Nat
    BY EndFacts
<1>1. CASE r.phase = "global"
  <2>1. AtGlobal(st, r, p)
      BY <1>1 DEF Placed
  <2>2. /\ t \in Reader /\ t.found = <<>> /\ q <= 4
        /\ \/ t.phase = "global" /\ AtGlobal(st, t, q)
           \/ t.phase = "failed"
           \/ t.phase = "header" /\ AtHeader(st, t, q, 0)
      BY <1>0, <1>1, <2>1, FeedGlobal
  <2>3. Keeps(st, p, q, w, t.found)
      BY <1>0, <2>2, NothingEndsEarly, KeepsNone
  <2>4. Placed(st, t, q)
    <3>1. 0 \in 0 .. Len(st.records)
        BY <1>n
    <3> QED BY <2>2, <3>1 DEF Placed
  <2> QED BY <1>1, <2>2, <2>3, <2>4
<1>2. CASE r.phase = "header"
  <2>1. PICK i \in 0 .. Len(st.records) : AtHeader(st, r, p, i)
      BY <1>2 DEF Placed
  <2>2. /\ t \in Reader /\ t.found = <<>> /\ i + 1 \in 1 .. Len(st.records)
        /\ EndOf(st, i) <= p
        /\ \/ t.phase = "header" /\ AtHeader(st, t, q, i) /\ q < EndOf(st, i + 1)
           \/ t.phase = "failed" /\ q < EndOf(st, i + 1)
           \/ /\ t.phase = "header" /\ AtHeader(st, t, q, i + 1) /\ q = EndOf(st, i + 1)
              /\ Len(st.records[i + 1].data) = 0
           \/ t.phase = "body" /\ AtBody(st, t, q, i + 1) /\ q < EndOf(st, i + 1)
      BY <1>0, <1>2, <2>1, FeedHeader
  <2> DEFINE j == i + 1
  <2>3. j \in 1 .. Len(st.records) /\ j \in 0 .. Len(st.records) /\ EndOf(st, j - 1) <= p
    <3>1. j - 1 = i
        OBVIOUS
    <3>2. j \in 0 .. Len(st.records)
        BY <1>n, <2>2
    <3> QED BY <2>2, <3>1, <3>2
  <2>4. \/ q < EndOf(st, j)
        \/ q <= EndOf(st, j) /\ ~ IsPacket(st.records[j])
    <3>1. CASE q < EndOf(st, j)
        BY <3>1
    <3>2. CASE q = EndOf(st, j) /\ Len(st.records[j].data) = 0
      <4>1. st.records[j].data \in Seq(Nat)
          BY <2>3, EndFacts DEF Rec
      <4>2. st.records[j].data = <<>>
          BY <3>2, <4>1, EmptySeq
      <4> QED BY <3>2, <4>2 DEF IsPacket
    <3> QED BY <2>2, <3>1, <3>2
  <2>5. Placed(st, t, q)
    <3> HIDE DEF j
    <3>1. \/ t.phase = "header" /\ AtHeader(st, t, q, i)
          \/ t.phase = "failed"
          \/ t.phase = "header" /\ AtHeader(st, t, q, j)
          \/ t.phase = "body" /\ AtBody(st, t, q, j)
        BY <2>2 DEF j
    <3> QED BY <2>1, <2>3, <3>1 DEF Placed
  <2> HIDE DEF j
  <2>6. Keeps(st, p, q, w, t.found)
      BY <1>0, <2>2, <2>3, <2>4, NothingEnds, KeepsNone
  <2> QED BY <1>2, <2>2, <2>5, <2>6
<1>3. CASE r.phase = "body"
  <2>1. PICK i \in 1 .. Len(st.records) : AtBody(st, r, p, i)
      BY <1>3 DEF Placed
  <2>2. /\ t \in Reader /\ EndOf(st, i - 1) <= p /\ p < EndOf(st, i)
        /\ \/ t.phase = "body" /\ AtBody(st, t, q, i) /\ q < EndOf(st, i) /\ t.found = <<>>
           \/ /\ t.phase = "header" /\ AtHeader(st, t, q, i) /\ q = EndOf(st, i)
              /\ t.found = PacketOf(st.records[i])
      BY <1>0, <1>3, <2>1, FeedBody
  <2>3. Placed(st, t, q)
    <3>1. i \in 0 .. Len(st.records)
        BY <1>n
    <3> QED BY <2>1, <2>2, <3>1 DEF Placed
  <2>4. ASSUME q < EndOf(st, i), t.found = <<>> PROVE Keeps(st, p, q, w, t.found)
      BY <1>0, <2>2, <2>4, NothingEnds, KeepsNone
  <2>5. ASSUME q = EndOf(st, i), t.found = PacketOf(st.records[i]) PROVE Keeps(st, p, q, w, t.found)
      BY <2>2, <2>5, KeepsFirst
  <2> QED BY <1>3, <2>2, <2>3, <2>4, <2>5
<1> QED BY <1>1, <1>2, <1>3

\* More bytes owe more packets, behind the others.
LEMMA OwedMore ==
    ASSUME NEW st \in Stream, NEW p \in Nat, NEW w \in Nat, NEW v \in Nat, w <= v
    PROVE  IsPrefix(OwedOf(st, p, w), OwedOf(st, p, v))
<1> DEFINE P == Due(st, p, w)
           Q == Due(st, p, v)
           m == Means(st)
<1>1. P \in SUBSET Nat /\ Q \in SUBSET Nat /\ IsFiniteSet(Q) /\ \A j \in Q : m[j] \in PcapPacket
    BY DueFacts
<1>2. P \subseteq Q /\ \A i \in P, j \in Q \ P : i < j
    BY DueMore
<1> HIDE DEF P, Q, m
<1>3. \A i \in P : m[i] = m[i]
    OBVIOUS
<1>4. IsPrefix(AtPlaces(m, P), AtPlaces(m, Q))
    BY <1>1, <1>2, <1>3, AtPlacesPrefix
<1> QED BY <1>4 DEF OwedOf, P, Q, m

\* A stream that was read to its end owes nothing.
LEMMA OwedAtEnd == ASSUME NEW st \in Stream, NEW p \in Nat PROVE OwedOf(st, p, p) = <<>>
<1>1. Due(st, p, p) = {}
  <2>1. SUFFICES ASSUME NEW j \in Due(st, p, p) PROVE FALSE
      OBVIOUS
  <2> DEFINE e == EndOf(st, j)
  <2>2. j \in 1 .. Len(st.records)
      BY DueFacts
  <2>3. p < e /\ e <= p /\ e \in Nat
    <3>1. j \in 0 .. Len(st.records)
        BY <2>2, EndFacts
    <3> QED BY <2>2, <3>1, DueFacts, EndFacts
  <2> HIDE DEF e
  <2> QED BY <2>3
<1> QED BY <1>1, AtNoPlaces DEF OwedOf

-----------------------------------------------------------------------------
(* The steps of the pcap sources, as steps of CaptureSource.                 *)

Pcap == backend \in {"pcap_file", "live"}

\* The names of the model for the bytes of its stream.
LEMMA StreamNames ==
    /\ StreamBytes = BytesOf(stream)
    /\ \A i : RecordEnd(i) = EndOf(stream, i)
    /\ Pcap => Owed = OwedOf(stream, pos, written) /\ HandedOut = handed
<1>1. StreamBytes = BytesOf(stream)
    BY DEF StreamBytes, BytesOf
<1>2. \A i : RecordEnd(i) = EndOf(stream, i)
    BY DEF RecordEnd, EndOf, SizesOf
<1>3. Unhanded = OwedOf(stream, pos, written)
  <2>1. {i \in DOMAIN stream.records :
            RecordEnd(i) \in pos + 1 .. written /\ IsPacket(stream.records[i])} = Due(stream, pos, written)
      BY <1>2 DEF Due
  <2> QED BY <2>1 DEF Unhanded, OwedOf, Means
<1>4. Pcap => Owed = Unhanded /\ HandedOut = handed
    BY DEF Pcap, Owed, HandedOut
<1> QED BY <1>1, <1>2, <1>3, <1>4

\* What is owed and torn depends on the stream and its two positions only.
LEMMA StreamStays ==
    ASSUME Pcap, backend' = backend, stream' = stream, written' = written, pos' = pos
    PROVE  /\ Owed' = Owed /\ (handed' = handed => HandedOut' = HandedOut)
           /\ closed' = closed => Torn' = Torn
BY DEF Pcap, Owed, Unhanded, HandedOut, Torn, RecordEnd

\* The steps of a source that reads a stream.
LEMMA PcapSteps ==
    ASSUME Pcap, [Next]_vars
    PROVE  /\ Pcap' /\ backend' = backend /\ stream' = stream
           /\ \/ OpenFails \/ OpenStream \/ ReadBytes \/ ReadEof \/ ReadFails
              \/ ToolWrites \/ ToolExits \/ DropSource \/ WaitReturns
              \/ UNCHANGED <<status, handed, child, written, closed, pos, reader>>
<1>1. CASE UNCHANGED vars
    BY <1>1 DEF vars, Pcap
<1>2. CASE Opening
  <2>1. ~ OpenAtOnce
      BY DEF OpenAtOnce, Pcap
  <2>2. CASE OpenFails
      BY <2>2 DEF OpenFails, Pcap
  <2>3. CASE OpenStream
      BY <2>3 DEF OpenStream, Pcap
  <2> QED BY <1>2, <2>1, <2>2, <2>3 DEF Opening
<1>3. CASE Source
  <2>1. ~ NextScripted /\ ~ NextRecord /\ ~ PollReturns
      BY DEF NextScripted, NextRecord, PollReturns, Attached, Pcap
  <2>2. CASE ReadBytes
      BY <2>2 DEF ReadBytes, Pcap
  <2>3. CASE ReadEof
      BY <2>3 DEF ReadEof, Pcap
  <2> QED BY <1>3, <2>1, <2>2, <2>3 DEF Source
<1>4. CASE ReadFails
    BY <1>4 DEF ReadFails, Pcap
<1>5. CASE ToolWrites
    BY <1>5 DEF ToolWrites, Pcap
<1>6. CASE ToolExits
    BY <1>6 DEF ToolExits, Pcap
<1>7. CASE DropSource
    BY <1>7 DEF DropSource, Pcap
<1>8. CASE WaitReturns
    BY <1>8 DEF WaitReturns, Pcap
<1>9. ASSUME NEW c \in Cpus, Reserve(c) \/ Kernel(c)
      PROVE  backend' = backend /\ stream' = stream /\ UNCHANGED <<status, handed, child, written, closed, pos, reader>>
  <2>1. ~ Reserve(c)
      BY DEF Reserve, Attached, Pcap
  <2>2. CASE Stamp(c)
      BY <2>2 DEF Stamp, pcapVars
  <2>3. CASE Commit(c)
      BY <2>3 DEF Commit, pcapVars
  <2> QED BY <1>9, <2>1, <2>2, <2>3 DEF Kernel
<1>10. CASE \E c \in Cpus : Reserve(c) \/ Kernel(c)
    BY <1>9, <1>10 DEF Pcap
<1>11. CASE Done
    BY <1>11 DEF Done, vars, Pcap
<1> QED BY <1>1, <1>2, <1>3, <1>4, <1>5, <1>6, <1>7, <1>8, <1>10, <1>11 DEF Next

\* One read (ReadBytes), seen from the stream.
LEMMA ReadBytesKeeps ==
    ASSUME Pcap, PcapGood, ReadBytes
    PROVE  /\ reader' \in Reader /\ Placed(stream, reader', pos') /\ Keeps(stream, pos, pos', written, reader'.found)
           /\ reader'.phase \in {"global", "header", "body", "failed"}
           /\ reader'.phase = "global" => reader.phase = "global"
           /\ reader'.found # <<>> => reader.phase = "body" /\ reader'.phase = "header"
           /\ pos' \in Nat /\ pos' <= written
<1>1. PICK k \in 1 .. Missing(reader) :
         /\ pos + k <= written /\ pos' = pos + k
         /\ reader' = Feed(reader, SubSeq(StreamBytes, pos + 1, pos + k))
    BY DEF ReadBytes
<1> DEFINE q == pos'
<1>2. /\ stream \in Stream /\ reader \in Reader /\ pos \in Nat /\ written \in Nat
      /\ Placed(stream, reader, pos) /\ written <= Len(BytesOf(stream))
    BY DEF PcapGood, PcapType
<1>3. reader.phase \in {"global", "header", "body"}
    BY DEF ReadBytes, Reading
<1>4. Missing(reader) \in Int
  <2>1. Len(reader.buf) \in Nat /\ reader.len \in Nat
      BY <1>2, LenProperties DEF Reader
  <2>2. \/ Missing(reader) = GlobalLen - Len(reader.buf)
        \/ Missing(reader) = RecordHdrLen - Len(reader.buf)
        \/ Missing(reader) = reader.len - Len(reader.buf)
      BY <1>3 DEF Missing
  <2> QED BY <2>1, <2>2 DEF GlobalLen, RecordHdrLen, WordLen
<1>5. q \in Nat /\ pos < q /\ q <= pos + Missing(reader) /\ q <= written
  <2> DEFINE m == Missing(reader)
  <2>1. m \in Int /\ k \in 1 .. m /\ q = pos + k /\ pos + k <= written
      BY <1>1, <1>4
  <2> HIDE DEF m, q
  <2>2. q \in Nat /\ pos < q /\ q <= pos + m /\ q <= written
      BY <1>2, <2>1
  <2> QED BY <2>2 DEF m
<1>6. reader' = Feed(reader, Chunk(stream, pos, q))
    BY <1>1, StreamNames DEF Chunk
<1> DEFINE t == reader'
<1>7. t = Feed(reader, Chunk(stream, pos, q))
    BY <1>6
<1> HIDE DEF q, t
<1>8. /\ t \in Reader /\ Placed(stream, t, q) /\ Keeps(stream, pos, q, written, t.found)
      /\ t.phase \in {"global", "header", "body", "failed"}
      /\ t.phase = "global" => reader.phase = "global"
      /\ t.found # <<>> => reader.phase = "body" /\ t.phase = "header"
    BY <1>2, <1>3, <1>5, <1>7, ReadKeeps
<1> QED BY <1>5, <1>8 DEF q, t

\* It keeps the reader in its place.
LEMMA ReadBytesGood ==
    ASSUME Pcap, backend' = backend, stream' = stream, PcapGood, ReadBytes PROVE PcapGood'
<1>1. /\ reader' \in Reader /\ Placed(stream, reader', pos')
      /\ reader'.phase \in {"global", "header", "body", "failed"}
      /\ reader'.phase = "global" => reader.phase = "global"
      /\ pos' \in Nat /\ pos' <= written
    BY ReadBytesKeeps
<1>2. /\ written' = written /\ closed' = closed /\ child' = child
      /\ handed' = handed \o reader'.found /\ status' = AfterRead(reader')
      /\ status \in {"opening", "open"} /\ reader.phase \in {"global", "header", "body"}
    BY DEF ReadBytes, Reading
<1>3. PcapType'
  <2>1. handed' \in Seq(PcapPacket)
    <3>1. reader'.found \in Seq(PcapPacket) /\ handed \in Seq(PcapPacket)
        BY <1>1 DEF Reader, PcapGood, PcapType
    <3> QED BY <1>2, <3>1, ConcatProperties
  <2> QED BY <1>1, <1>2, <2>1 DEF PcapGood, PcapType
<1>4. Placed(stream, reader, pos)'
    BY <1>1
<1>5. PcapStatus'
  <2>1. status' = "opening" => reader'.phase = "global"
      BY <1>1, <1>2 DEF AfterRead, Failed
  <2>2. status' = "open" => reader'.phase \in {"header", "body"}
      BY <1>1, <1>2 DEF AfterRead, Failed
  <2>3. status' # "end" /\ reader'.phase # "none"
      BY <1>1, <1>2 DEF AfterRead, Failed
  <2> QED BY <1>2, <2>1, <2>2, <2>3 DEF PcapGood, PcapStatus
<1> QED BY <1>3, <1>4, <1>5 DEF PcapGood

\* It opens the source, hands out the next packet, fails or changes nothing.
LEMMA ReadBytesRefines ==
    ASSUME Pcap, Pcap', backend' = backend, stream' = stream, PcapGood, PcapGood', ReadBytes
    PROVE  [CS!Next]_(CS!vars)
<1>1. /\ reader' \in Reader /\ Keeps(stream, pos, pos', written, reader'.found)
      /\ reader'.phase \in {"global", "header", "body", "failed"}
      /\ reader'.phase = "global" => reader.phase = "global"
      /\ reader'.found # <<>> => reader.phase = "body" /\ reader'.phase = "header"
    BY ReadBytesKeeps
<1>2. /\ written' = written /\ closed' = closed
      /\ handed' = handed \o reader'.found /\ status' = AfterRead(reader')
      /\ status \in {"opening", "open"} /\ reader.phase \in {"global", "header", "body"}
    BY DEF ReadBytes, Reading
<1>3. Torn' = Torn
    BY <1>2 DEF Torn, RecordEnd
<1>4. Owed = OwedOf(stream, pos, written) /\ HandedOut = handed
    BY StreamNames
<1>5. Owed' = OwedOf(stream, pos', written) /\ HandedOut' = handed'
  <2>1. (Pcap => Owed = OwedOf(stream, pos, written) /\ HandedOut = handed)'
      BY StreamNames, PTL
  <2> QED BY <1>2, <2>1
<1>6. (status = "opening" => reader.phase = "global") /\ (status = "open" => reader.phase \in {"header", "body"})
    BY <1>2 DEF PcapGood, PcapStatus
<1>7. handed \in Seq(PcapPacket)
    BY DEF PcapGood, PcapType
<1>8. CASE reader'.found = <<>> /\ Owed' = Owed
  <2>1. HandedOut' = HandedOut
      BY <1>2, <1>4, <1>5, <1>7, <1>8, ConcatEmptySeq
  <2>2. \/ status' = status
        \/ status = "opening" /\ status' = "open"
        \/ status = "opening" /\ status' = "failed"
        \/ status = "open" /\ status' = "error"
      BY <1>1, <1>2, <1>6 DEF AfterRead, Failed
  <2>3. CASE status' = status
      BY <1>3, <1>8, <2>1, <2>3 DEF CS!vars
  <2>4. CASE status = "opening" /\ status' = "open"
      BY <1>3, <1>8, <2>1, <2>4 DEF CS!Next, CS!Open
  <2>5. CASE \/ status = "opening" /\ status' = "failed"
             \/ status = "open" /\ status' = "error"
      BY <1>3, <1>8, <2>1, <2>5 DEF CS!Next, CS!Fail
  <2> QED BY <2>2, <2>3, <2>4, <2>5
<1>9. CASE Owed # <<>> /\ reader'.found = <<Head(Owed)>> /\ Owed' = Tail(Owed)
  <2>1. reader.phase = "body" /\ reader'.phase = "header"
      BY <1>1, <1>9
  <2>2. status = "open" /\ status' = "open"
      BY <1>2, <1>6, <2>1 DEF AfterRead
  <2>3. HandedOut' = Append(HandedOut, Head(Owed))
    <3> DEFINE x == Head(Owed)
    <3>1. <<x>> \in Seq(PcapPacket)
        BY <1>1, <1>9 DEF Reader
    <3> HIDE DEF x
    <3>2. x \in PcapPacket
      <4>1. 1 \in 1 .. Len(<<x>>) /\ <<x>>[1] = x
          OBVIOUS
      <4> QED BY <3>1, <4>1, ElementOfSeq
    <3>3. handed \o <<x>> = Append(handed, x)
        BY <1>7, <3>2, AppendIsConcat
    <3> QED BY <1>2, <1>4, <1>5, <1>9, <3>3 DEF x
  <2> QED BY <1>3, <1>9, <2>2, <2>3 DEF CS!Next, CS!HandOut
<1> QED BY <1>1, <1>4, <1>5, <1>8, <1>9 DEF Keeps

\* The end of the input: a clean one only between two records.
LEMMA ReadEofKeeps ==
    ASSUME Pcap, Pcap', backend' = backend, stream' = stream, PcapGood, ReadEof
    PROVE  PcapGood' /\ [CS!Next]_(CS!vars)
<1>1. /\ pos = written /\ closed /\ reader' = AtEof(reader) /\ status' = AfterRead(reader')
      /\ handed' = handed /\ child' = child /\ written' = written /\ closed' = closed /\ pos' = pos
      /\ status \in {"opening", "open"} /\ reader.phase \in {"global", "header", "body"}
    BY DEF ReadEof, Reading
<1>2. /\ stream \in Stream /\ reader \in Reader /\ pos \in Nat
      /\ Placed(stream, reader, pos)
    BY DEF PcapGood, PcapType
<1>3. (status = "opening" => reader.phase = "global") /\ (status = "open" => reader.phase \in {"header", "body"})
    BY <1>1 DEF PcapGood, PcapStatus
<1>4. \/ reader'.phase = "end" /\ reader.phase = "header" /\ reader.buf = <<>> /\ status = "open"
         /\ status' = "end"
      \/ reader'.phase = "failed" /\ status = "opening" /\ status' = "failed"
      \/ reader'.phase = "failed" /\ status = "open" /\ status' = "error"
  <2>1. \/ reader'.phase = "end" /\ reader.phase = "header" /\ reader.buf = <<>>
        \/ reader'.phase = "failed"
      BY <1>1, <1>2 DEF AtEof, Reader
  <2> QED BY <1>1, <1>3, <2>1 DEF AfterRead, Failed
<1>5. PcapGood'
  <2>1. reader' \in Reader /\ Placed(stream, reader', pos)
    <3>1. reader' \in Reader
        BY <1>1, <1>2 DEF AtEof, Reader
    <3> QED BY <1>4, <3>1 DEF Placed
  <2>2. PcapType'
      BY <1>1, <2>1 DEF PcapGood, PcapType
  <2>3. PcapStatus'
      BY <1>1, <1>4 DEF PcapGood, PcapStatus
  <2> QED BY <1>1, <2>1, <2>2, <2>3 DEF PcapGood
<1>6. Owed' = Owed /\ HandedOut' = HandedOut /\ Torn' = Torn
    BY <1>1, StreamStays
<1>7. CASE status' \in {"failed", "error"}
    BY <1>4, <1>5, <1>6, <1>7 DEF CS!Next, CS!Fail
<1>8. CASE status' = "end"
  <2>1. reader.phase = "header" /\ reader.buf = <<>> /\ status = "open"
      BY <1>4, <1>8
  <2>2. PICK i \in 0 .. Len(stream.records) : AtHeader(stream, reader, pos, i)
      BY <1>2, <2>1 DEF Placed
  <2>3. pos = RecordEnd(i)
    <3> DEFINE e == EndOf(stream, i)
    <3>1. pos = e + Len(reader.buf) /\ Len(reader.buf) = 0 /\ e \in Nat
        BY <1>2, <2>1, <2>2, EndFacts DEF AtHeader, Holds
    <3> HIDE DEF e
    <3>2. pos = e
        BY <3>1
    <3> QED BY <3>2, StreamNames DEF e
  <2>4. ~ Torn
      BY <1>1, <2>2, <2>3 DEF Torn
  <2>5. Owed = <<>>
    <3>1. Owed = OwedOf(stream, pos, written)
        BY StreamNames
    <3> QED BY <1>1, <1>2, <3>1, OwedAtEnd
  <2> QED BY <1>5, <1>6, <1>8, <2>1, <2>4, <2>5 DEF CS!Next, CS!End
<1> QED BY <1>4, <1>5, <1>7, <1>8

\* The tool writes more of the stream, or exits.
LEMMA ToolKeeps ==
    ASSUME Pcap, Pcap', backend' = backend, stream' = stream, PcapGood, ToolWrites \/ ToolExits
    PROVE  PcapGood' /\ [CS!Next]_(CS!vars)
<1>0. /\ stream \in Stream /\ pos \in Nat /\ written \in Nat /\ pos <= written
      /\ written <= Len(BytesOf(stream)) /\ closed \in BOOLEAN
    BY DEF PcapGood, PcapType
<1>1. /\ status' = status /\ handed' = handed /\ pos' = pos /\ reader' = reader
      /\ child \in {"running", "killed"}
    BY DEF ToolWrites, ToolExits
<1>2. backend = "live" /\ closed = FALSE /\ status # "end" /\ Torn = FALSE
  <2>1. backend = "live" /\ ~ closed /\ status # "end"
      BY <1>1 DEF PcapGood, PcapStatus
  <2> QED BY <1>0, <2>1 DEF Torn
<1>3. HandedOut' = HandedOut
    BY <1>1 DEF HandedOut
<1>4. CASE ToolWrites
  <2>1. PICK k \in 1 .. PipeSize : written + k <= Len(StreamBytes) /\ written' = written + k
      BY <1>4 DEF ToolWrites
  <2>2. closed' = closed /\ child' = child
      BY <1>4 DEF ToolWrites
  <2>3. written' \in Nat /\ written <= written' /\ written' <= Len(BytesOf(stream)) /\ pos <= written'
    <3> DEFINE l == Len(BytesOf(stream))
               z == PipeSize
    <3>1. z \in Nat
        BY CaptureAssumption
    <3>2. written + k <= l
        BY <2>1, StreamNames
    <3>3. k \in 1 .. z
        OBVIOUS
    <3> HIDE DEF l, z
    <3>4. written' \in Nat /\ written <= written' /\ written' <= l /\ pos <= written'
        BY <1>0, <2>1, <3>1, <3>2, <3>3
    <3> QED BY <3>4 DEF l
  <2>4. PcapGood'
    <3>1. PcapType'
        BY <1>1, <2>2, <2>3 DEF PcapGood, PcapType
    <3>2. Placed(stream, reader, pos)'
        BY <1>1 DEF PcapGood
    <3>3. PcapStatus'
        BY <1>1, <2>2 DEF PcapGood, PcapStatus
    <3> QED BY <3>1, <3>2, <3>3 DEF PcapGood
  <2>5. IsPrefix(Owed, Owed')
    <3>1. Owed = OwedOf(stream, pos, written)
        BY StreamNames
    <3>2. (Pcap => Owed = OwedOf(stream, pos, written) /\ HandedOut = handed)'
        BY StreamNames, PTL
    <3>3. Owed' = OwedOf(stream, pos, written')
        BY <1>1, <3>2
    <3> DEFINE v == written'
    <3>4. v \in Nat /\ written <= v
        BY <2>3
    <3> HIDE DEF v
    <3>5. IsPrefix(OwedOf(stream, pos, written), OwedOf(stream, pos, v))
        BY <1>0, <3>4, OwedMore
    <3> QED BY <3>1, <3>3, <3>5 DEF v
  <2>6. CS!Arrive
      BY <1>1, <1>2, <1>3, <2>5 DEF CS!Arrive, CS!IsPrefix, IsPrefix
  <2> QED BY <2>4, <2>6 DEF CS!Next
<1>5. CASE ToolExits
  <2>1. child' = "zombie" /\ closed' = TRUE /\ written' = written
      BY <1>5 DEF ToolExits
  <2>2. PcapGood'
    <3>1. PcapType'
        BY <1>1, <2>1 DEF PcapGood, PcapType
    <3>2. Placed(stream, reader, pos)'
        BY <1>1 DEF PcapGood
    <3>3. PcapStatus'
      <4>1. reader.phase # "none"
          BY <1>1 DEF PcapGood, PcapStatus
      <4> QED BY <1>1, <1>2, <2>1, <4>1 DEF PcapGood, PcapStatus
    <3> QED BY <3>1, <3>2, <3>3 DEF PcapGood
  <2>3. Owed' = Owed
      BY <1>1, <2>1, StreamStays
  <2>4. IsPrefix(Owed, Owed')
    <3>1. Owed = OwedOf(stream, pos, written)
        BY StreamNames
    <3>2. IsPrefix(OwedOf(stream, pos, written), OwedOf(stream, pos, written))
        BY <1>0, OwedMore
    <3> QED BY <2>3, <3>1, <3>2
  <2>5. CS!Arrive
      BY <1>1, <1>2, <1>3, <2>4 DEF CS!Arrive, CS!IsPrefix, IsPrefix
  <2> QED BY <2>2, <2>5 DEF CS!Next
<1> QED BY <1>4, <1>5

\* The other steps leave the stream and its positions alone.
LEMMA OthersKeep ==
    ASSUME Pcap, Pcap', backend' = backend, stream' = stream, PcapGood,
           \/ OpenFails \/ OpenStream \/ ReadFails \/ DropSource \/ WaitReturns
           \/ UNCHANGED <<status, handed, child, written, closed, pos, reader>>
    PROVE  PcapGood' /\ [CS!Next]_(CS!vars)
<1>1. written' = written /\ closed' = closed /\ pos' = pos /\ handed' = handed
    BY DEF OpenFails, OpenStream, ReadFails, DropSource, WaitReturns, pcapVars
<1>2. Owed' = Owed /\ HandedOut' = HandedOut /\ Torn' = Torn
    BY <1>1, StreamStays
<1>3. ASSUME reader' \in Reader, Placed(stream, reader', pos), PcapStatus' PROVE PcapGood'
  <2>1. PcapType'
      BY <1>1, <1>3 DEF PcapGood, PcapType
  <2> QED BY <1>1, <1>3, <2>1 DEF PcapGood
<1>4. reader \in Reader /\ Placed(stream, reader, pos) /\ PcapStatus
    BY DEF PcapGood, PcapType
<1>5. CASE OpenFails
  <2>1. status = "opening" /\ status' = "failed" /\ reader' = reader /\ child' = child
      BY <1>5 DEF OpenFails, pcapVars
  <2>2. PcapStatus'
      BY <1>1, <1>4, <2>1 DEF PcapStatus
  <2> QED BY <1>2, <1>3, <1>4, <2>1, <2>2 DEF CS!Next, CS!Fail
<1>6. CASE OpenStream
  <2>1. /\ status = "opening" /\ status' = status /\ reader.phase = "none" /\ reader' = NewReader
        /\ child' = IF backend = "live" THEN "running" ELSE "none"
      BY <1>6 DEF OpenStream
  <2>2. reader' \in Reader /\ reader'.phase = "global" /\ reader'.buf = <<>>
    <3>1. <<>> \in Seq(Nat) /\ <<>> \in Seq(PcapPacket)
        BY EmptySeq
    <3> QED BY <2>1, <3>1 DEF NewReader, Reader
  <2>3. Placed(stream, reader', pos)
    <3>1. pos = 0
        BY <1>4, <2>1 DEF Placed
    <3> DEFINE z == 0
               r == reader'
    <3>2. z \in Nat /\ r.buf = <<>>
        BY <2>2
    <3> HIDE DEF z, r
    <3>3. Holds(stream, r, z, z) /\ Len(r.buf) = 0
        BY <3>2, EmptyHolds
    <3>4. AtGlobal(stream, r, 0)
        BY <3>3 DEF AtGlobal, z
    <3> QED BY <2>2, <3>1, <3>4 DEF Placed, r
  <2>4. PcapStatus'
    <3>1. backend = "live" => ~ closed
        BY <1>4, <2>1 DEF PcapStatus
    <3> QED BY <1>1, <2>1, <2>2, <3>1 DEF PcapStatus
  <2> QED BY <1>2, <1>3, <2>1, <2>2, <2>3, <2>4 DEF CS!vars
<1>7. CASE ReadFails
  <2>1. /\ status \in {"opening", "open"} /\ status' = Failed /\ reader' = reader /\ child' = child
      BY <1>7 DEF ReadFails, Reading, pcapVars
  <2>2. \/ status = "opening" /\ status' = "failed"
        \/ status = "open" /\ status' = "error"
      BY <2>1 DEF Failed
  <2>3. PcapStatus'
      BY <1>1, <1>4, <2>1, <2>2 DEF PcapStatus
  <2> QED BY <1>2, <1>3, <1>4, <2>1, <2>2, <2>3 DEF CS!Next, CS!Fail
<1>8. CASE DropSource
  <2>1. /\ status \in {"end", "error"} /\ status' = "dropping" /\ reader' = reader
        /\ child' = IF child = "running" THEN "killed" ELSE child
      BY <1>8 DEF DropSource, pcapVars
  <2>2. PcapStatus'
      BY <1>1, <1>4, <2>1 DEF PcapStatus
  <2> QED BY <1>2, <1>3, <1>4, <2>1, <2>2 DEF CS!Next, CS!Drop
<1>9. CASE WaitReturns
  <2>1. /\ status = "dropping" /\ status' = "dropped" /\ reader' = reader
        /\ child' = IF child = "zombie" THEN "reaped" ELSE child
      BY <1>9 DEF WaitReturns, pcapVars
  <2>2. PcapStatus'
      BY <1>1, <1>4, <2>1 DEF PcapStatus
  <2> QED BY <1>2, <1>3, <1>4, <2>1, <2>2 DEF CS!Next, CS!Drop
<1>10. CASE UNCHANGED <<status, handed, child, written, closed, pos, reader>>
  <2>1. PcapStatus'
      BY <1>4, <1>10 DEF PcapStatus
  <2> QED BY <1>2, <1>3, <1>4, <1>10, <2>1 DEF CS!vars
<1> QED BY <1>5, <1>6, <1>7, <1>8, <1>9, <1>10

\* Every step of a source that reads a stream is one of CaptureSource.
LEMMA PcapRefines ==
    ASSUME Pcap, PcapGood, [Next]_vars PROVE Pcap' /\ PcapGood' /\ [CS!Next]_(CS!vars)
<1>1. /\ Pcap' /\ backend' = backend /\ stream' = stream
      /\ \/ OpenFails \/ OpenStream \/ ReadBytes \/ ReadEof \/ ReadFails
         \/ ToolWrites \/ ToolExits \/ DropSource \/ WaitReturns
         \/ UNCHANGED <<status, handed, child, written, closed, pos, reader>>
    BY PcapSteps
<1>2. CASE ReadBytes
  <2>1. PcapGood'
      BY <1>1, <1>2, ReadBytesGood
  <2> QED BY <1>1, <1>2, <2>1, ReadBytesRefines
<1>3. CASE ReadEof
    BY <1>1, <1>3, ReadEofKeeps
<1>4. CASE ToolWrites \/ ToolExits
    BY <1>1, <1>4, ToolKeeps
<1>5. CASE \/ OpenFails \/ OpenStream \/ ReadFails \/ DropSource \/ WaitReturns
           \/ UNCHANGED <<status, handed, child, written, closed, pos, reader>>
    BY <1>1, <1>5, OthersKeep
<1> QED BY <1>1, <1>2, <1>3, <1>4, <1>5

\* A file is written before it is opened, a tool has not started.
LEMMA PcapInitGood == ASSUME Init, Pcap PROVE PcapGood
<1>1. /\ stream \in Streams /\ closed = (backend = "pcap_file") /\ pos = 0 /\ reader = Unread
      /\ status = "opening" /\ handed = <<>> /\ child = "none"
      /\ IF closed THEN written \in 0 .. Len(StreamBytes) ELSE written = 0
    BY DEF Init, Pcap
<1>2. stream \in Stream
    BY <1>1, CaptureAssumption DEF Stream, Rec
<1>3. reader \in Reader /\ reader.phase = "none"
  <2>1. <<>> \in Seq(Nat) /\ <<>> \in Seq(PcapPacket)
      BY EmptySeq
  <2> QED BY <1>1, <2>1 DEF Unread, NewReader, Reader
<1>4. written \in Nat /\ pos <= written /\ written <= Len(BytesOf(stream)) /\ pos \in Nat
  <2> DEFINE l == Len(BytesOf(stream))
  <2>1. l \in Nat
      BY <1>2, Layout, LenProperties
  <2>2. IF closed THEN written \in 0 .. l ELSE written = 0
      BY <1>1, StreamNames
  <2> HIDE DEF l
  <2>3. written \in Nat /\ pos <= written /\ written <= l /\ pos \in Nat
      BY <1>1, <2>1, <2>2
  <2> QED BY <2>3 DEF l
<1>5. PcapType
  <2>1. handed \in Seq(PcapPacket)
      BY <1>1, EmptySeq
  <2>2. closed \in BOOLEAN
      BY <1>1
  <2> QED BY <1>2, <1>3, <1>4, <2>1, <2>2 DEF PcapType
<1>6. Placed(stream, reader, pos)
    BY <1>1, <1>3 DEF Placed
<1>7. PcapStatus
    BY <1>1, <1>3 DEF PcapStatus
<1> QED BY <1>5, <1>6, <1>7 DEF PcapGood

-----------------------------------------------------------------------------
(* The synthetic source and the ETW stub.                                    *)

\* The steps of the synthetic source are those of CaptureSource.
LEMMA ScriptRefines ==
    ASSUME backend = "synthetic", Streamless, ScriptInv, [Next]_vars
    PROVE  ScriptInv' /\ [CS!Next]_(CS!vars)
<1>1. /\ backend' = backend /\ Torn = FALSE /\ Torn' = FALSE
      /\ \/ OpenFails \/ OpenAtOnce \/ NextScripted \/ NextRecord \/ PollReturns
         \/ DropSource \/ WaitReturns \/ UNCHANGED vars
         \/ \E c \in Cpus : Reserve(c) \/ Stamp(c) \/ Commit(c)
    BY StreamlessSteps
<1>2. /\ HandedOut = handed /\ HandedOut' = handed'
      /\ Owed = SubSeq(Script, pos + 1, Len(Script)) /\ Owed' = SubSeq(Script, pos' + 1, Len(Script))
    BY <1>1 DEF HandedOut, Owed
<1>3. pos \in 0 .. Len(Script) /\ Script \in Seq(Range(Script)) /\ Len(Script) \in Nat
    BY CaptureAssumption, LenProperties DEF ScriptInv
<1>4. CASE OpenAtOnce
  <2>1. status = "opening" /\ status' = "open" /\ handed' = handed /\ pos' = pos
      BY <1>4 DEF OpenAtOnce, pcapVars
  <2> QED BY <1>1, <1>2, <1>3, <2>1 DEF ScriptInv, CS!Next, CS!Open
<1>5. CASE NextScripted
  <2>1. /\ status = "open"
        /\ IF pos >= Len(Script)
           THEN status' = "end" /\ handed' = handed /\ pos' = pos
           ELSE handed' = Append(handed, Script[pos + 1]) /\ pos' = pos + 1 /\ status' = status
      BY <1>5 DEF NextScripted
  <2> DEFINE n == Len(Script)
  <2>2. CASE pos >= n
    <3>1. SubSeq(Script, pos + 1, n) = <<>>
      <4> DEFINE x == pos + 1
      <4>1. x \in Int /\ n \in Int /\ x > n /\ \A i \in x .. n : Script[i] \in Range(Script)
          BY <1>3, <2>2
      <4> HIDE DEF x, n
      <4>2. SubSeq(Script, x, n) = <<>>
          BY <1>3, <4>1, SubSeqEmpty
      <4> QED BY <4>2 DEF x, n
    <3>2. Owed = <<>> /\ status' = "end" /\ handed' = handed /\ pos' = pos
        BY <1>2, <2>1, <2>2, <3>1
    <3> QED BY <1>1, <1>2, <1>3, <2>1, <3>2 DEF ScriptInv, CS!Next, CS!End
  <2>3. CASE ~ (pos >= n)
    <3>1. handed' = Append(handed, Script[pos + 1]) /\ pos' = pos + 1 /\ status' = status
        BY <2>1, <2>3
    <3> DEFINE x == pos + 1
               s == SubSeq(Script, x, n)
               R == Range(Script)
    <3>2. x \in 1 .. n /\ n \in Nat /\ \A i \in 1 .. n : Script[i] \in R
      <4>1. \A i \in 1 .. Len(Script) : Script[i] \in Range(Script)
          BY <1>3, ElementOfSeq
      <4>2. pos \in 0 .. n /\ n \in Nat
          BY <1>3
      <4> HIDE DEF n
      <4>3. x \in 1 .. n
          BY <2>3, <4>2
      <4> QED BY <4>1, <4>2, <4>3 DEF n
    <3> HIDE DEF x, n, R
    <3>3. s \in Seq(R) /\ Len(s) = n - x + 1 /\ \A i \in 1 .. n - x + 1 : s[i] = Script[x + i - 1]
        BY <3>2, SubSeqProperties
    <3> HIDE DEF s
    <3>4. s # <<>> /\ Head(s) = Script[x]
      <4>1. Len(s) \in Nat /\ Len(s) >= 1 /\ 1 \in 1 .. n - x + 1 /\ x + 1 - 1 = x
          BY <3>2, <3>3
      <4>2. s # <<>> /\ Head(s) = s[1]
          BY <3>3, <4>1
      <4> QED BY <3>3, <4>1, <4>2
    <3>5. Tail(s) = SubSeq(Script, x + 1, n)
      <4> DEFINE y == x + 1
                 u == SubSeq(Script, y, n)
      <4>1. \A i \in y .. n : Script[i] \in R
          BY <3>2
      <4>2. y \in Int /\ n \in Int /\ x \in Int /\ y = x + 1
          BY <3>2
      <4> HIDE DEF y
      <4>3. u \in Seq(R) /\ Len(u) = (IF y <= n THEN n - y + 1 ELSE 0)
            /\ \A i \in 1 .. n - y + 1 : u[i] = Script[y + i - 1]
          BY <4>1, <4>2, SubSeqProperties
      <4> HIDE DEF u
      <4>4. Tail(s) \in Seq(R) /\ Len(Tail(s)) = Len(s) - 1 /\ \A i \in 1 .. Len(s) - 1 : Tail(s)[i] = s[i + 1]
          BY <3>3, <3>4, HeadTailProperties
      <4>5. Len(u) = n - x /\ Len(Tail(s)) = n - x
          BY <3>2, <3>3, <4>2, <4>3, <4>4
      <4>6. ASSUME NEW i \in 1 .. n - x PROVE Tail(s)[i] = u[i]
        <5>1. i \in 1 .. n - y + 1 /\ i \in 1 .. Len(s) - 1 /\ i + 1 \in 1 .. n - x + 1
              /\ y + i - 1 = x + i /\ x + (i + 1) - 1 = x + i
            BY <3>2, <3>3, <4>2
        <5>2. Tail(s)[i] = s[i + 1] /\ s[i + 1] = Script[x + (i + 1) - 1] /\ u[i] = Script[y + i - 1]
            BY <3>3, <4>3, <4>4, <5>1
        <5> QED BY <5>1, <5>2
      <4>7. Tail(s) = u
          BY <4>3, <4>4, <4>5, <4>6, SeqEqual
      <4> QED BY <4>7 DEF u, y
    <3>6. Owed = s /\ Owed' = Tail(s) /\ HandedOut' = Append(HandedOut, Head(s))
        BY <1>2, <3>1, <3>4, <3>5 DEF s, x, n
    <3>7. CS!HandOut
        BY <1>1, <2>1, <3>1, <3>4, <3>6 DEF CS!HandOut
    <3>8. pos' \in 0 .. Len(Script)
      <4>1. pos' = x /\ x \in 1 .. n
          BY <3>1, <3>2 DEF x
      <4> QED BY <3>2, <4>1 DEF n
    <3> QED BY <1>1, <3>7, <3>8 DEF ScriptInv, CS!Next
  <2> QED BY <2>2, <2>3
<1>6. CASE DropSource \/ WaitReturns
  <2>1. /\ handed' = handed /\ pos' = pos
        /\ \/ status \in {"end", "error"} /\ status' = "dropping"
           \/ status = "dropping" /\ status' = "dropped"
      BY <1>6 DEF DropSource, WaitReturns, pcapVars
  <2> QED BY <1>1, <1>2, <1>3, <2>1 DEF ScriptInv, CS!Next, CS!Drop
<1>7. ASSUME status' = status, handed' = handed, pos' = pos PROVE ScriptInv' /\ [CS!Next]_(CS!vars)
    BY <1>1, <1>2, <1>3, <1>7 DEF ScriptInv, CS!vars
<1>8. ASSUME NEW c \in Cpus, Reserve(c) \/ Stamp(c) \/ Commit(c) PROVE status' = status /\ handed' = handed /\ pos' = pos
    BY <1>8 DEF Reserve, Stamp, Commit, pcapVars
<1>9. CASE UNCHANGED vars
    BY <1>7, <1>9 DEF vars
<1>10. ~ OpenFails /\ ~ NextRecord /\ ~ PollReturns
    BY DEF OpenFails, NextRecord, PollReturns, Attached
<1> QED BY <1>1, <1>4, <1>5, <1>6, <1>7, <1>8, <1>9, <1>10

\* A backend that is none of the others, the ETW stub, can only fail to open.
LEMMA StubRefines ==
    ASSUME backend \notin {"pcap_file", "live", "ebpf", "synthetic"}, Streamless, [Next]_vars
    PROVE  [CS!Next]_(CS!vars)
<1>1. /\ backend' = backend /\ Torn = FALSE /\ Torn' = FALSE
      /\ \/ OpenFails \/ OpenAtOnce \/ NextScripted \/ NextRecord \/ PollReturns
         \/ DropSource \/ WaitReturns \/ UNCHANGED vars
         \/ \E c \in Cpus : Reserve(c) \/ Stamp(c) \/ Commit(c)
    BY StreamlessSteps
<1>2. ~ OpenAtOnce /\ ~ NextScripted /\ ~ NextRecord /\ ~ PollReturns
    BY DEF OpenAtOnce, NextScripted, NextRecord, PollReturns, Attached
<1>3. /\ stream' = stream /\ written' = written /\ pos' = pos /\ handed' = handed
      /\ \/ status' = status
         \/ status = "opening" /\ status' = "failed"
         \/ status \in {"end", "error"} /\ status' = "dropping"
         \/ status = "dropping" /\ status' = "dropped"
  <2>1. CASE OpenFails \/ DropSource \/ WaitReturns
      BY <2>1 DEF OpenFails, DropSource, WaitReturns, pcapVars
  <2>2. CASE UNCHANGED vars
      BY <2>2 DEF vars
  <2>3. ASSUME NEW c \in Cpus, Reserve(c) \/ Stamp(c) \/ Commit(c)
        PROVE  stream' = stream /\ written' = written /\ pos' = pos /\ handed' = handed /\ status' = status
      BY <2>3 DEF Reserve, Stamp, Commit, pcapVars
  <2> QED BY <1>1, <1>2, <2>1, <2>2, <2>3
<1>4. Owed' = Owed /\ HandedOut' = HandedOut
    BY <1>1, <1>3 DEF Owed, Unhanded, HandedOut, RecordEnd
<1> QED BY <1>1, <1>3, <1>4 DEF CS!Next, CS!Fail, CS!Drop, CS!vars

-----------------------------------------------------------------------------
(* Theorems.                                                                 *)

\* What holds of every backend's state, besides the ring of eBPF.
SourceInv ==
    /\ backend = "ebpf" => RingKinds
    /\ Streamless /\ ScriptInv
    /\ Pcap => PcapGood

(* In every state of a capture the reader of a pcap stream is in step with   *)
(* the bytes that were written, whatever sizes its reads had; a clean end    *)
(* is at the end of a record (pcapio.rs:51-131).                             *)
THEOREM SourceInvariant == Spec => []SourceInv
<1>1. Init => SourceInv
  <2>1. SUFFICES ASSUME Init PROVE SourceInv
      OBVIOUS
  <2>2. ring = <<>> /\ pos = 0 /\ child = "none" /\ reader.phase = "none" /\ closed = (backend = "pcap_file")
      BY <2>1 DEF Init, Unread, NewReader
  <2>3. RingKinds
      BY <2>2 DEF RingKinds
  <2>4. Streamless
      BY <2>2 DEF Streamless
  <2>5. ScriptInv
    <3>1. Len(Script) \in Nat
        BY CaptureAssumption, LenProperties
    <3> QED BY <2>2, <3>1 DEF ScriptInv
  <2>6. Pcap => PcapGood
      BY <2>1, PcapInitGood
  <2> QED BY <2>3, <2>4, <2>5, <2>6 DEF SourceInv
<1>2. RingInv /\ SourceInv /\ [Next]_vars => SourceInv'
  <2>1. SUFFICES ASSUME RingInv, SourceInv, [Next]_vars PROVE SourceInv'
      OBVIOUS
  <2>2. CASE Pcap
    <3>1. Pcap' /\ PcapGood'
        BY <2>1, <2>2, PcapRefines DEF SourceInv
    <3> QED BY <3>1 DEF SourceInv, Pcap, Streamless, ScriptInv
  <2>3. CASE ~ Pcap
    <3>1. backend' = backend /\ Streamless'
        BY <2>1, <2>3, StreamlessSteps DEF SourceInv, Pcap
    <3>2. ~ Pcap'
        BY <2>3, <3>1 DEF Pcap
    <3>3. (backend = "ebpf" => RingKinds)'
        BY <2>1, <3>1, KindsStay DEF SourceInv, RingInv
    <3>4. ScriptInv'
      <4>1. CASE backend = "synthetic"
          BY <2>1, <4>1, ScriptRefines DEF SourceInv
      <4>2. CASE backend # "synthetic"
          BY <3>1, <4>2 DEF ScriptInv
      <4> QED BY <4>1, <4>2
    <3> QED BY <3>1, <3>2, <3>3, <3>4 DEF SourceInv
  <2> QED BY <2>2, <2>3
<1> QED BY <1>1, <1>2, RingInvariant, PTL DEF Spec

(* Every backend implements the contract of the trait CaptureSource: a       *)
(* recorded file and the pipe of a tool, read in pieces of any size, the     *)
(* ring of the kernel program on any number of CPUs, and the script of the   *)
(* synthetic source (lib.rs:30-37).                                          *)
THEOREM CaptureImplementsSource == Spec => SourceSafe
<1>1. Init => CS!Init
  <2>1. SUFFICES ASSUME Init PROVE status = "opening" /\ HandedOut = <<>>
      BY DEF CS!Init
  <2>2. status = "opening" /\ handed = <<>>
      BY <2>1 DEF Init
  <2> QED BY <2>2 DEF HandedOut
<1>2. RingInv /\ RingInv' /\ SourceInv /\ [Next]_vars => [CS!Next]_(CS!vars)
  <2>1. SUFFICES ASSUME RingInv, RingInv', SourceInv, [Next]_vars PROVE [CS!Next]_(CS!vars)
      OBVIOUS
  <2>2. CASE Pcap
      BY <2>1, <2>2, PcapRefines DEF SourceInv
  <2>3. CASE backend = "ebpf"
    <3>1. backend' = backend
        BY <2>1, <2>3, StreamlessSteps DEF SourceInv
    <3>2. RingGood /\ RingGood'
        BY <2>1, <2>3, <3>1 DEF RingInv
    <3> QED BY <2>1, <2>3, <3>2, EbpfRefines DEF SourceInv
  <2>4. CASE backend = "synthetic"
      BY <2>1, <2>4, ScriptRefines DEF SourceInv
  <2>5. CASE backend \notin {"pcap_file", "live", "ebpf", "synthetic"}
      BY <2>1, <2>5, StubRefines DEF SourceInv
  <2> QED BY <2>2, <2>3, <2>4, <2>5 DEF Pcap
<1> QED BY <1>1, <1>2, RingInvariant, SourceInvariant, PTL DEF Spec, SourceSafe, CS!Spec

=============================================================================

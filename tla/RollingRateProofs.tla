------------------------- MODULE RollingRateProofs --------------------------
(* Proofs that the ring of buckets never counts too much, and counts exactly *)
(* on an ordered capture, for every window, every set of timestamps and any  *)
(* disorder.                                                                 *)
EXTENDS RollingRateSpec, SumProofs

-----------------------------------------------------------------------------
(* Seconds and buckets.                                                      *)

\* Whole seconds are natural numbers and grow with the time.
LEMMA SecondGrows ==
    ASSUME NEW a \in Nat, NEW b \in Nat, a <= b
    PROVE  Second(a) \in Nat /\ Second(b) \in Nat /\ Second(a) <= Second(b)
<1> DEFINE N == NsPerSec
           p == a \div N
           q == b \div N
           u == a % N
           v == b % N
<1>1. N \in Nat \ {0}
    BY NsPerSecAssumption
<1> HIDE DEF N
<1>2. /\ p \in Nat /\ u \in 0 .. N - 1 /\ a = N * p + u
      /\ q \in Nat /\ v \in 0 .. N - 1 /\ b = N * q + v
    BY <1>1
<1> HIDE DEF p, q, u, v
<1>3. p <= q
  <2> SUFFICES ASSUME p >= q + 1 PROVE FALSE
      BY <1>2
  <2>1. N * (p - q - 1) >= 0 /\ N * (p - q - 1) = N * p - N * q - N
      BY <1>1, <1>2
  <2> QED BY <1>1, <1>2, <2>1
<1> QED BY <1>2, <1>3 DEF Second, N, p, q

\* Two seconds that share a bucket are a window apart.
LEMMA SameBucket ==
    ASSUME NEW a \in Nat, NEW b \in Nat, a < b, a % Window = b % Window
    PROVE  a + Window <= b
<1> DEFINE N == Window
           p == a \div N
           q == b \div N
           u == a % N
           v == b % N
<1>1. N \in Nat \ {0}
    BY RollingRateAssumption
<1>2. u = v
    OBVIOUS
<1> HIDE DEF N
<1>3. /\ p \in Nat /\ u \in 0 .. N - 1 /\ a = N * p + u
      /\ q \in Nat /\ v \in 0 .. N - 1 /\ b = N * q + v
    BY <1>1
<1> HIDE DEF p, q, u, v
<1>4. q > p
  <2> SUFFICES ASSUME q <= p PROVE FALSE
      BY <1>3
  <2>1. N * (p - q) >= 0 /\ N * (p - q) = N * p - N * q
      BY <1>1, <1>3
  <2> QED BY <1>1, <1>2, <1>3, <2>1
<1>5. N * (q - p - 1) >= 0 /\ N * (q - p - 1) = N * q - N * p - N
    BY <1>1, <1>3, <1>4
<1> QED BY <1>1, <1>2, <1>3, <1>5 DEF N

\* record indexes its arrays within bounds (window.rs:25).
LEMMA BucketIndex ==
    ASSUME NEW a \in Nat
    PROVE  a % Window \in 0 .. Window - 1
BY RollingRateAssumption

-----------------------------------------------------------------------------
(* The inductive invariant.                                                  *)

Buckets == 0 .. Window - 1

RateType ==
    /\ rate \in Rate(Window) /\ recorded \in [Seconds -> Nat]
    /\ clock \in Nat /\ ordered \in BOOLEAN

\* A bucket in use holds events of its second, perhaps not all of them.
BucketsSound ==
    \A i \in Buckets :
        rate.epoch[i] # NoEpoch =>
            /\ rate.epoch[i] \in Seconds /\ rate.epoch[i] % Window = i
            /\ rate.buckets[i] <= recorded[rate.epoch[i]]

\* On an ordered capture a second that a window still reaches has its bucket.
BucketsComplete ==
    ordered =>
        \A sec \in Seconds :
            recorded[sec] > 0 /\ Second(clock) < sec + Window =>
                /\ rate.epoch[sec % Window] = sec
                /\ rate.buckets[sec % Window] = recorded[sec]

NothingAhead == \A sec \in Seconds : recorded[sec] > 0 => sec <= Second(clock)

RateInv == RateType /\ BucketsSound /\ BucketsComplete /\ NothingAhead

\* The seconds of the timestamps.
LEMMA SecondsAreNat == Seconds \subseteq Nat /\ \A t \in Times : Second(t) \in Seconds /\ t \in Nat
<1>1. \A t \in Times : t \in Nat /\ Second(t) \in Nat
    BY RollingRateAssumption, SecondGrows
<1> QED BY <1>1 DEF Seconds

\* It holds of a new ring, and record keeps it.
LEMMA RateInitInv == Init => RateInv
<1> SUFFICES ASSUME Init PROVE RateInv
    OBVIOUS
<1>1. RateType
    BY RollingRateAssumption DEF Init, RateType, NewRate, Rate
<1>2. \A i \in Buckets : rate.epoch[i] = NoEpoch
    BY DEF Init, NewRate, Buckets
<1>3. \A sec \in Seconds : recorded[sec] = 0
    BY DEF Init
<1> QED BY <1>1, <1>2, <1>3 DEF RateInv, BucketsSound, BucketsComplete, NothingAhead

\* record, for a timestamp before, at or after the newest one.
LEMMA RecordEventInv ==
    ASSUME RateInv, NEW now \in Times, RecordEvent(now)
    PROVE  RateInv'
<1> DEFINE sec == Second(now)
           b   == sec % Window
<1>1. now \in Nat /\ sec \in Seconds /\ sec \in Nat /\ Seconds \subseteq Nat /\ b \in Buckets
    BY SecondsAreNat, BucketIndex DEF Buckets
<1>2. RateType /\ BucketsSound /\ BucketsComplete /\ NothingAhead
    BY DEF RateInv
<1>3. /\ rate.epoch \in [Buckets -> Nat \cup {NoEpoch}] /\ rate.buckets \in [Buckets -> Nat]
      /\ recorded \in [Seconds -> Nat] /\ clock \in Nat /\ ordered \in BOOLEAN
    BY <1>2 DEF RateType, Rate, Buckets
<1>4. /\ rate'.epoch = [rate.epoch EXCEPT ![b] = sec]
      /\ rate'.buckets = [rate.buckets EXCEPT ![b] = IF rate.epoch[b] = sec THEN @ + 1 ELSE 1]
      /\ rate' = [epoch |-> rate'.epoch, buckets |-> rate'.buckets]
      /\ recorded' = [recorded EXCEPT ![sec] = @ + 1]
      /\ clock' = IF now > clock THEN now ELSE clock
      /\ ordered' = (ordered /\ now >= clock)
    BY DEF RecordEvent, Record
<1>5. Second(clock) \in Nat /\ Second(clock') \in Nat /\ Second(clock) <= Second(clock')
      /\ sec <= Second(clock') /\ clock' \in Nat /\ (now >= clock => Second(clock') = sec)
    BY <1>1, <1>3, <1>4, SecondGrows
<1> HIDE DEF sec, b
<1>6. RateType'
  <2>1. rate'.epoch \in [Buckets -> Nat \cup {NoEpoch}] /\ rate'.buckets \in [Buckets -> Nat]
      BY <1>1, <1>3, <1>4
  <2>2. rate' \in Rate(Window)
      BY <1>4, <2>1 DEF Rate, Buckets
  <2>3. recorded' \in [Seconds -> Nat] /\ ordered' \in BOOLEAN
      BY <1>1, <1>3, <1>4
  <2> QED BY <1>5, <2>2, <2>3 DEF RateType
<1>7. /\ \A i \in Buckets \ {b} : rate'.epoch[i] = rate.epoch[i] /\ rate'.buckets[i] = rate.buckets[i]
      /\ rate'.epoch[b] = sec
      /\ rate'.buckets[b] = IF rate.epoch[b] = sec THEN rate.buckets[b] + 1 ELSE 1
      /\ \A s \in Seconds \ {sec} : recorded'[s] = recorded[s]
      /\ recorded'[sec] = recorded[sec] + 1
    BY <1>1, <1>3, <1>4
<1>8. \A s \in Seconds : recorded[s] \in Nat /\ recorded'[s] \in Nat /\ recorded[s] <= recorded'[s]
    BY <1>1, <1>3, <1>7
<1>9. sec # NoEpoch /\ \A s \in Seconds : s # NoEpoch
    BY <1>1 DEF NoEpoch
<1>10. BucketsSound'
  <2>1. ASSUME NEW i \in Buckets, rate'.epoch[i] # NoEpoch
        PROVE  /\ rate'.epoch[i] \in Seconds /\ rate'.epoch[i] % Window = i
               /\ rate'.buckets[i] <= recorded'[rate'.epoch[i]]
    <3>1. CASE i = b
      <4>1. sec % Window = b
          BY DEF b
      <4>2. rate'.buckets[b] <= recorded'[sec]
        <5>1. CASE rate.epoch[b] = sec
          <6>1. rate.buckets[b] <= recorded[sec] /\ rate.buckets[b] \in Nat
              BY <1>1, <1>2, <1>3, <1>9, <5>1 DEF BucketsSound
          <6> QED BY <1>1, <1>7, <1>8, <5>1, <6>1
        <5>2. CASE rate.epoch[b] # sec
          <6> QED BY <1>1, <1>7, <1>8, <5>2
        <5> QED BY <5>1, <5>2
      <4> QED BY <1>1, <1>7, <3>1, <4>1, <4>2
    <3>2. CASE i # b
      <4>1. rate'.epoch[i] = rate.epoch[i] /\ rate'.buckets[i] = rate.buckets[i]
          BY <1>7, <3>2
      <4>2. /\ rate.epoch[i] \in Seconds /\ rate.epoch[i] % Window = i
            /\ rate.buckets[i] <= recorded[rate.epoch[i]]
          BY <1>2, <2>1, <4>1 DEF BucketsSound
      <4>3. rate.buckets[i] \in Nat
          BY <1>3
      <4> QED BY <1>8, <4>1, <4>2, <4>3
    <3> QED BY <3>1, <3>2
  <2> QED BY <2>1 DEF BucketsSound
<1>11. BucketsComplete'
  <2> SUFFICES ASSUME ordered', NEW s \in Seconds, recorded'[s] > 0, Second(clock') < s + Window
               PROVE  /\ rate'.epoch[s % Window] = s
                      /\ rate'.buckets[s % Window] = recorded'[s]
      BY DEF BucketsComplete
  <2>1. ordered /\ now >= clock /\ Second(clock') = sec /\ Window \in Nat \ {0}
      BY <1>3, <1>4, <1>5, RollingRateAssumption
  <2>2. Second(clock) < s + Window /\ s \in Nat
      BY <1>1, <1>5, <2>1
  <2>3. recorded[s] > 0 => /\ rate.epoch[s % Window] = s
                           /\ rate.buckets[s % Window] = recorded[s]
      BY <1>2, <2>1, <2>2 DEF BucketsComplete
  <2>4. CASE s = sec
    <3>1. s % Window = b
        BY <2>4 DEF b
    <3>2. CASE rate.epoch[b] = sec
      <4>1. rate.buckets[b] <= recorded[sec] /\ rate.buckets[b] \in Nat
          BY <1>1, <1>2, <1>3, <1>9, <3>2 DEF BucketsSound
      <4>2. rate.buckets[b] = recorded[sec]
          BY <1>1, <1>8, <2>3, <2>4, <3>1, <4>1
      <4> QED BY <1>7, <2>4, <3>1, <3>2, <4>2
    <3>3. CASE rate.epoch[b] # sec
      <4>1. recorded[sec] = 0
          BY <1>1, <1>8, <2>3, <2>4, <3>1, <3>3
      <4> QED BY <1>7, <2>4, <3>1, <3>3, <4>1
    <3> QED BY <3>2, <3>3
  <2>5. CASE s # sec
    <3>1. recorded'[s] = recorded[s] /\ recorded[s] > 0
        BY <1>7, <2>5
    <3>2. s < sec
        BY <1>1, <1>2, <1>5, <2>1, <2>2, <2>5, <3>1 DEF NothingAhead
    <3>3. s % Window # b
      <4> SUFFICES ASSUME s % Window = b PROVE FALSE
          OBVIOUS
      <4>1. s + Window <= sec
          BY <1>1, <2>2, <3>2, SameBucket DEF b
      <4> QED BY <1>1, <2>1, <2>2, <4>1
    <3>4. s % Window \in Buckets
        BY <2>2, BucketIndex DEF Buckets
    <3> QED BY <1>7, <2>3, <3>1, <3>3, <3>4
  <2> QED BY <2>4, <2>5
<1>12. NothingAhead'
  <2> SUFFICES ASSUME NEW s \in Seconds, recorded'[s] > 0 PROVE s <= Second(clock')
      BY DEF NothingAhead
  <2>1. CASE s = sec
      BY <1>5, <2>1
  <2>2. CASE s # sec
    <3>1. recorded[s] > 0 /\ s \in Nat
        BY <1>1, <1>7, <2>2
    <3> QED BY <1>2, <1>5, <3>1 DEF NothingAhead
  <2> QED BY <2>1, <2>2
<1> QED BY <1>6, <1>10, <1>11, <1>12 DEF RateInv

(* The ring keeps RateInv, whatever timestamps the capture brings.           *)
THEOREM RateInvariant == Spec => []RateInv
<1>1. RateInv /\ [Next]_vars => RateInv'
  <2> SUFFICES ASSUME RateInv, [Next]_vars PROVE RateInv'
      OBVIOUS
  <2>1. ASSUME NEW now \in Times, RecordEvent(now) PROVE RateInv'
      BY <2>1, RecordEventInv
  <2>2. CASE UNCHANGED vars
      BY <2>2 DEF vars, RateInv, RateType, BucketsSound, BucketsComplete, NothingAhead
  <2> QED BY <2>1, <2>2 DEF Next
<1> QED BY <1>1, RateInitInv, PTL DEF Spec

-----------------------------------------------------------------------------
(* Counting: buckets are matched with the seconds they hold.                 *)

\* The seconds of the window that ends at now.
SecondsIn(now) == {sec \in Seconds : sec <= Second(now) /\ Second(now) < sec + Window}

\* The buckets that count_window adds up hold seconds of the window, each its own.
LEMMA WindowFacts ==
    ASSUME RateInv, NEW now \in Times
    PROVE  LET S == InWindow(rate, Window, now)
               T == SecondsIn(now)
           IN  /\ CountWindow(rate, Window, now) = SumOver(rate.buckets, S)
               /\ TrueCount(now) = SumOver(recorded, T)
               /\ IsFiniteSet(S) /\ IsFiniteSet(T) /\ S \subseteq Buckets
               /\ \A i \in S : /\ rate.buckets[i] \in Nat /\ rate.epoch[i] \in T
                               /\ rate.epoch[i] % Window = i
                               /\ rate.buckets[i] <= recorded[rate.epoch[i]]
               /\ \A sec \in T : recorded[sec] \in Nat
<1> DEFINE S == InWindow(rate, Window, now)
           T == SecondsIn(now)
           n == Second(now)
<1>1. /\ CountWindow(rate, Window, now) = SumOver(rate.buckets, S)
      /\ TrueCount(now) = SumOver(recorded, T)
    BY DEF CountWindow, TrueCount, SumOver, SecondsIn
<1>2. n \in Nat /\ Seconds \subseteq Nat /\ Window \in Nat \ {0}
    BY SecondsAreNat, RollingRateAssumption
<1>3. /\ rate.epoch \in [Buckets -> Nat \cup {NoEpoch}] /\ rate.buckets \in [Buckets -> Nat]
      /\ recorded \in [Seconds -> Nat] /\ BucketsSound
    BY DEF RateInv, RateType, Rate, Buckets
<1>4. S \subseteq Buckets
    BY DEF InWindow, Buckets
<1>5. IsFiniteSet(S)
  <2>1. IsFiniteSet(Buckets)
      BY <1>2, FS_Interval DEF Buckets
  <2> QED BY <1>4, <2>1, FS_Subset
<1>6. IsFiniteSet(T)
  <2>1. T \in SUBSET (0 .. n)
    <3>1. ASSUME NEW sec \in T PROVE sec \in 0 .. n
      <4>1. sec \in Nat /\ sec <= n
          BY <1>2 DEF SecondsIn
      <4> HIDE DEF T, n
      <4> QED BY <1>2, <4>1
    <3> QED BY <3>1
  <2>2. IsFiniteSet(0 .. n)
      BY <1>2, FS_Interval
  <2> QED BY <2>1, <2>2, FS_Subset
<1>7. ASSUME NEW i \in S
      PROVE  /\ rate.buckets[i] \in Nat /\ rate.epoch[i] \in T
             /\ rate.epoch[i] % Window = i
             /\ rate.buckets[i] <= recorded[rate.epoch[i]]
  <2> DEFINE e == rate.epoch[i]
  <2>1. e # NoEpoch /\ SatSub(n, Window - 1) <= e /\ e <= n
      BY DEF InWindow
  <2>2. e \in Seconds /\ e % Window = i /\ rate.buckets[i] <= recorded[e]
      BY <1>3, <1>4, <2>1 DEF BucketsSound
  <2> HIDE DEF e
  <2>3. n < e + Window
    <3>1. e \in Nat
        BY <1>2, <2>2
    <3> HIDE DEF n
    <3> QED BY <1>2, <2>1, <3>1 DEF SatSub
  <2> QED BY <1>3, <1>4, <2>1, <2>2, <2>3 DEF SecondsIn, e
<1>8. \A sec \in T : recorded[sec] \in Nat
    BY <1>3 DEF SecondsIn
<1> QED BY <1>1, <1>4, <1>5, <1>6, <1>7, <1>8

\* count_window is at most the number of events of the window.
LEMMA CountsAtMost ==
    ASSUME RateInv
    PROVE  NeverOvercounts
<1> SUFFICES ASSUME NEW now \in Times
             PROVE  CountWindow(rate, Window, now) <= TrueCount(now)
    BY DEF NeverOvercounts
<1> DEFINE S == InWindow(rate, Window, now)
           T == SecondsIn(now)
<1>1. /\ CountWindow(rate, Window, now) = SumOver(rate.buckets, S)
      /\ TrueCount(now) = SumOver(recorded, T)
      /\ IsFiniteSet(S) /\ IsFiniteSet(T) /\ S \subseteq Buckets
      /\ \A i \in S : /\ rate.buckets[i] \in Nat /\ rate.epoch[i] \in T
                      /\ rate.epoch[i] % Window = i
                      /\ rate.buckets[i] <= recorded[rate.epoch[i]]
      /\ \A sec \in T : recorded[sec] \in Nat
    BY WindowFacts
<1> HIDE DEF S, T
<1>2. \A i, j \in S : rate.epoch[i] = rate.epoch[j] => i = j
    BY <1>1
<1>3. SumOver(rate.buckets, S) <= SumOver(recorded, T)
    BY <1>1, <1>2, SumMapped
<1> QED BY <1>1, <1>3

\* On an ordered capture it is that number.
LEMMA CountsExactly ==
    ASSUME RateInv
    PROVE  ExactWhenOrdered
<1> SUFFICES ASSUME ordered, NEW now \in Times, now >= clock
             PROVE  CountWindow(rate, Window, now) = TrueCount(now)
    BY DEF ExactWhenOrdered
<1> DEFINE S == InWindow(rate, Window, now)
           T == SecondsIn(now)
           n == Second(now)
           home == [sec \in T |-> sec % Window]
<1>1. /\ CountWindow(rate, Window, now) = SumOver(rate.buckets, S)
      /\ TrueCount(now) = SumOver(recorded, T)
      /\ IsFiniteSet(S) /\ IsFiniteSet(T) /\ S \subseteq Buckets
      /\ \A i \in S : /\ rate.buckets[i] \in Nat /\ rate.epoch[i] \in T
                      /\ rate.epoch[i] % Window = i
                      /\ rate.buckets[i] <= recorded[rate.epoch[i]]
      /\ \A sec \in T : recorded[sec] \in Nat
    BY WindowFacts
<1>2. n \in Nat /\ Seconds \subseteq Nat /\ Window \in Nat \ {0} /\ now \in Nat
    BY SecondsAreNat, RollingRateAssumption
<1>3. Second(clock) \in Nat /\ Second(clock) <= n
    BY <1>2, SecondGrows DEF RateInv, RateType
<1>4. ASSUME NEW sec \in T, recorded[sec] > 0
      PROVE  rate.epoch[sec % Window] = sec /\ rate.buckets[sec % Window] = recorded[sec]
  <2>1. sec \in Seconds /\ n < sec + Window /\ sec <= n
      BY DEF SecondsIn
  <2>2. Second(clock) < sec + Window
      BY <1>2, <1>3, <2>1
  <2> QED BY <1>4, <2>1, <2>2 DEF RateInv, BucketsComplete
<1>5. ASSUME NEW sec \in T, recorded[sec] # 0
      PROVE  sec % Window \in S /\ rate.epoch[sec % Window] = sec
  <2>1. sec \in Seconds /\ sec \in Nat /\ n < sec + Window /\ sec <= n
      BY <1>2 DEF SecondsIn
  <2>2. rate.epoch[sec % Window] = sec
      BY <1>1, <1>4, <1>5
  <2>3. sec % Window \in 0 .. Window - 1
      BY <2>1, BucketIndex
  <2>4. sec # NoEpoch /\ SatSub(n, Window - 1) <= sec
      BY <1>2, <2>1 DEF NoEpoch, SatSub
  <2> QED BY <2>1, <2>2, <2>3, <2>4 DEF InWindow
<1> HIDE DEF S, T, n
<1>6. \A i \in S : rate.buckets[i] = recorded[rate.epoch[i]]
  <2>1. ASSUME NEW i \in S PROVE rate.buckets[i] = recorded[rate.epoch[i]]
    <3> DEFINE e == rate.epoch[i]
    <3>1. e \in T /\ e % Window = i /\ rate.buckets[i] \in Nat /\ recorded[e] \in Nat
          /\ rate.buckets[i] <= recorded[e]
        BY <1>1
    <3> HIDE DEF e
    <3>2. CASE recorded[e] > 0
        BY <1>4, <3>1, <3>2 DEF e
    <3>3. CASE recorded[e] = 0
        BY <3>1, <3>3 DEF e
    <3> QED BY <3>1, <3>2, <3>3
  <2> QED BY <2>1
<1>7. \A i \in S : home[rate.epoch[i]] = i
    BY <1>1
<1>8. \A sec \in T : recorded[sec] # 0 => home[sec] \in S /\ rate.epoch[home[sec]] = sec
    BY <1>5
<1> HIDE DEF home
<1>9. SumOver(rate.buckets, S) = SumOver(recorded, T)
  <2> DEFINE f == rate.buckets
             h == rate.epoch
  <2>1. \A i \in S : f[i] \in Nat /\ h[i] \in T /\ f[i] = recorded[h[i]] /\ home[h[i]] = i
      BY <1>1, <1>6, <1>7
  <2>2. \A sec \in T : recorded[sec] \in Nat
      BY <1>1
  <2>3. \A sec \in T : recorded[sec] # 0 => home[sec] \in S /\ h[home[sec]] = sec
      BY <1>8
  <2>4. IsFiniteSet(S) /\ IsFiniteSet(T)
      BY <1>1
  <2> HIDE DEF f, h
  <2>5. SumOver(f, S) = SumOver(recorded, T)
      BY <2>1, <2>2, <2>3, <2>4, SumMatched
  <2> QED BY <2>5 DEF f
<1> QED BY <1>1, <1>9

(* A rate is never raised by events outside the window, whatever the order   *)
(* of the timestamps and whatever time is asked for (window.rs:34-45).       *)
THEOREM RatesAreNeverTooHigh == Spec => []NeverOvercounts
BY RateInvariant, CountsAtMost, PTL

(* On an ordered capture the rate is exact: a bucket is reused only for a    *)
(* second that is a whole window later (window.rs:23-31).                    *)
THEOREM RatesAreExact == Spec => []ExactWhenOrdered
BY RateInvariant, CountsExactly, PTL

=============================================================================

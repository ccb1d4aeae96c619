---------------------------- MODULE RollingRate -----------------------------
(* The ring of per-second buckets of l4scope-detect/src/window.rs, as        *)
(* operators over a record [epoch, buckets].  The window is the number of    *)
(* buckets; NoEpoch stands for the u64::MAX that marks an unused bucket.     *)
EXTENDS Integers, FiniteSetsExt

CONSTANT NsPerSec      \* nanoseconds per second: 10^9 in the code

ASSUME NsPerSecAssumption == NsPerSec \in Nat \ {0}

NoEpoch == -1

Second(now) == now \div NsPerSec

\* a.saturating_sub(b)
SatSub(a, b) == IF a > b THEN a - b ELSE 0

Rate(window) == [epoch   : [0 .. window - 1 -> Nat \cup {NoEpoch}],
                 buckets : [0 .. window - 1 -> Nat]]

NewRate(window) == [epoch   |-> [i \in 0 .. window - 1 |-> NoEpoch],
                    buckets |-> [i \in 0 .. window - 1 |-> 0]]

RecordWithoutReset(r, window, now) ==   \* mutant: a reused bucket goes on counting
    LET i == Second(now) % window
    IN  [epoch   |-> [r.epoch EXCEPT ![i] = Second(now)],
         buckets |-> [r.buckets EXCEPT ![i] = @ + 1]]

\* A bucket that still holds an older second is restarted before it counts.
Record(r, window, now) ==
    LET sec == Second(now)
        i   == sec % window
    IN  [epoch   |-> [r.epoch EXCEPT ![i] = sec],
         buckets |-> [r.buckets EXCEPT ![i] = IF r.epoch[i] = sec THEN @ + 1 ELSE 1]]

InWindowWide(r, window, now) ==     \* mutant: one second too many
    {i \in 0 .. window - 1 :
        /\ r.epoch[i] # NoEpoch
        /\ SatSub(Second(now), window) <= r.epoch[i]
        /\ r.epoch[i] <= Second(now)}

\* The buckets whose second lies in the window that ends at now.
InWindow(r, window, now) ==
    {i \in 0 .. window - 1 :
        /\ r.epoch[i] # NoEpoch
        /\ SatSub(Second(now), window - 1) <= r.epoch[i]
        /\ r.epoch[i] <= Second(now)}

CountWindow(r, window, now) ==
    MapThenSumSet(LAMBDA i : r.buckets[i], InWindow(r, window, now))

\* per_sec(now) >= threshold, without the division by the window.
PerSecAtLeast(r, window, now, threshold) ==
    CountWindow(r, window, now) >= threshold * window

=============================================================================

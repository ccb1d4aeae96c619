-------------------------- MODULE RollingRateSpec ---------------------------
(* RollingRate used as the engine uses it: events are recorded at capture    *)
(* timestamps that may lie up to Skew behind the newest one.  The history    *)
(* variables recorded and ordered are what an exact counter would hold and   *)
(* whether the capture was ordered.                                          *)
EXTENDS RollingRate

CONSTANTS
    Window,     \* window_secs
    Times,      \* timestamps, in nanoseconds
    Skew,       \* bound on timestamp disorder
    MaxEvents   \* bound on the events recorded in one second

ASSUME RollingRateAssumption ==
    /\ Window \in Nat \ {0} /\ Times \subseteq Nat /\ Skew \in Nat /\ MaxEvents \in Nat

VARIABLES
    rate,
    recorded,   \* events recorded in each second
    clock,      \* newest timestamp
    ordered     \* no timestamp has gone back so far

vars == <<rate, recorded, clock, ordered>>

Seconds == {Second(t) : t \in Times}

Init ==
    /\ rate = NewRate(Window)
    /\ recorded = [sec \in Seconds |-> 0]
    /\ clock = 0
    /\ ordered = TRUE

RecordEvent(now) ==
    /\ now + Skew >= clock
    /\ recorded[Second(now)] < MaxEvents
    /\ rate' = Record(rate, Window, now)
    /\ recorded' = [recorded EXCEPT ![Second(now)] = @ + 1]
    /\ clock' = IF now > clock THEN now ELSE clock
    /\ ordered' = (ordered /\ now >= clock)

Next == \E now \in Times : RecordEvent(now)

Spec == Init /\ [][Next]_vars

-----------------------------------------------------------------------------

\* The events of the last Window seconds ending at now.
TrueCount(now) ==
    MapThenSumSet(LAMBDA sec : recorded[sec],
                  {sec \in Seconds : sec <= Second(now) /\ Second(now) < sec + Window})

(* A rate alert is never raised by events outside the window, whatever the   *)
(* order of the timestamps and whatever time is asked for: count_window is   *)
(* at most the number of events recorded in the window (window.rs:34-45).    *)
NeverOvercounts == \A now \in Times : CountWindow(rate, Window, now) <= TrueCount(now)

(* On an ordered capture, and for any time not before the newest event, the  *)
(* ring counts exactly: reusing a bucket never loses a second that is still  *)
(* in the window (window.rs:23-31).                                          *)
ExactWhenOrdered ==
    ordered => \A now \in Times :
                   now >= clock => CountWindow(rate, Window, now) = TrueCount(now)

=============================================================================

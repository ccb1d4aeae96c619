---------------------------- MODULE CaptureSource ---------------------------
(* What the trait CaptureSource of l4scope-capture/src/lib.rs promises the   *)
(* main loop, whatever the backend: packets come out in the order in which   *)
(* they went in, none twice and none left out, and a clean end of the stream *)
(* means that nothing is missing.                                            *)
EXTENDS Naturals, Sequences, SequencesExt

VARIABLES
    status,   \* "opening", "open", "end", "error", "failed" (to open), "dropping", "dropped"
    owed,     \* packets that have reached the source and were not handed out
    handed,   \* packets that next_packet has returned
    torn      \* the source was cut off in the middle of a packet

vars == <<status, owed, handed, torn>>

Init == status = "opening" /\ handed = <<>>

Open == status = "opening" /\ status' = "open" /\ UNCHANGED <<owed, handed, torn>>

\* Traffic reaches the source, or its writer stops, perhaps within a packet.
Arrive ==
    /\ status # "end"
    /\ IsPrefix(owed, owed') /\ (torn => torn')
    /\ UNCHANGED <<status, handed>>

\* next_packet returns Ok(Some(packet)).
HandOut ==
    /\ status = "open" /\ owed # <<>>
    /\ handed' = Append(handed, Head(owed))
    /\ owed' = Tail(owed)
    /\ UNCHANGED <<status, torn>>

\* next_packet returns Ok(None).
End ==
    /\ status = "open" /\ owed = <<>> /\ ~ torn
    /\ status' = "end"
    /\ UNCHANGED <<owed, handed, torn>>

\* open, or next_packet, returns an error.
Fail ==
    /\ \/ status = "opening" /\ status' = "failed"
       \/ status = "open" /\ status' = "error"
    /\ UNCHANGED <<owed, handed, torn>>

\* The source is dropped once the loop has ended; its drop may take a while.
Drop ==
    /\ \/ status \in {"end", "error"} /\ status' \in {"dropping", "dropped"}
       \/ status = "dropping" /\ status' = "dropped"
    /\ UNCHANGED <<owed, handed, torn>>

Next == Open \/ Arrive \/ HandOut \/ End \/ Fail \/ Drop

Spec == Init /\ [][Next]_vars

\* The n-th packet that reaches the source is handed out, unless the source fails.
HandsOut(n) ==
    Len(handed) + Len(owed) >= n
        ~> Len(handed) >= n \/ status \in {"failed", "error", "dropping", "dropped"}

=============================================================================

----------------------------- MODULE MCCapture ------------------------------
(* TLC instance of Capture.  Each capture has up to two records: packets,    *)
(* frames that parse_frame does not want, empty frames, and records that are *)
(* longer than the reader accepts.                                           *)
EXTENDS Capture

Packet(sec)   == [sec |-> sec, micro |-> 1, data |-> <<Wanted, 2>>]
Unwanted(sec) == [sec |-> sec, micro |-> 2, data |-> <<0>>]
Empty(sec)    == [sec |-> sec, micro |-> 0, data |-> <<>>]
TooLong(sec)  == [sec |-> sec, micro |-> 0, data |-> <<Wanted, 0, 0, 0>>]

MCRecords ==
    {<<>>, <<Packet(1)>>, <<Packet(1), Packet(6)>>, <<Unwanted(1), Packet(6)>>,
     <<Empty(1), Packet(6)>>, <<Packet(1), Unwanted(6)>>, <<Packet(6), TooLong(7)>>}

MCStreams ==
    [little : BOOLEAN, nanos : BOOLEAN, valid : {TRUE}, records : MCRecords]
      \cup {[little |-> TRUE, nanos |-> FALSE, valid |-> FALSE, records |-> <<Packet(1)>>]}

MCScript == <<"packet1", "packet2", "packet3">>

=============================================================================

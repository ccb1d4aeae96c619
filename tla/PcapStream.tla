----------------------------- MODULE PcapStream -----------------------------
(* The reader of classic pcap streams of l4scope-capture/src/pcapio.rs as    *)
(* operators over its state.  A read fills a buffer by any number of bytes   *)
(* at a time; a full buffer is interpreted at once.                          *)
(*                                                                           *)
(* A byte is a digit below Base and a 32-bit word has two of them, so that   *)
(* byte order is kept and streams stay short.  Header fields that the reader *)
(* does not look at are left out.  parse_frame (module Frames) is reduced to *)
(* whether it finds a packet: a frame that starts with Wanted is one.        *)
EXTENDS Integers, Sequences

CONSTANTS
    Base,           \* 256 in the code
    NsPerSec,       \* 10^9 in the code
    NsPerMicro,     \* 1000 in the code
    MaxRecordLen    \* 262144 in the code

ASSUME PcapAssumption ==
    /\ Base \in Nat /\ Base > 3 /\ NsPerSec \in Nat \ {0}
    /\ NsPerMicro \in Nat \ {0} /\ MaxRecordLen \in Nat

WordLen      == 2
GlobalLen    == 2 * WordLen      \* magic, link type
RecordHdrLen == 3 * WordLen      \* seconds, fraction, captured length
Wanted       == 1

Field(buf, i) == SubSeq(buf, WordLen * (i - 1) + 1, WordLen * i)

ReadU32(b, little) == IF little THEN b[1] + Base * b[2] ELSE b[2] + Base * b[1]

\* The magic number as read in little-endian order, for each kind of writer.
Magic == [us_le |-> 2 + Base * 1, us_be |-> 1 + Base * 2,
          ns_le |-> 3 + Base * 1, ns_be |-> 1 + Base * 3]

\* phase: "none", "global", "header" or "body" (the buffer being filled), "end",
\* "failed".  found is the packet that next_packet returns, if any.
NewReader ==
    [phase |-> "global", buf |-> <<>>, little |-> TRUE, nanos |-> FALSE,
     len |-> 0, ts |-> 0, found |-> <<>>]

\* How many bytes the current buffer still lacks.
Missing(r) ==
    (CASE r.phase = "global" -> GlobalLen
       [] r.phase = "header" -> RecordHdrLen
       [] r.phase = "body"   -> r.len
       [] OTHER -> 0) - Len(r.buf)

TsNanos(sec, frac, nanos) == sec * NsPerSec + (IF nanos THEN frac ELSE frac * NsPerMicro)

\* PcapStream::new, once the global header is there.
TakeGlobal(r) ==
    LET magic == ReadU32(Field(r.buf, 1), TRUE)
    IN  IF \E m \in DOMAIN Magic : Magic[m] = magic
        THEN [r EXCEPT !.phase = "header", !.buf = <<>>,
                       !.little = magic \in {Magic.us_le, Magic.ns_le},
                       !.nanos = magic \in {Magic.ns_le, Magic.ns_be}]
        ELSE [r EXCEPT !.phase = "failed"]

\* The record's frame: a packet is returned, anything else is skipped.
TakeBody(r) ==
    [r EXCEPT !.phase = "header", !.buf = <<>>,
              !.found = IF r.buf # <<>> /\ Head(r.buf) = Wanted
                        THEN <<[ts |-> r.ts, data |-> r.buf]>> ELSE <<>>]

TakeHeaderAndWait(r) ==         \* mutant: a frame without bytes is read for
    LET word(i) == ReadU32(Field(r.buf, i), r.little)
    IN  IF word(3) > MaxRecordLen THEN [r EXCEPT !.phase = "failed"]
        ELSE [r EXCEPT !.phase = "body", !.buf = <<>>, !.len = word(3),
                       !.ts = TsNanos(word(1), word(2), r.nanos)]

\* The record's header; a frame without bytes is complete at once.
TakeHeader(r) ==
    LET word(i) == ReadU32(Field(r.buf, i), r.little)
        next    == [r EXCEPT !.phase = "body", !.buf = <<>>, !.len = word(3),
                             !.ts = TsNanos(word(1), word(2), r.nanos)]
    IN  IF word(3) > MaxRecordLen THEN [r EXCEPT !.phase = "failed"]
        ELSE IF word(3) = 0 THEN TakeBody(next) ELSE next

\* One read that returned bytes.
Feed(r, bytes) ==
    LET s == [r EXCEPT !.buf = @ \o bytes, !.found = <<>>]
    IN  CASE Missing(s) > 0     -> s
          [] s.phase = "global" /\ Missing(s) = 0 -> TakeGlobal(s)
          [] s.phase = "header" /\ Missing(s) = 0 -> TakeHeader(s)
          [] s.phase = "body"   /\ Missing(s) = 0 -> TakeBody(s)

AtEofAlwaysClean(r) ==          \* mutant: a torn record header passes for an end
    [r EXCEPT !.phase = IF r.phase = "header" THEN "end" ELSE "failed"]

\* A read that returned nothing: read_full and read_full_opt.
AtEof(r) ==
    [r EXCEPT !.phase = IF r.phase = "header" /\ r.buf = <<>> THEN "end" ELSE "failed"]

-----------------------------------------------------------------------------
(* The writer's side, as a reference: what the stream of a capture is.       *)

Word(n, little) ==
    LET lo == n % Base
        hi == n \div Base
    IN  IF little THEN <<lo, hi>> ELSE <<hi, lo>>

\* A stream is [little, nanos, valid, records]; a record is [sec, micro, data].
GlobalHeader(st) ==
    (IF ~ st.valid THEN <<0, 0>>
     ELSE IF st.nanos THEN Word(Magic.ns_le, st.little) ELSE Word(Magic.us_le, st.little))
      \o Word(1, st.little)

RecordBytes(st, rec) ==
    Word(rec.sec, st.little)
      \o Word(IF st.nanos THEN rec.micro * NsPerMicro ELSE rec.micro, st.little)
      \o Word(Len(rec.data), st.little)
      \o rec.data

\* When the packet of a record was seen, and its bytes.
Meant(rec) == [ts |-> rec.sec * NsPerSec + rec.micro * NsPerMicro, data |-> rec.data]

=============================================================================

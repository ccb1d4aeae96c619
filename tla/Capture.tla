------------------------------ MODULE Capture -------------------------------
(* The capture layer of l4scope-capture: the dispatch of lib.rs, the sources *)
(* behind it, and what feeds them.  A recorded file and a live capture are   *)
(* both read by PcapStream; the live one comes through the pipe of a child   *)
(* process.  The eBPF backend is the kernel program bpf/l4scope.bpf.c, run   *)
(* by several CPUs, a ring buffer, and its consumer ebpf.rs.                 *)
(*                                                                           *)
(* The capture tool, the kernel's ring and the operating system's processes  *)
(* are external.  A frame of the ring is "l4" when it reaches its transport  *)
(* header and "short" when that header is cut off (module Frames).           *)
EXTENDS PcapStream, FiniteSets, SequencesExt, Functions

CONSTANTS
    Backends,     \* of "synthetic", "pcap_file", "live", "ebpf" and "etw"
    Streams,      \* the captures that a file or the tool may hold
    Script,       \* the packets of the synthetic source
    PipeSize,     \* bytes that the tool can write ahead of the reader
    Cpus,         \* CPUs that run the kernel program
    RingSize,     \* records that the ring holds: 16 MiB in the code
    MaxFrames,    \* bound on the frames that reach the kernel program
    WallOffset    \* wall clock minus monotonic clock, read once by open

ASSUME CaptureAssumption ==
    /\ Backends \subseteq {"synthetic", "pcap_file", "live", "ebpf", "etw"}
    /\ PipeSize \in Nat \ {0} /\ RingSize \in Nat \ {0}
    /\ MaxFrames \in Nat /\ WallOffset \in Nat /\ IsFiniteSet(Cpus)
    /\ Script \in Seq(Range(Script))
    /\ Streams \subseteq [little : BOOLEAN, nanos : BOOLEAN, valid : BOOLEAN,
                          records : Seq([sec : Nat, micro : Nat, data : Seq(Nat)])]

VARIABLES
    backend,    \* the configured backend
    status,     \* of the source, as in CaptureSource
    handed,     \* the packets that next_packet has returned
    child,      \* the capture tool: "none", "running", "killed", "zombie", "reaped"
    stream,     \* what the file holds or the tool writes
    written,    \* bytes of it that were written
    closed,     \* the writing end is closed
    pos,        \* bytes read, or packets taken from the script
    reader,     \* the PcapStream
    ring,       \* reserved records, oldest first: [id, kind, state, ts]
    frames,     \* frames that reached the kernel program
    cpu,        \* the record that each CPU is filling in, or 0
    ktime,      \* the monotonic clock: every reading is a later instant
    user        \* the consumer of the ring: "next" or "poll"

vars == <<backend, status, handed, child, stream, written, closed, pos, reader, ring,
          frames, cpu, ktime, user>>

pcapVars   == <<written, closed, pos, reader>>
kernelVars == <<ring, frames, cpu, ktime>>

NoStream == [little |-> TRUE, nanos |-> FALSE, valid |-> FALSE, records |-> <<>>]
Unread   == [NewReader EXCEPT !.phase = "none"]

StreamBytes == GlobalHeader(stream)
                 \o FlattenSeq([i \in DOMAIN stream.records |-> RecordBytes(stream, stream.records[i])])

Init ==
    /\ backend \in Backends /\ status = "opening" /\ handed = <<>> /\ child = "none"
    /\ IF backend \in {"pcap_file", "live"} THEN stream \in Streams ELSE stream = NoStream
    /\ closed = (backend = "pcap_file")
    /\ IF closed THEN written \in 0 .. Len(StreamBytes) ELSE written = 0
    /\ pos = 0 /\ reader = Unread
    /\ ring = <<>> /\ frames = 0 /\ cpu = [c \in Cpus |-> 0] /\ ktime = 0 /\ user = "next"

-----------------------------------------------------------------------------
(* open.                                                                     *)

\* A path that is missing, a tool that does not start, a backend that is not
\* built in or does not attach; the ETW backend is a stub.
OpenFails ==
    /\ status = "opening" /\ reader.phase = "none" /\ backend # "synthetic"
    /\ status' = "failed"
    /\ UNCHANGED <<backend, handed, child, stream, pcapVars, kernelVars, user>>

\* These two have nothing to read before they are open.
OpenAtOnce ==
    /\ status = "opening" /\ backend \in {"synthetic", "ebpf"}
    /\ status' = "open"
    /\ UNCHANGED <<backend, handed, child, stream, pcapVars, kernelVars, user>>

\* The file is opened, or the tool is started with its output piped.
OpenStream ==
    /\ status = "opening" /\ reader.phase = "none" /\ backend \in {"pcap_file", "live"}
    /\ reader' = NewReader
    /\ child' = IF backend = "live" THEN "running" ELSE "none"
    /\ UNCHANGED <<backend, status, handed, stream, written, closed, pos, kernelVars, user>>

-----------------------------------------------------------------------------
(* The pcap sources.                                                         *)

Reading == status \in {"opening", "open"} /\ reader.phase \in {"global", "header", "body"}

Failed == IF status = "opening" THEN "failed" ELSE "error"

\* Where a read leaves the source; a failed open drops the stream unread.
AfterRead(r) ==
    CASE r.phase = "failed" -> Failed
      [] r.phase = "end"    -> "end"
      [] r.phase = "global" -> "opening"
      [] OTHER              -> "open"

\* A read returns some of the bytes that the buffer lacks and that are there.
ReadBytes ==
    /\ Reading /\ pos < written
    /\ \E k \in 1 .. Missing(reader) :
          /\ pos + k <= written
          /\ pos' = pos + k
          /\ reader' = Feed(reader, SubSeq(StreamBytes, pos + 1, pos + k))
    /\ handed' = handed \o reader'.found
    /\ status' = AfterRead(reader')
    /\ UNCHANGED <<backend, child, stream, written, closed, kernelVars, user>>

\* A read returns no bytes: the end of the file, or every writer is gone.
ReadEof ==
    /\ Reading /\ pos = written /\ closed
    /\ reader' = AtEof(reader)
    /\ status' = AfterRead(reader')
    /\ UNCHANGED <<backend, handed, child, stream, written, closed, pos, kernelVars, user>>

\* A read returns an error other than Interrupted, which is tried again.
ReadFails ==
    /\ Reading
    /\ status' = Failed
    /\ UNCHANGED <<backend, handed, child, stream, pcapVars, kernelVars, user>>

\* The tool writes through a pipe of bounded size.
ToolWrites ==
    /\ child = "running" /\ ~ closed /\ written < Len(StreamBytes)
    /\ \E k \in 1 .. PipeSize :
          /\ written + k <= pos + PipeSize /\ written + k <= Len(StreamBytes)
          /\ written' = written + k
    /\ UNCHANGED <<backend, status, handed, child, stream, closed, pos, reader, kernelVars, user>>

\* It ends by itself or crashes, or dies of the signal sent by drop.
ToolExits ==
    /\ child \in {"running", "killed"}
    /\ child' = "zombie" /\ closed' = TRUE
    /\ UNCHANGED <<backend, status, handed, stream, written, pos, reader, kernelVars, user>>

DropWithoutKill ==                  \* mutant: drop only waits for the tool
    /\ status \in {"end", "error"}
    /\ status' = "dropping"
    /\ UNCHANGED <<backend, handed, child, stream, pcapVars, kernelVars, user>>

\* Drop for PcapSource: kill, then wait, with the pipe still open.
DropSource ==
    /\ status \in {"end", "error"}
    /\ status' = "dropping"
    /\ child' = IF child = "running" THEN "killed" ELSE child
    /\ UNCHANGED <<backend, handed, stream, pcapVars, kernelVars, user>>

WaitReturns ==
    /\ status = "dropping" /\ child \in {"none", "zombie"}
    /\ status' = "dropped"
    /\ child' = IF child = "zombie" THEN "reaped" ELSE child
    /\ UNCHANGED <<backend, handed, stream, pcapVars, kernelVars, user>>

-----------------------------------------------------------------------------
(* The synthetic source.                                                     *)

NextScripted ==
    /\ status = "open" /\ backend = "synthetic"
    /\ IF pos >= Len(Script)
       THEN status' = "end" /\ UNCHANGED <<handed, pos>>
       ELSE handed' = Append(handed, Script[pos + 1]) /\ pos' = pos + 1 /\ UNCHANGED status
    /\ UNCHANGED <<backend, child, stream, written, closed, reader, kernelVars, user>>

-----------------------------------------------------------------------------
(* The kernel program: reserve, stamp, fill in, submit or discard.           *)

Attached == backend = "ebpf" /\ status = "open"

At(id) == CHOOSE i \in DOMAIN ring : ring[i].id = id

\* A frame that finds the ring full is lost; nothing counts it.
Reserve(c) ==
    /\ Attached /\ cpu[c] = 0 /\ frames < MaxFrames
    /\ frames' = frames + 1
    /\ \E kind \in {"l4", "short"} :
          IF Len(ring) < RingSize
          THEN /\ ring' = Append(ring, [id |-> frames', kind |-> kind, state |-> "busy", ts |-> 0])
               /\ cpu' = [cpu EXCEPT ![c] = frames']
          ELSE UNCHANGED <<ring, cpu>>
    /\ UNCHANGED <<backend, status, handed, child, stream, pcapVars, ktime, user>>

Stamp(c) ==
    /\ cpu[c] # 0 /\ ring[At(cpu[c])].ts = 0
    /\ ktime' = ktime + 1
    /\ ring' = [ring EXCEPT ![At(cpu[c])].ts = ktime']
    /\ UNCHANGED <<backend, status, handed, child, stream, pcapVars, frames, cpu, user>>

Commit(c) ==
    /\ cpu[c] # 0 /\ ring[At(cpu[c])].ts # 0
    /\ ring' = [ring EXCEPT ![At(cpu[c])].state = IF ring[At(cpu[c])].kind = "short"
                                                  THEN "discarded" ELSE "ready"]
    /\ cpu' = [cpu EXCEPT ![c] = 0]
    /\ UNCHANGED <<backend, status, handed, child, stream, pcapVars, frames, ktime, user>>

-----------------------------------------------------------------------------
(* The consumer.                                                             *)

\* ring.next: the oldest record if it is committed; discarded ones are skipped.
Ready(q) == q # <<>> /\ Head(q).state # "busy"

NextRecordOutOfOrder ==             \* mutant: records come in the order of their commits
    /\ Attached /\ user = "next"
    /\ \/ \E i \in DOMAIN ring :
             /\ ring[i].state # "busy"
             /\ handed' = IF ring[i].state = "discarded" THEN handed
                          ELSE Append(handed, [id |-> ring[i].id, ts |-> WallOffset + ring[i].ts])
             /\ ring' = RemoveAt(ring, i)
             /\ UNCHANGED user
       \/ user' = "poll" /\ UNCHANGED <<handed, ring>>
    /\ UNCHANGED <<backend, status, child, stream, pcapVars, frames, cpu, ktime>>

\* One turn of the loop of next_packet: a record is decoded, or poll is called.
NextRecord ==
    /\ Attached /\ user = "next"
    /\ IF Ready(ring)
       THEN /\ handed' = IF Head(ring).state = "discarded" THEN handed
                         ELSE Append(handed, [id |-> Head(ring).id, ts |-> WallOffset + Head(ring).ts])
            /\ ring' = Tail(ring)
            /\ UNCHANGED user
       ELSE user' = "poll" /\ UNCHANGED <<handed, ring>>
    /\ UNCHANGED <<backend, status, child, stream, pcapVars, frames, cpu, ktime>>

\* poll reports data, a time-out after a second, or an error.
PollReturns ==
    /\ Attached /\ user = "poll"
    /\ user' = "next"
    /\ status' \in {"open", "error"}
    /\ UNCHANGED <<backend, handed, child, stream, pcapVars, kernelVars>>

-----------------------------------------------------------------------------

Opening == OpenFails \/ OpenAtOnce \/ OpenStream
Source  == ReadBytes \/ ReadEof \/ NextScripted \/ NextRecord \/ PollReturns
Kernel(c) == Stamp(c) \/ Commit(c)

\* The program has ended with its source.
Done == status \in {"failed", "dropped"} /\ UNCHANGED vars

\* A live capture waits for traffic.
Next ==
    \/ Opening \/ Source \/ ReadFails
    \/ ToolWrites \/ ToolExits \/ DropSource \/ WaitReturns
    \/ \E c \in Cpus : Reserve(c) \/ Kernel(c)
    \/ Done

(* The agent asks for packets and drops the source at the end; a CPU that is *)
(* in the kernel program runs on; a killed process dies.  Nothing is assumed *)
(* of the tool: it may write or exit whenever it likes, or never.            *)
Fairness ==
    /\ WF_vars(Opening) /\ WF_vars(Source)
    /\ WF_vars(DropSource) /\ WF_vars(WaitReturns)
    /\ WF_vars(ToolExits /\ child = "killed")
    /\ \A c \in Cpus : WF_vars(Kernel(c))

Spec == Init /\ [][Next]_vars /\ Fairness

-----------------------------------------------------------------------------
(* Properties.                                                               *)

\* Where the i-th record of the stream ends.
RecordEnd(i) ==
    GlobalLen + SumFunctionOnSet([j \in DOMAIN stream.records |-> Len(RecordBytes(stream, stream.records[j]))],
                                 1 .. i)

\* The members of s at some of its places, in order.
Place(places, k) == CHOOSE p \in places : Cardinality({q \in places : q <= p}) = k

AtPlaces(s, places) == [k \in 1 .. Cardinality(places) |-> s[Place(places, k)]]

IsPacket(rec) == rec.data # <<>> /\ Head(rec.data) = Wanted

\* The packets that were written as a whole and not yet read as a whole.
Unhanded ==
    AtPlaces([i \in DOMAIN stream.records |-> Meant(stream.records[i])],
             {i \in DOMAIN stream.records :
                 RecordEnd(i) \in pos + 1 .. written /\ IsPacket(stream.records[i])})

\* The records of the ring that hold a packet.
Reserved ==
    AtPlaces([i \in DOMAIN ring |-> ring[i].id], {i \in DOMAIN ring : ring[i].kind = "l4"})

Owed ==
    CASE backend = "synthetic" -> SubSeq(Script, pos + 1, Len(Script))
      [] backend = "ebpf"      -> Reserved
      [] OTHER                 -> Unhanded

HandedOut == IF backend = "ebpf" THEN [i \in DOMAIN handed |-> handed[i].id] ELSE handed

Torn == closed /\ written \notin {RecordEnd(i) : i \in 0 .. Len(stream.records)}

CS == INSTANCE CaptureSource WITH owed <- Owed, handed <- HandedOut, torn <- Torn

(* Every backend keeps the contract of the trait CaptureSource (lib.rs:30-   *)
(* 37): packets come out in order, once, and with the time and bytes they    *)
(* were recorded with, in either byte order and either time resolution; a    *)
(* clean end means that everything was handed out and that the stream was    *)
(* not cut off within a record.                                              *)
SourceSafe == CS!Spec

(* Whatever sizes the reads have, however the tool hesitates and whichever   *)
(* records the kernel discards, a packet that reached the source is handed   *)
(* out, unless the source fails (pcapio.rs:51-78, ebpf.rs:105-122).          *)
SourceLive == \A n \in 1 .. MaxFrames : CS!HandsOut(n)

(* The records of the ring are stamped after they were reserved, so packets  *)
(* of several CPUs come out with times out of order, but a packet overtakes  *)
(* at most one packet of each other CPU (l4scope.bpf.c:61-65, ebpf.rs:107).  *)
DisorderBounded ==
    backend = "ebpf" =>
        \A j \in DOMAIN handed :
            Cardinality({i \in 1 .. j - 1 : handed[i].ts > handed[j].ts}) < Cardinality(Cpus)

(* The drop of a source returns even when the tool has filled the pipe and   *)
(* would never exit by itself (lib.rs:59-65).                                *)
DropReturns == status = "dropping" ~> status = "dropped"

=============================================================================

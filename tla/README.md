# L4Scope: a TLA+ model of the agent

L4Scope is a passive monitor of layer-4 health. An agent on a node reads
packets from a capture backend, keeps state per conversation, derives events
(retransmissions, refused and unanswered handshakes, stalls, RST storms, SYN
backlogs, ...) and exports counters and events. This directory holds TLA+
modules that model the agent and its capture backends, the TLC configurations
that check them on small instances, and TLAPS proofs about every part of it:
the engine, its rates and sequence analysis, the agent's threads, the
configuration, the capture backends, the parsers and the attribution.

Paths such as `flow.rs` are relative to the crate that owns them under
`l4scope/crates/`.

## 1. Inventory

| Component (source) | State | Operations | Interacts with | What is hard |
|---|---|---|---|---|
| vocabulary (`types.rs`) | none | canonical key, flag tests | all | a key is direction-independent, the packet remembers the direction |
| flow state machine (`flow.rs`) | flow table, half-open table, two host-wide rates | `update` | engine, detectors | every order of SYN, SYN-ACK, RST, FIN, data, retransmission and reuse; wrap of sequence numbers; two directions in one record |
| rolling rate (`window.rs`) | ring of per-second buckets | `record`, `count_window`, `per_sec` | flow state, detectors | buckets are reused; timestamps may go back |
| detectors (`detectors.rs`) | last emission of three debounced detectors | `inspect` | engine | one report per cause; debounce under disorder |
| engine (`engine.rs`) | all of the above and the time of the last sweep | `process`, `sweep`, `stats` | agent | time is capture time, sweeps are driven by packets; a flow may time out and be evicted by one sweep |
| registry (`metrics.rs`) | counters, gauges, behind a mutex | `record_packet`, `record_event`, `set_gauges`, `snapshot`, `render_prometheus` | main thread, pusher, server | three threads |
| OTLP exporter (`otlp.rs`) | start time, snapshot in progress | `start`, `flush` | registry, Collector | copy, stamp and post are separate steps; posts fail, hang or race the final flush |
| metrics server (`http.rs`) | one connection, the system's queue of others | `serve`, `handle_conn` | registry, scrapers | serial, no read time-out |
| JSON sink (`json.rs`) | open file | `from_target`, `emit` | main thread | write errors are ignored |
| agent (`main.rs`) | counters of the run | start-up, capture loop, shutdown | all | stages that fail or degrade; order of final sweep, gauges and flush; exit code |
| pod attribution (`attribution.rs`) | CIDR list | `local_pod_ip` | main thread | masks at both ends of the prefix range, two address families |
| configuration (`config.rs`, `main.rs`) | settings | `parse_args`, `load`, overrides | start-up | layering, section carried from line to line, types and widths |
| frame parser (`parse.rs`, `bpf/`) | none | `parse_frame`, `handle` | backends | header walk over truncated data; two programs for the same frames |
| pcap stream (`pcapio.rs`) | byte order, resolution | `new`, `next_packet` | file, live capture | reads of any size, ends and errors at every byte |
| live capture (`live.rs`, `lib.rs`) | child process and its pipe | `open_live`, drop | pcap stream | the tool may stop, hang or crash at any time |
| eBPF capture (`ebpf.rs`, `bpf/`) | ring buffer | `open`, `next_packet` | kernel program | several CPUs, records reserved before they are stamped, full ring |
| synthetic, ETW (`synthetic.rs`, `etw.rs`) | script, none | `next_packet`, `open` | main thread | nothing: a fixed script, and a stub that fails |

What makes each of them correct:

* flow state, engine: the half-open count of a service is exact; it counts
  handshakes in progress and no others; an unanswered SYN is reported once and
  in time; idle flows are evicted in time and never silently; sequence analysis
  agrees with the byte stream across wraps.
* detectors: one report per stall and per burst of duplicate ACKs; host-wide
  alerts keep their distance; a time-out means that no SYN-ACK came.
* rolling rate: it counts what lies in the window, and nothing else.
* registry, exporter, agent: what is published adds up, is cumulative, is
  complete at the end of a run, and never holds up the capture; a scrape is
  answered unless an earlier one hangs.
* capture: packets come out in order, once, with their times and bytes; a clean
  end means that nothing is missing; what arrived comes out.
* frame parser: the packet that was sent, or nothing, at every truncation; the
  kernel program says the same of the frames it understands.
* attribution: the endpoint inside a pod network, of the same address family.
* configuration: command line before file before defaults, nothing ignored.

`PROJECT.json` lists the components with their status, the hazards of the code
at the lines where they bite with the properties that cover them, and the map
from definitions to source lines.

## 2. Modules

| Module | Models | Uses |
|---|---|---|
| `PacketMeta` | endpoints, keys, directions, flags, packets | |
| `RollingRate` | the ring of buckets as operators | |
| `FlowState` | `EngineState::update` as a pipeline of steps over the record `[flow, half_open, rst_rate, d]` | `PacketMeta`, `RollingRate` |
| `Detectors` | the nine detectors and the debounce | `FlowState` |
| `Engine` | `Engine::process` and `Engine::sweep` as actions | `Detectors` |
| `EngineHistory` | `Engine` with history variables: what really happened on the wire, and which alerts were raised | `Engine` |
| `RollingRateSpec` | the ring driven by events, next to an exact counter | `RollingRate` |
| `SeqTracker` | one direction of a flow fed from a byte stream of known offsets | `FlowState` |
| `Registry` | the registry's operations, the Prometheus page and the OTLP body | |
| `Agent` | main thread, pusher, metrics server and its clients around the registry | `Registry` |
| `CaptureSource` | the contract of the trait: the abstract specification of a source | |
| `PcapStream` | the pcap reader as operators over its state | |
| `Capture` | `open`, the sources, the capture tool, the kernel program's ring; implements `CaptureSource` | `PcapStream`, instance of `CaptureSource` |
| `Frames` | `parse_frame`; the kernel program with `decode` | `PacketMeta` |
| `WireFormat` | frames as the protocols lay them out: the reference for `Frames` | `Frames` |
| `Attribution` | `PodMatcher` | `Frames` |
| `FrameCapture` | one frame captured to growing lengths, seen by both parsers | `WireFormat`, `Attribution` |
| `BackendParity` | one TCP stream seen by two backends, each with a flow state machine | `WireFormat`, `FlowState` |
| `Config` | arguments, file and overrides | |
| `EngineProofs` | lemmas about each step of `update`; theorems about the engine and its history | `EngineHistory` |
| `SeqTrackerProofs` | theorems about the sequence analysis | `SeqTracker` |
| `SumProofs` | lemmas about sums over finite sets | |
| `RollingRateProofs` | theorems about the ring of buckets | `RollingRateSpec`, `SumProofs` |
| `AgentProofs` | theorems about the agent's threads and its registry | `Agent`, `SumProofs` |
| `ConfigProofs` | theorems about the start-up | `Config` |
| `CaptureProofs` | theorems about the ring of the eBPF backend, and that `Capture` implements `CaptureSource` | `Capture` |
| `FrameProofs` | theorems about both parsers and the attribution | `FrameCapture`, `SumProofs` |
| `MCHandshake`, `MCHistory`, `MCRollingRate`, `MCAgent`, `MCCapture`, `MCFrames`, `MCConfig` | instances for TLC | |

### Correspondence with the code

*Packets and time.* An address is a number, since only equality and order are
used. Of the flag byte only SYN, ACK, FIN and RST are read. The capture
timestamp is a parameter of the actions. The engine's only clock is that
timestamp; the variable `clock` of `Engine` is the newest one presented so far.
It is not engine state and serves to state the properties and to bound
disorder: `Skew` is how far a packet may lie behind it. `NsPerSec` and
`SeqSpace` are 10^9 and 2^32 in the code and small in the runs.

*Flow state.* `update` is one function with one branch per kind of segment;
each branch is an operator (`SynStep`, `SynAckStep`, `RstStep`,
`EstablishStep`, `FinStep`, `ZeroWindowStep`, `SegmentStep`, `DupAckStep`),
composed in the order of the code. The half-open table is a partial function,
as the `HashMap` is. Fields that are written and never read are left out.

*Engine.* `Process` is the whole of `process`: update, detector chain, and the
sweep when one is due. The two loops of `sweep` after its scan are
`SweptHalfOpen` and `SweptFlows`; a flow that is in both lists is released once
because the first loop clears its flag, which `Released` says by taking the
union. `Sweep` is a call from outside, which the agent makes at shutdown.
Events are kept as kind, severity and key; the order inside one call and the
texts are left out.

*Agent.* One action per stage of `run` and per step of `build_and_post`, each
with at most one access to shared state. `lock` is the registry's mutex. The
engine is opaque: a call returns any of `Outcomes`, and gauges are identified
by the number of engine calls they reflect. Every reading of the wall clock is
a later instant. The Collector and the clients are external. The capture is
seen through `CaptureSource`: `NextPacket` is its `HandOut`, `CaptureEnds` its
`End` or `Fail`, and `OpenCapture` its `Open` or a failed one. The server
accepts from a queue of clients; a request asks for the metrics, asks for
something else, or fails, and may never be completed. Counter maps are bags, an
optional pod is a set of at most one. `setup` says which sinks and clients a
behaviour has, and how many packets and pushes; it never changes.

*Capture.* The reader of a pcap stream is a buffer that is being filled
(global header, record header, record); every read adds any number of the
missing bytes and `Feed` interprets a buffer once it is full. A 32-bit word is
two digits, so byte order matters and streams stay short. A file may end at any
byte. The tool writes through a bounded pipe and may stop or crash at any time.
In the ring, `Reserve`, `Stamp` and `Commit` are separate steps of each CPU,
as `bpf_ringbuf_reserve`, `bpf_ktime_get_ns` and the submission are; the
consumer sees only committed records, oldest first, and polls in between.

*Capture implements CaptureSource.* The mapping takes as `owed` what has
reached the source and was not handed out (`Owed`): the rest of the script, the
records of the stream that were written as a whole and not yet read as a whole,
or the records of the ring that hold a packet, each in the order of their places
(`AtPlaces`). `torn` says that the writer is gone and stopped within a record
(`Torn`), and `handed` is what `next_packet` returned, in the case of the ring
by its identity (`HandedOut`). The packets of `Unhanded` come from the writer's
side (`Meant`), not from the reader, so the refinement also says that times and
bytes survive both byte orders and both resolutions. A frame that finds the
ring full never becomes owed: that loss is not visible to the agent.

*Disorder.* `DisorderBounded` is where the engine's `Skew` comes from: packets
of the eBPF backend leave the ring out of order by at most one packet of each
other CPU.

*Frames.* A frame is its captured length and its fields by offset; all other
bytes are `Filler`. `WireFormat` lays frames out independently of the parsers,
as sets of fields with their offsets, with tags, IP and TCP options, extension
headers and trailing padding. `IsFrame` says what may come over the wire:
extension headers in their units and an upper-layer protocol that is not itself
an extension header, but any number from 0 to 15 in the length fields of IPv4
and TCP, and fragments other than the first (`later`), which go on with payload
where the transport header would be. `HonestLengths` are frames whose length
fields are at least 5 words, as a correct sender's are. The time,
the interface and the TTL, which nothing reads, are left out. Fields keep the
values of the code (ethertypes, protocol numbers, flag bits), addresses have 4
and 5 bits.

*Configuration.* A line arrives as a blank, a section, an assignment or
neither; the value keeps whether it was bare, quoted, or a quoted one that a
comment sign has cut off. `Schema` is the `match` of `apply`. The two tables of
backend names (`config.rs:29`, `main.rs:92`) are equal and are one here.

Definitions whose comment begins with "mutant" are deliberately wrong variants
of the definition that follows them. They are used by no specification; each is
substituted for that definition to see that the property it is paired with in
`PROJECT.json` fails.

## 3. Runs

`tlc -config X.cfg M` for the module named here.

| Run | Module | Shows |
|---|---|---|
| `handshakes` | `MCHandshake` | a client that opens, completes, loses, is refused, closes and reuses a connection, and a second one that is left waiting at the same service, with timestamps up to a second out of order. The inductive invariant of the proofs (`EngineInv`) holds; the count shared by the two flows is exact through time-outs and evictions (`HalfOpenExact`, `HandshakeAccounting`); an unanswered SYN is reported in time, once, and never evicted silently (`UnansweredSynReported`, `TimeoutReportedOnce`, `NoSilentEviction`); the quiet flow is evicted while the other drives the sweeps (`IdleFlowsEvicted`) |
| `reports` | `MCHistory` | three scenes: host-wide alerts under disorder (`AlertsSpaced`); stalls and ACK bursts in both directions (`ReportedOncePerCause`); opens from one side or both towards a high port, and reused tuples (`SynFirstServiceRight`, `TimeoutMeansNoSynAck`); `HistoryInv`, the inductive invariant of the proofs, holds throughout |
| `rates` | `MCRollingRate` | the ring is exact while events are ordered (`ExactWhenOrdered`) and never overcounts (`NeverOvercounts`) |
| `seq_wrap` | `SeqTracker` | `next_seq` and the classification of a segment against the stream, across wraps (`NextSeqTracksStream`, `ClassifiedAsStream`) |
| `agent` | `MCAgent` | pushes are cumulative (`PushesCumulative`), the final flush is complete (`FinalFlushComplete`), gauges are fresh enough and every event is counted once in each sink, lost log lines included (`SinksUpToDate`), pages are coherent (`PagesCoherent`); a hanging post or scrape never blocks the capture or the exit (`ExportNeverBlocks`); a waiting client is served, unless the process ends or the client before it hangs (`ScrapesServed`) |
| `capture` | `MCCapture` | `Capture` implements `CaptureSource` (`SourceSafe`); what arrived comes out unless the source fails (`SourceLive`); bounded disorder (`DisorderBounded`); dropping a source returns (`DropReturns`) |
| `frames` | `MCFrames` | a parser reports the packet that was sent or none: `parse_frame` of frames without AH, the kernel program of frames with honest lengths, both unless the frame is a later fragment (`NeverMisreads`); the headers are enough (`HeadersSuffice`); the two parsers agree on frames with honest lengths (`BackendsAgree`); attribution (`PodIsLocalEndpoint`) |
| `config` | `MCConfig` | layering (`LastWordWins`) and fail-fast (`NothingIgnored`) |

Four runs check what a comment or a document of the repository says and find
that the code does otherwise. `PROJECT.json` quotes the line for each.

| Run | The code |
|---|---|
| `rtt_of_reused_tuple` | measures the round trip from the first SYN the tuple ever had |
| `capture_error_exit` | exits with success after a capture error |
| `ipv6_ah` | skips an IPv6 authentication header by the length of another kind, because the test looks at the header that follows |
| `snapped_segments` | clamps the payload to the 256 bytes that the live tool captures, so that an in-order stream of large segments is out of order on the live backend and in order on the eBPF backend |

Other differences between text and code that were met while modelling, and have
no run of their own:

* The service of a flow is guessed from its first packet by the lower port and
  kept when the SYN arrives later (`flow.rs:144-154`); the comment at
  `flow.rs:38` says "SYN destination". `SynFirstServiceRight` states the part
  that holds.
* `DETECTORS.md:22` calls `handshake_timeout` "SYN unanswered"; a flow whose
  SYN-ACK the capture missed is reported although the server's data was seen.
* `DETECTORS.md:21` places `handshake_failure` during the handshake; a repeated
  SYN-ACK moves an established flow back, and a RST then counts as a failure.
* The debounce takes a last emission at time 0 for none (`detectors.rs:47`), so
  an alert at capture time 0 does not hold back the next one.
* The pusher may stamp an older copy of the counters later than the final flush
  does (`otlp.rs:65`), although the sums are declared monotonic.
* The Prometheus page leaves pod packets out until a pod has an event
  (`metrics.rs:133`); the OTLP body does not.
* The final flush gives its cumulative points a start time of its own
  (`otlp.rs:55`), while the pusher gives the time the export began;
  `OTEL.md:16` documents cumulative sums.
* A late event restarts a bucket that counts a newer second (`window.rs:26`);
  the comment at `window.rs:33` says "Total events within the last
  `window_secs` seconds". `NeverOvercounts` states the part that holds.
* The kernel program understands neither VLAN tags nor extension headers
  (`l4scope.bpf.c:130`); such packets exist for the pcap backends only.
  `BackendsAgree` does not ask for them.
* The kernel program tests neither the IPv4 header length nor the TCP data
  offset (`l4scope.bpf.c:79`, `120`); `parse_frame` refuses a packet in which
  one of them is below 5 words (`parse.rs:93`, `175`). So the kernel program
  reports packets that `parse_frame` does not, with a transport header read
  inside the IPv4 header or a payload that counts part of the TCP header,
  although `lib.rs:3-7` promises the engine identical input from every backend. `BackendsAgree`, and `NeverMisreads` for the kernel program, are
  about frames with `HonestLengths`; the others are in the run, and
  `NeverMisreads` says that `parse_frame` refuses them.
* Neither parser looks at fragment offsets, so the payload of a later fragment
  is read as a transport header; the comment at `parse.rs:139` says "only first
  fragment has L4". Such frames are in the run; `NeverMisreads`,
  `HeadersSuffice` and `BackendsAgree` exclude them by their first condition,
  `PodIsLocalEndpoint` does not.
* A `[section]` that does not exist is accepted as long as no key follows it
  (`config.rs:179`); `NothingIgnored` is about keys and values.
* If a live stream cannot be opened, its child is not killed (`lib.rs:54`); the
  comment at `lib.rs:43` says "killed on drop".
* A `#` inside quotes cuts a value off (`config.rs:197`); the comment above it
  accepts that.

### Bounds

* `MaxRate`, `MaxDupAcks`, `MaxSegments` bound counters that otherwise grow
  with the run; they are conjuncts of the next-state relation of the MC
  modules. Each exceeds the threshold that the run's detectors compare it with,
  or the detector is out of the run's question and its threshold is out of
  reach (9).
* `Times` covers a SYN, its time-out, its eviction and a reuse of the tuple
  with a time-out of one second and a time to live of two. `handshakes` counts
  time in whole seconds, so every comparison of the sweep is met with equality
  and on both sides of it; the proofs cover every resolution. `MaxRate` = 1
  lets at most one flow begin and one RST pass per second in that run; the two
  clients are still waiting at the same time.
* `SeqSpace` is 8 with segments of up to 3 bytes, so a stream of seven segments
  passes the end of the space twice. `SeqTracker` keeps a segment within half
  of the space of the furthest byte, the range in which `seq_diff` is defined
  to be meaningful.
* The setups of `agent` each enable the sinks they are about: two pushes to
  compare with each other, four packets with `GaugeEvery` 2 so that the gauges
  lag, are refreshed and lag again, two clients of which one can hang, and two
  setups in which pusher, server and main thread compete for the mutex.
* `capture`: the pipe (5 bytes) is shorter than a record, so the tool blocks in
  the middle of one; the ring (2 records) is filled by two CPUs and four frames,
  so frames are lost and every order of stamping and committing occurs. Streams
  have up to two records: packets, unwanted, empty and too long ones. A third
  record would meet the reader in the state in which the second did.
* `frames`: every link type with up to three tags (one more than the walk),
  chains of eight and nine extension headers (the limit and one more), chains
  with AH, IPv4 header lengths of 3 to 6 words and TCP data offsets of 0, 4, 5
  and 6 (below, at and above the least), later fragments of both families,
  every captured length. `Filler` is 80, which is a plausible data offset of a TCP
  header, so a transport header read from the wrong place yields a wrong packet
  instead of being refused. Each condition in `NeverMisreads` is needed:
  without any one of them the run finds a violation.
* `MaxInputs` = 5 arguments and lines: a section, an assignment, another
  section, another assignment and an option, in every order.
* The widths `U32Max` = 50 and `U64Max` = 99 let a numeral fit both types, one
  or none.
* `MaxEvents` bounds the events recorded in one second of `RollingRateSpec`.
* Runs of the engine and of single frames do not check for deadlock: a capture
  may end at any time. `agent`, `capture` and `config` do.

### Fairness

*Agent.* Weak fairness on the main thread's own steps is thread scheduling.
Strong fairness on its locked steps says that a mutex that is released again and
again is obtained; the other threads sleep or block on the network between two
acquisitions. Weak fairness on a step that holds the mutex is again scheduling:
the critical sections contain no blocking call. The main thread's own post is
taken to end, by the time-outs on write and read and the system's limit on
connecting. The server is assumed to accept, to get the mutex and to render;
nothing is assumed of packets arriving, of the pusher's post, of a client's
request or of the write of a response, which may block for ever. A write to
standard output or to the event file is taken not to block for ever.

*Capture.* The agent opens its source, asks it for packets and drops it at the
end; a CPU inside the kernel program finishes it (it cannot be blocked there);
a process that was killed dies. Nothing is assumed of the tool, which may write
or exit at any time or never, nor of traffic.

## 4. Proofs

`tlapm M.tla` checks the proofs of module `M`. A theorem speaks of every value
of the constants that the named assumptions allow. Most of these only say that
the constants are numbers, sets and sequences of the right kind. Three say
more: bytes of a pcap stream can hold the digits of its magic numbers (`Base > 3`;
256 in a real stream); streams and scripts are sequences of records with
natural numbers in them; and the frames of `FrameCapture` are `IsFrame`,
with addresses of their family's width. Bounds such as
`Skew`, `MaxSegments`, `MaxEvents`, `MaxInputs`, `MaxFrames`, and the numbers of
packets and pushes of a setup, are any natural numbers.

| Module | Theorem | States |
|---|---|---|
| `EngineProofs` | `Invariant` | `Spec => []EngineInv` |
| | `TypeCorrect` | `Spec => []TypeOK` |
| | `HalfOpenCountsAreExact` | `Spec => []HalfOpenExact` |
| | `HandshakesAreAccounted` | `Spec => []HandshakeAccounting` |
| | `FlowsAreEvictedInTime` | `Spec => []IdleFlowsEvicted` |
| | `SynsAreReportedInTime` | `Spec => []UnansweredSynReported` |
| | `EvictionIsNeverSilent` | `Spec => NoSilentEviction` |
| | `TimeoutIsReportedOnce` | `Spec => TimeoutReportedOnce` |
| | `HistoryInvariant` | `HSpec => []HistoryInv` |
| | `CausesAreReportedOnce` | `HSpec => []ReportedOncePerCause` |
| | `SynFirstBacklogIsRight` | `HSpec => []SynFirstServiceRight` |
| | `TimeoutsAreUnanswered` | `HSpec => TimeoutMeansNoSynAck` |
| | `AlertsAreSpaced` | `HSpec => AlertsSpaced`, if the debounce interval is positive and no packet has timestamp 0 |
| `SeqTrackerProofs` | `SeqInvariant` | `Spec => []SeqInv` |
| | `NextSeqIsRight` | `Spec => []NextSeqTracksStream` |
| | `SegmentsAreClassifiedRight` | `Spec => []ClassifiedAsStream` |
| `RollingRateProofs` | `RateInvariant` | `Spec => []RateInv` |
| | `RatesAreNeverTooHigh` | `Spec => []NeverOvercounts` |
| | `RatesAreExact` | `Spec => []ExactWhenOrdered` |
| `AgentProofs` | `AgentInvariant` | `Spec => []AgentInv` |
| | `AgentTypes` | `Spec => []TypeOK` |
| | `PagesAreCoherent` | `Spec => []PagesCoherent` |
| | `PushesAreCumulative` | `Spec => []PushesCumulative` |
| | `FinalFlushIsComplete` | `Spec => []FinalFlushComplete` |
| | `SinksAreUpToDate` | `Spec => []SinksUpToDate` |
| | `CountersNeverFall` | `Spec => [][NoMore(metrics, metrics')]_metrics` |
| `ConfigProofs` | `ConfigInvariant` | `Spec => []ConfigInv` |
| | `LastWordAlwaysWins` | `Spec => []LastWordWins` |
| | `NothingIsIgnored` | `Spec => []NothingIgnored` |
| `CaptureProofs` | `RingInvariant` | `Spec => []RingInv` |
| | `DisorderIsBounded` | `Spec => []DisorderBounded` |
| | `SourceInvariant` | `Spec => []SourceInv` |
| | `CaptureImplementsSource` | `Spec => SourceSafe`, the specification of `CaptureSource` under the mapping |
| `FrameProofs` | `FrameInvariant` | `Spec => []FrameInv` |
| | `ParsersNeverMisread` | `Spec => []NeverMisreads` |
| | `HeadersSufficeAlways` | `Spec => []HeadersSuffice` |
| | `BackendsAgreeAlways` | `Spec => []BackendsAgree` |
| | `PodIsLocalEndpointAlways` | `Spec => []PodIsLocalEndpoint` |

### Engine

*The inductive invariant* `EngineInv` has four parts. Types. `HalfOpenExact`:
the table equals the number of counted flows per endpoint; on its own it is not
inductive, because a sweep that reports and evicts a flow, or a SYN on a flow
that is already counted, changes table and flags together only if the flags
mean what they should. `HandshakeAccounting` says what they mean: a counted
flow is in its handshake and not reported, and a waiting flow is counted or
reported. `SweepKeepsUp` relates the last sweep to every flow: at that sweep
nothing was overdue, and less than a sweep interval has passed since; from it
the two time bounds follow by adding one interval.

*The argument for a packet.* The first lemmas show that each step of the
pipeline preserves types and the relation `Keeps`: if the table agreed with
this flow plus a fixed number of other counted flows per endpoint (`Balanced`),
it still does. Steps that touch no handshake field are `Neutral` and keep it
trivially; SYN, RST, FIN and establishment each have a lemma; `UpdateKeeps`
composes them. For the engine the packet's flow is split off the count
(`CountSplit`), `UpdateKeeps` is applied and the flow put back (`TableFacts`).

*The argument for a sweep.* `SweepExact`: the flows counted before are those
counted after plus those `Released`, disjointly, so the saturating subtraction
is exact. `SweepTimely` and `SweepKeepsTimely`: a sweep at `now` leaves nothing
overdue at `now`.

*What the reports say.* The properties of `EngineHistory` compare reports with
the history, so they need an invariant that ties the two together.
`HistoryInv` says what a flow's record still knows of its history: a SYN was
seen exactly when `syn_time_ns` is set, a flow that was answered never waits
again, the service of a flow seen from its SYN on is that SYN's destination, a
stall that was reported is still marked, a burst that was reported is still at
or above the threshold. Each step of the pipeline keeps it, and each report is
raised in a state in which it rules the repetition out. `AlertsAreSpaced` has
two hypotheses, and needs them: `Debounce` holds 0 for "never", so an alert at
time 0 does not hold back the next one, and an interval of 0 debounces nothing.
A timestamp of 0 is 1 January 1970.

### Sequence analysis

`SeqInv` says that `next_seq` is the offset of the furthest byte, wrapped. The
work is in the arithmetic: two offsets less than half of the space apart, whose
remainders are compared by `seq_diff`, compare as the offsets do. It is proved
for every size of the space, so also for 2^32.

### Rolling rate

`RateInv`: a bucket in use holds at most the events of the second it is labelled
with; as long as no timestamp has gone back, each second within a window of the
clock has its bucket, with all of its events. The count is a sum over buckets,
and the exact one a sum over seconds. `SumProofs` supplies what is needed of
sums over finite sets: the library's fold takes elements in an order of its
own choice, so the lemmas show that it is defined, that any element may be
split off, and that two sums compare when their terms do. Induction on the size
of a set is replaced by a smallest counterexample, since the induction theorems
of the library cannot be instantiated by the provers.

### Agent

`AgentInv` has six parts, each preserved by every step given the ones before
it. `ThreadInv`: every thread is at a place of its code. `ControlInv`: at which
stage how many packets have been through the engine. `RegistryInv`: the
registry is coherent and counts what the main thread has seen at this stage,
and the gauges lag by at most the packets since the last multiple of
`GaugeEvery`. `PostInv`: whatever is under way or has arrived was copied from an
earlier state of the registry, under the start of its poster and with a stamp
from the past. `OrderInv`: what a poster is about to send counts no less than
what arrived from it. `FlushInv`: the main thread posts last, everything, and
under a start of its own. The four properties say only what is visible at the
Collector or on a page; copies that are held between two steps of a poster are
why the other parts are needed. `RegistryInv` rests on the registry's sums over
counters (`Total`, `TotalOf`), for which `SumProofs` is used again.

`CountersNeverFall` is the action property that makes scraped counters usable
as Prometheus counters: no step of any thread takes anything back.

### Configuration

`ConfigInv` says of every intermediate state of the start what `LastWordWins`
says of its end: `args` is the last word of the options read, `cfg` of the
lines read, `section` is the section in force after the last line, and every
option and line so far was understood. "The last" is defined without recursion
(`Latest`), so appending an option or a line is a case split.

### Ring of the eBPF backend

`RingInv` holds while the configured backend is eBPF. Records keep the order of
their reservations (`RingOrder`), stamps are past readings of the clock
(`RingClock`), and a record is busy exactly while one CPU fills it in
(`RingCpus`). `RingLate` is the heart: for every stamped record, the frames
reserved before it that are stamped later *or not stamped yet* are fewer than
the CPUs. When a record is stamped, the frames before it with a later stamp
are none, and the unstamped ones belong to other CPUs, one each: an injection
into the CPUs without the one that stamps. From then on that set only shrinks:
a later stamp moves a frame from unstamped to later, and new frames are
reserved behind it.

### Capture implements CaptureSource

Each step of `Capture` is shown to be a step of `CaptureSource` under the
mapping, or to leave its variables alone. `SourceInv` is what that needs to
know, by backend.

*Pcap stream, from a file or from the tool.* `PcapGood` says where the reader
is: it is filling the global header, the header of some record, or the body of
some record (`AtGlobal`, `AtHeader`, `AtBody`), its buffer holds exactly the
bytes of the stream from the start of that piece to the current position, and
once past the global header its byte order and resolution are the writer's.
A clean end is the end of a closed stream met with an empty buffer, so at the
end of a record.
The stream is a concatenation of records of different lengths; the lemmas about
its layout give every byte of it by record and place (`Joins`, `Ends`, `EndOf`).
A read of any size adds a chunk that ends at or before the end of the piece;
when the piece is complete, what `Feed` decodes from the digits is what the
writer meant. The packets due at a position are those whose records end behind
it (`Due`), so a read that completes no record leaves `Owed` alone, one that
completes an unwanted record as well, and one that completes a packet takes off
its head. The tool's writes add records at the end of `Owed`.

*Ring.* `RingKinds` says that exactly the frames that turn out short are
discarded. A reservation for a packet appends to the records that hold one, the
consumer takes the first, and a discarded record was never among them; the
order of stamps and commits does not matter for `Owed`. This is where the ring
differs from `DisorderBounded`: the contract is about the order of
reservations, the bound about the times.

*Script and stub.* `ScriptInv` keeps the position within the script. The ETW
stub only fails.

Sequences filtered by a condition are given by places (`Place`, `AtPlaces`): the
k-th place is the one with k places up to it. `Rank` and its lemmas say how
these places move when a sequence loses its head or gains a last element, which
stands in for induction over the sequence.

### Frames and attribution

`FrameInv` says that `seen` and `event` are what the parsers make of the first
`snap` bytes of the frame. It is inductive as it stands; the four properties
follow from what the two parsers compute on a frame cut at an arbitrary byte.

*Reading a field.* No two fields of a frame have the same offset
(`FieldsOne`), because the start of each header is at or behind the end of the
one before it (`ExtFacts`, `ExtGrow`, by sums over the chain). So a parser that
reads at the offset of a field gets that field (`LinkReads`, `Ipv4Reads`,
`Ipv6Reads`, `TransportReads`), or finds that it was not captured.

*The walk.* `At(w, i)` is the state of the IPv6 walk behind i headers. One turn
takes `At(w, i)` to `At(w, i + 1)`, or ends with nothing when the capture ends
before the header does (`WalkStep`); behind the last one it stays (`SkipArrived`).
Eight turns are composed in `WalkIs`, so nine extension headers end in nothing.
Tags are the same with two turns (`StripEthernet`). `ParseFrameIs` is the
result: on frames with at most two tags and eight extension headers
`parse_frame` yields the packet, with what was captured of a TCP payload, as
soon as the transport header was captured, and nothing before (`Parsed`); on
others it yields that or nothing. Frames whose length fields are too small yield
nothing (`HonestLengths` is a condition of `Parsed`). `FromKernelIs` is the same
for the kernel program with `decode`, of frames with honest lengths.

The lemmas about reading hold of every frame; those about the packet need
`~ w.later`, since a later fragment has no transport header. `NeverMisreads`
says itself which frames it speaks of. It excludes an authentication header for
`parse_frame` because that skips it by a wrong length (the run `ipv6_ah`) and
goes on with whatever is there, which the filler may make look like a transport
header; for the kernel program it does not, since that reports no packet behind
an extension header. It asks for honest lengths of the kernel program only.

*Attribution.* `CidrContains` masks and compares; the reference compares the
first bits one by one. `SameTop` shows by a smallest counterexample that two
numbers agree in their first k bits exactly when their quotients by
2^(width - k) agree, and `SameMasked` that equal quotients are equal masked
addresses, for every width and prefix, 0 and the whole width included.
`LocalPod` then follows the order in which the endpoints are asked.

### Only model-checked

* Liveness under fairness is beyond the prover: `ExportNeverBlocks`,
  `ScrapesServed`, `SourceLive`, `DropReturns`.
* The four runs that end in a violation.

Every invariant and every safety property that a passing run checks is also
proved.

## 5. Not modelled

* Text: JSON, Prometheus and OTLP syntax, HTTP headers, messages, `--quiet`
  output, the assembly of resource attributes, the splitting of lines, CIDR
  lists, header lists and endpoints. No property here is about it.
* The packets of the synthetic script: a fixed list for demonstrations.
* The loading and attaching of the kernel program beyond one step that may
  fail, and the command line of the capture tool beyond its snap length: they
  are calls into the system with no state of their own.
* The offset field of fragments, and corrections of the wall clock during an
  eBPF capture (`ebpf.rs:96`): the code does not look at them.
* Durations are unbounded numbers: the multiplication by 10^9 in u64
  (`engine.rs:70`) is listed as a hazard.
* A capture that falls silent is outside the time bounds of the engine, which
  are in capture time: nothing in the program calls `sweep` on a timer.
* Tests, examples, deployment files and scripts of the repository.

## 6. Plan

What would extend this development, in this order:

1. Sweeps driven by a timer, if the agent gets one: the time bounds of the
   engine would then hold on a capture that falls silent.
2. The parity of backends beyond single frames: on which streams the flow state
   machines of two backends agree, as a theorem that excludes exactly the
   segments of `snapped_segments`.
3. The agent composed with the engine in one module, so that the summary's
   counts are related to what was on the wire.

------------------------------- MODULE Agent --------------------------------
(* The agent process of l4scope-agent/src/main.rs and the threads it starts: *)
(* the main thread (capture, engine, sinks), the OTLP pusher (otlp.rs) and   *)
(* the metrics server (http.rs).  They share the registry behind its mutex.  *)
(*                                                                           *)
(* Each action makes at most one access to shared state.  The engine is      *)
(* opaque here: a call returns some sequence of events from Outcomes, and    *)
(* engine counts the calls, so that stats are identified by the engine state *)
(* they describe.  wall is the wall clock: every reading is a later instant. *)
(* The capture source, the Collector and the scraping client are external.   *)
EXTENDS Registry, Sequences

CONSTANTS
    Setups,        \* [sinks, clients, packets, pushes]: see setup
    Pods,          \* the pods of this node
    Outcomes,      \* what one call of process or sweep may return
    GaugeEvery     \* gauges are refreshed every so many packets: 512 in the code

\* The events that the engine may return; a flow has one pod or none.
Returned == UNION {{o[i] : i \in DOMAIN o} : o \in Outcomes}

NoPod        == {}
OptionalPods == {NoPod} \cup {{p} : p \in Pods}

ASSUME AgentAssumption ==
    /\ \A s \in Setups : s.sinks \subseteq {"prometheus", "json", "otlp"}
                            /\ s.packets \in Nat /\ s.pushes \in Nat
    /\ GaugeEvery \in Nat \ {0}
    /\ Outcomes \subseteq Seq(Returned)
    /\ \A ev \in Returned : ev.pod \in OptionalPods

VARIABLES
    setup,         \* the configured sinks and the clients of the metrics server,
                   \* with bounds on the packets captured and the periodic pushes
    pc,            \* the main thread
    ended,         \* how the capture ended: "open", "end" or "error"
    exit_code,     \* "none" while the process runs
    packets,       \* run's local count
    pod,           \* pod of the packet at hand
    engine,        \* calls made to the engine
    pending,       \* events returned by the engine and not handled yet
    summary,       \* run's local bag of event kinds
    json,          \* [sink : "off" or "on", lines, lost]
    metrics,       \* the registry
    lock,          \* holder of its mutex
    wall,          \* the wall clock
    post,          \* for each poster, its progress through build_and_post
    pushes,        \* periodic pushes begun
    received,      \* bodies that reached the Collector
    server,        \* the metrics server thread
    backlog,       \* clients that wait to be accepted, first come first served
    page           \* the last Prometheus page, until a new connection

vars == <<setup, pc, ended, exit_code, packets, pod, engine, pending, summary, json, metrics,
          lock, wall, post, pushes, received, server, backlog, page>>

startVars   == <<setup, ended, packets, pod, engine, pending, summary, metrics, lock, backlog, page>>
captureVars == <<setup, ended, packets, pod>>
eventVars   == <<engine, pending, summary, json>>
pushVars    == <<wall, post, pushes, received>>
serverVars  == <<server, backlog, page>>
mainVars    == <<pc, exit_code, captureVars, eventVars>>

Posters == {"main", "pusher"}
Free    == "free"

\* at: "off", "asleep", "snapshot" (wants the registry), "copy" (holds it),
\* "stamp" (reads the clock), "send" and "reply".
IdlePost == [at |-> "off", start |-> 0, snap |-> NewMetrics, body |-> {}]

Init ==
    /\ setup \in Setups
    /\ pc = "config" /\ ended = "open" /\ exit_code = "none"
    /\ packets = 0 /\ pod = NoPod
    /\ engine = 0 /\ pending = <<>> /\ summary = EmptyBag
    /\ json = [sink |-> "off", lines |-> 0, lost |-> 0]
    /\ metrics = NewMetrics /\ lock = Free
    /\ wall = 1 /\ post = [w \in Posters |-> IdlePost] /\ pushes = 0 /\ received = {}
    /\ server = "off" /\ backlog = <<>> /\ page = NewMetrics

Running == exit_code = "none"

Exit(code) == pc' = "exited" /\ exit_code' = code

-----------------------------------------------------------------------------
(* Start of run: each stage goes on, degrades with a warning, or ends it.    *)

\* parse_args and the configuration file; --help ends the process at once.
LoadConfig ==
    /\ pc = "config"
    /\ \/ pc' = "serve" /\ UNCHANGED exit_code
       \/ Exit("SUCCESS")
       \/ Exit("FAILURE")
    /\ UNCHANGED <<startVars, json, pushVars, server>>

\* A server that cannot bind is left out.
ServeMetrics ==
    /\ pc = "serve"
    /\ pc' = "json"
    /\ server' = "off" \/ ("prometheus" \in setup.sinks /\ server' = "accept")
    /\ UNCHANGED <<startVars, exit_code, json, pushVars>>

OpenJson ==
    /\ pc = "json"
    /\ \/ /\ pc' = "otlp"
          /\ json' = [json EXCEPT !.sink = IF "json" \in setup.sinks THEN "on" ELSE "off"]
          /\ UNCHANGED exit_code
       \/ "json" \in setup.sinks /\ Exit("FAILURE") /\ UNCHANGED json
    /\ UNCHANGED <<startVars, pushVars, server>>

\* A pusher that has no usable target is left out.
StartOtlp ==
    /\ pc = "otlp"
    /\ pc' = "open"
    /\ \/ /\ "otlp" \in setup.sinks
          /\ post' = [post EXCEPT !["pusher"].at = "asleep", !["pusher"].start = wall]
          /\ wall' = wall + 1
       \/ UNCHANGED <<post, wall>>
    /\ UNCHANGED <<startVars, exit_code, json, pushes, received, server>>

OpenCapture ==
    /\ pc = "open"
    /\ \/ pc' = "next" /\ UNCHANGED exit_code
       \/ Exit("FAILURE")
    /\ UNCHANGED <<startVars, json, pushVars, server>>

-----------------------------------------------------------------------------
(* The capture loop of the main thread.                                      *)

NextPacket ==
    /\ pc = "next" /\ packets < setup.packets
    /\ pc' = "record"
    /\ packets' = packets + 1
    /\ pod' \in OptionalPods
    /\ UNCHANGED <<setup, ended, exit_code, eventVars, metrics, lock, pushVars, serverVars>>

\* The end of the stream and a capture error leave the loop in the same way.
CaptureEnds ==
    /\ pc = "next"
    /\ pc' = "sweep"
    /\ ended' \in {"end", "error"}
    /\ UNCHANGED <<setup, exit_code, packets, pod, eventVars, metrics, lock, pushVars, serverVars>>

CountPacket ==
    /\ pc = "record" /\ lock = Free
    /\ pc' = "process"
    /\ metrics' = RecordPacket(metrics, pod)
    /\ pod' = NoPod
    /\ UNCHANGED <<setup, exit_code, ended, packets, eventVars, lock, pushVars, serverVars>>

\* engine.process, or the final engine.sweep.
CallEngine ==
    /\ pc \in {"process", "sweep"}
    /\ pc' = "handle"
    /\ engine' = engine + 1
    /\ pending' \in Outcomes
    /\ UNCHANGED <<exit_code, captureVars, summary, json, metrics, lock, pushVars, serverVars>>

\* handle_event: registry, JSON sink (a failed write is ignored), summary.
HandleEvent ==
    /\ pc = "handle" /\ pending # <<>> /\ lock = Free
    /\ metrics' = RecordEvent(metrics, Head(pending))
    /\ \/ json' = [json EXCEPT !.lines = IF json.sink = "on" THEN @ + 1 ELSE @]
       \/ json.sink = "on" /\ json' = [json EXCEPT !.lost = @ + 1]
    /\ summary' = CountFor(summary, {Head(pending).kind})
    /\ pending' = Tail(pending)
    /\ UNCHANGED <<pc, exit_code, captureVars, engine, lock, pushVars, serverVars>>

AfterEventsNoFinalGauges ==         \* mutant: the gauges are not refreshed at the end
    IF ended # "open" THEN "flush"
    ELSE IF packets % GaugeEvery = 0 THEN "gauges" ELSE "next"

AfterEventsFinalGaugesOnly ==       \* mutant: no periodic refresh
    IF ended # "open" THEN "gauges" ELSE "next"

\* Where the main thread goes once the events of a call are handled.
AfterEvents ==
    IF ended # "open" \/ packets % GaugeEvery = 0 THEN "gauges" ELSE "next"

EventsHandled ==
    /\ pc = "handle" /\ pending = <<>>
    /\ pc' = AfterEvents
    /\ UNCHANGED <<exit_code, captureVars, eventVars, metrics, lock, pushVars, serverVars>>

UpdateGaugesAndGoOn ==              \* mutant: the end of the capture is forgotten
    /\ pc = "gauges" /\ lock = Free
    /\ metrics' = SetGauges(metrics, engine)
    /\ pc' = "next"
    /\ UNCHANGED <<exit_code, captureVars, eventVars, lock, pushVars, serverVars>>

UpdateGauges ==
    /\ pc = "gauges" /\ lock = Free
    /\ metrics' = SetGauges(metrics, engine)
    /\ pc' = IF ended = "open" THEN "next" ELSE "flush"
    /\ UNCHANGED <<exit_code, captureVars, eventVars, lock, pushVars, serverVars>>

\* The final push, when the pusher was started; it reads its own start time.
BeginFlush ==
    /\ pc = "flush" /\ post["pusher"].at # "off"
    /\ pc' = "flushing"
    /\ post' = [post EXCEPT !["main"].at = "snapshot", !["main"].start = wall]
    /\ wall' = wall + 1
    /\ UNCHANGED <<exit_code, captureVars, eventVars, metrics, lock, pushes, received, serverVars>>

FinishAfterPusher ==                \* mutant: the exit waits for the pusher's post
    /\ \/ pc = "flush" /\ post["pusher"].at = "off"
       \/ pc = "flushing" /\ post["main"].at = "off" /\ post["pusher"].at = "asleep"
    /\ Exit("SUCCESS")
    /\ UNCHANGED <<captureVars, eventVars, metrics, lock, pushVars, serverVars>>

\* run returns Ok whatever the capture and the flush did.
Finish ==
    /\ \/ pc = "flush" /\ post["pusher"].at = "off"
       \/ pc = "flushing" /\ post["main"].at = "off"
    /\ Exit("SUCCESS")
    /\ UNCHANGED <<captureVars, eventVars, metrics, lock, pushVars, serverVars>>

-----------------------------------------------------------------------------
(* build_and_post, run by the pusher and by the final flush.                 *)

\* The pusher's sleep ends.
Wake ==
    /\ Running /\ post["pusher"].at = "asleep" /\ pushes < setup.pushes
    /\ pushes' = pushes + 1
    /\ post' = [post EXCEPT !["pusher"].at = "snapshot"]
    /\ UNCHANGED <<mainVars, metrics, lock, wall, received, serverVars>>

LockSnapshot(w) ==
    /\ Running /\ post[w].at = "snapshot" /\ lock = Free
    /\ lock' = w
    /\ post' = [post EXCEPT ![w].at = "copy"]
    /\ UNCHANGED <<mainVars, metrics, wall, pushes, received, serverVars>>

CopySnapshotAndReset(w) ==          \* mutant: a snapshot drains the registry
    /\ Running /\ post[w].at = "copy"
    /\ post' = [post EXCEPT ![w].at = "stamp", ![w].snap = metrics]
    /\ metrics' = NewMetrics
    /\ lock' = Free
    /\ UNCHANGED <<mainVars, wall, pushes, received, serverVars>>

\* Registry::snapshot returns an owned copy and drops the guard.
CopySnapshot(w) ==
    /\ Running /\ post[w].at = "copy"
    /\ post' = [post EXCEPT ![w].at = "stamp", ![w].snap = metrics]
    /\ lock' = Free
    /\ UNCHANGED <<mainVars, metrics, wall, pushes, received, serverVars>>

Stamp(w) ==
    /\ Running /\ post[w].at = "stamp"
    /\ post' = [post EXCEPT ![w].at = "send", ![w].snap = NewMetrics,
                            ![w].body = {BuildBody(post[w].snap, post[w].start, wall)}]
    /\ wall' = wall + 1
    /\ UNCHANGED <<mainVars, metrics, lock, pushes, received, serverVars>>

\* post: the body reaches the Collector, or connecting or writing fails.
Send(w) ==
    /\ Running /\ post[w].at = "send"
    /\ received' \in {received, received \cup post[w].body}
    /\ post' = [post EXCEPT ![w].at = "reply", ![w].body = {}]
    /\ UNCHANGED <<mainVars, metrics, lock, wall, pushes, serverVars>>

\* A status line, a read time-out or an earlier error: the push is over and is
\* not repeated.
Return(w) ==
    /\ Running /\ post[w].at = "reply"
    /\ post' = [post EXCEPT ![w].at = IF w = "pusher" THEN "asleep" ELSE "off"]
    /\ UNCHANGED <<mainVars, metrics, lock, wall, pushes, received, serverVars>>

-----------------------------------------------------------------------------
(* The metrics server: one connection at a time, without time-outs.          *)

\* A client connects; the operating system queues it.
Connect(c) ==
    /\ Running /\ server # "off" /\ \A i \in DOMAIN backlog : backlog[i] # c
    /\ backlog' = Append(backlog, c)
    /\ UNCHANGED <<mainVars, metrics, lock, pushVars, server, page>>

Accept ==
    /\ Running /\ server = "accept" /\ backlog # <<>>
    /\ server' = "read" /\ backlog' = Tail(backlog) /\ page' = NewMetrics
    /\ UNCHANGED <<mainVars, metrics, lock, pushVars>>

ReadRequestOrStop ==                \* mutant: a connection that fails ends the accept loop
    /\ Running /\ server = "read"
    /\ server' \in {"render", "write", "off"}
    /\ UNCHANGED <<mainVars, metrics, lock, pushVars, backlog, page>>

\* The request is read: for the metrics, or for another path.  A connection that
\* fails is given up.
ReadRequest ==
    /\ Running /\ server = "read"
    /\ server' \in {"render", "write", "accept"}
    /\ UNCHANGED <<mainVars, metrics, lock, pushVars, backlog, page>>

LockPage ==
    /\ Running /\ server = "render" /\ lock = Free
    /\ lock' = "server" /\ server' = "copy"
    /\ UNCHANGED <<mainVars, metrics, pushVars, backlog, page>>

\* The page is rendered under the guard.
Render ==
    /\ Running /\ server = "copy"
    /\ page' = RenderPrometheus(metrics)
    /\ lock' = Free /\ server' = "write"
    /\ UNCHANGED <<mainVars, metrics, pushVars, backlog>>

\* The response is written, or the write fails.
WriteResponse ==
    /\ Running /\ server = "write"
    /\ server' = "accept"
    /\ UNCHANGED <<mainVars, metrics, lock, pushVars, backlog, page>>

-----------------------------------------------------------------------------

Startup == LoadConfig \/ ServeMetrics \/ OpenJson \/ StartOtlp \/ OpenCapture

\* Steps of the main thread that need nothing from outside, or only the mutex.
MainLocal  == CallEngine \/ EventsHandled \/ BeginFlush \/ Finish
MainLocked == CountPacket \/ HandleEvent \/ UpdateGauges \/ LockSnapshot("main")

Poster(w) == LockSnapshot(w) \/ CopySnapshot(w) \/ Stamp(w) \/ Send(w) \/ Return(w)
Server    == Accept \/ ReadRequest \/ LockPage \/ Render \/ WriteResponse

\* The process is gone.
Exited == ~ Running /\ UNCHANGED vars

Next ==
    \/ Startup \/ NextPacket \/ CaptureEnds
    \/ MainLocal \/ CountPacket \/ HandleEvent \/ UpdateGauges
    \/ Wake \/ \E w \in Posters : Poster(w)
    \/ Server \/ \E c \in setup.clients : Connect(c)
    \/ Exited

(* The main thread runs, gets the mutex if it is released again and again,   *)
(* and its own post ends (connect, write and read are bounded by time-outs). *)
(* A thread that holds the mutex runs, and so does the server while it waits *)
(* for no client.  Nothing is assumed of the capture, of the pusher's post   *)
(* or of a client.                                                           *)
Fairness ==
    /\ WF_vars(MainLocal)
    /\ SF_vars(MainLocked)
    /\ WF_vars(Stamp("main") \/ Send("main") \/ Return("main"))
    /\ \A w \in Posters : WF_vars(CopySnapshot(w))
    /\ WF_vars(Accept) /\ SF_vars(LockPage) /\ WF_vars(Render)

Spec == Init /\ [][Next]_vars /\ Fairness

-----------------------------------------------------------------------------
(* Properties.                                                               *)

(* Every thread is at a known place of its code, no packet is counted beyond *)
(* those captured, and the engine is called at most once per packet and once *)
(* more for the final sweep (main.rs:187-213).                               *)
TypeOK ==
    /\ pc \in {"config", "serve", "json", "otlp", "open", "next", "record", "process",
               "handle", "gauges", "sweep", "flush", "flushing", "exited"}
    /\ ended \in {"open", "end", "error"}
    /\ exit_code \in {"none", "SUCCESS", "FAILURE"}
    /\ packets \in 0 .. setup.packets /\ engine \in 0 .. packets + 1
    /\ lock \in {Free, "server"} \cup Posters
    /\ \A w \in Posters : post[w].at \in {"off", "asleep", "snapshot", "copy", "stamp", "send", "reply"}
    /\ server \in {"off", "accept", "read", "render", "copy", "write"}
    /\ metrics.packets_total \in Nat /\ metrics.events_total \in Nat

(* Whatever the threads interleave, a scraped page and every snapshot are    *)
(* coherent: the total of events is the sum of the kinds, and what is        *)
(* attributed to pods is part of what the node counted (metrics.rs:56-74).   *)
PagesCoherent ==
    Coherent(page) /\ \A w \in Posters : post[w].at = "stamp" => Coherent(post[w].snap)

(* A push that is lost is made good by the next: among the bodies of the     *)
(* pusher, the one stamped later counts at least as much in every series.    *)
PushesCumulative ==
    \A a, b \in received :
        a.start = b.start /\ a.now <= b.now =>
            /\ a.packets <= b.packets
            /\ a.events \sqsubseteq b.events
            /\ a.pod_events \sqsubseteq b.pod_events
            /\ a.pod_packets \sqsubseteq b.pod_packets

(* A short run still exports everything: a final push that reaches the       *)
(* Collector carries every packet, every event of the final sweep included,  *)
(* and the gauges of the engine after that sweep (main.rs:213-226).          *)
FinalFlushComplete ==
    \A b \in received :
        pc = "exited" /\ b.start # post["pusher"].start =>
            /\ b.packets = packets
            /\ Total(b.events) = Total(summary)
            /\ b.gauges = engine

(* When the main thread waits for a packet, the gauges lag behind the engine *)
(* by less than GaugeEvery packets, and every packet and event was counted   *)
(* in each sink once: counters, summary and the event log, where a line that *)
(* could not be written counts as tried (main.rs:187-203, 240-260).          *)
SinksUpToDate ==
    pc = "next" =>
        /\ engine - metrics.gauges < GaugeEvery
        /\ metrics.packets_total = packets
        /\ metrics.events_total = Total(summary)
        /\ json.sink = "on" => json.lines + json.lost = metrics.events_total

(* Exporters never hold up the capture: once the main thread has a packet or *)
(* the end of the stream it gets back to the capture or exits, however long  *)
(* a post or a scrape hangs.                                                 *)
ExportNeverBlocks ==
    pc \in {"record", "process", "handle", "gauges", "sweep", "flush", "flushing"}
        ~> pc \in {"next", "exited"}

(* The server serves its clients one after the other: as long as each client *)
(* that it reads from or writes to completes, hangs up or fails, every       *)
(* client that waits is served in turn, whatever the main thread and the     *)
(* pusher do with the registry (http.rs:18-62).                              *)
ScrapesServed ==
    (\A at \in {"read", "write"} : server = at ~> server # at \/ ~ Running)
        => \A c \in UNION {s.clients : s \in Setups} :
               (\E i \in DOMAIN backlog : backlog[i] = c)
                   ~> ~ Running \/ ~ \E i \in DOMAIN backlog : backlog[i] = c

-----------------------------------------------------------------------------
(* A property that a document states and that the agent lacks.               *)

(* docs/ARCHITECTURE.md:171-172: after a capture error the agent exits with  *)
(* a non-zero code.                                                          *)
CaptureErrorFailsExit == pc = "exited" /\ ended = "error" => exit_code = "FAILURE"

=============================================================================

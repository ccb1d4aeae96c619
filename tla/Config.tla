------------------------------- MODULE Config -------------------------------
(* How the agent gets its configuration: the arguments, the file with its    *)
(* TOML subset, and the overrides, in the order of run (main.rs) and of      *)
(* Config::from_str (config.rs).                                             *)
(*                                                                           *)
(* A line is cut at its first '#', trimmed and split before it gets here:    *)
(* [kind, section, key, value], a value being [form, text].  A quoted value  *)
(* that held a '#' has lost its closing quote; its form is "cut".            *)
(* Fractions are counted in hundredths.                                      *)
EXTENDS Naturals, Sequences

CONSTANTS
    Options,      \* what an argument may be: [name] or [name, value]
    Lines,        \* what a line of the file may be
    Numerals,     \* the numerals of whole numbers, with their values
    Hundredths,   \* all numerals, with their values in hundredths
    U32Max, U64Max,
    MaxInputs     \* bound on the arguments and lines together

ASSUME ConfigAssumption == U32Max \in Nat /\ U64Max \in Nat /\ MaxInputs \in Nat

VARIABLES
    phase,      \* "args", "file", "override", "ready", "failed" or "help"
    given,      \* the arguments read so far
    args,       \* the struct Args: for each option, the set of its value
    lines,      \* the lines read so far
    section,    \* the section in force
    cfg         \* the Config

vars == <<phase, given, args, lines, section, cfg>>

BackendNames ==
    [pcap_file |-> "PcapFile", pcap |-> "PcapFile", synthetic |-> "Synthetic",
     demo |-> "Synthetic", live |-> "Live", tcpdump |-> "Live", ebpf |-> "Ebpf", etw |-> "Etw"]

\* The keys that apply knows, with their types.
Schema ==
    [capture |-> [backend |-> "backend", interface |-> "str", filter |-> "str",
                  pcap_path |-> "str", live_command |-> "str"],
     detect  |-> [flow_ttl_secs |-> "u64", retransmit_ratio_warn |-> "f64",
                  dup_ack_threshold |-> "u32", rst_storm_per_sec |-> "f64",
                  syn_backlog_threshold |-> "u32", rtt_warn_ms |-> "f64",
                  handshake_timeout_secs |-> "u64", churn_per_sec |-> "f64",
                  alert_debounce_secs |-> "u64"],
     export  |-> [prometheus_addr |-> "str", json_events |-> "str"],
     otlp    |-> [enabled |-> "bool", endpoint |-> "str", path |-> "str",
                  interval_secs |-> "u64", headers |-> "str", resource_attributes |-> "str",
                  service_name |-> "str", pod_cidrs |-> "str", pod_attribution |-> "bool"]]

Default ==
    [capture |-> [backend |-> "Synthetic", interface |-> "", filter |-> "tcp or udp",
                  pcap_path |-> "", live_command |-> ""],
     detect  |-> [flow_ttl_secs |-> 120, retransmit_ratio_warn |-> 5, dup_ack_threshold |-> 3,
                  rst_storm_per_sec |-> 2000, syn_backlog_threshold |-> 64, rtt_warn_ms |-> 25000,
                  handshake_timeout_secs |-> 3, churn_per_sec |-> 20000, alert_debounce_secs |-> 10],
     export  |-> [prometheus_addr |-> "127.0.0.1:9560", json_events |-> "stdout"],
     otlp    |-> [enabled |-> FALSE, endpoint |-> "http://localhost:4318", path |-> "/v1/metrics",
                  interval_secs |-> 15, headers |-> "", resource_attributes |-> "",
                  service_name |-> "l4scope", pod_cidrs |-> "", pod_attribution |-> FALSE]]

NoSection == ""        \* before the first section header

NoArgs == [config |-> {}, backend |-> {}, pcap |-> {}, iface |-> {}, live_cmd |-> {}, json |-> {}]

Init ==
    /\ phase = "args" /\ given = <<>> /\ args = NoArgs
    /\ lines = <<>> /\ section = NoSection /\ cfg = Default

Room == Len(given) + Len(lines) < MaxInputs

-----------------------------------------------------------------------------
(* parse_args.                                                               *)

\* An option that takes a value; the last of several counts.
TakeValue(o) ==
    /\ phase = "args" /\ Room /\ o.name \in DOMAIN args
    /\ IF "value" \in DOMAIN o
       THEN args' = [args EXCEPT ![o.name] = {o.value}] /\ UNCHANGED phase
       ELSE phase' = "failed" /\ UNCHANGED args
    /\ given' = Append(given, o)
    /\ UNCHANGED <<lines, section, cfg>>

\* One that takes none.
TakeFlag(o) ==
    /\ phase = "args" /\ Room /\ o.name \notin DOMAIN args
    /\ phase' = CASE o.name = "help" -> "help"
                  [] o.name \in {"demo", "no_metrics", "quiet"} -> "args"
                  [] OTHER -> "failed"
    /\ args' = IF o.name = "demo" THEN [args EXCEPT !.backend = {"synthetic"}] ELSE args
    /\ given' = Append(given, o)
    /\ UNCHANGED <<lines, section, cfg>>

\* The arguments are read.  A file that cannot be read fails the start.
ArgsRead ==
    /\ phase = "args"
    /\ IF args.config = {} THEN phase' = "override" ELSE phase' \in {"file", "failed"}
    /\ UNCHANGED <<given, args, lines, section, cfg>>

-----------------------------------------------------------------------------
(* Config::from_str and apply.                                               *)

\* unquote: a value without a closing quote keeps the opening one.
Unquote(v) == IF v.form = "cut" THEN "\"" ELSE v.text

\* The value of a type that a text stands for, if it stands for one.  Numbers
\* are parsed as they stand, quotes and all.
Parse(type, v) ==
    LET bare == IF v.form = "bare" THEN {v.text} ELSE {}
        int  == {Numerals[n] : n \in bare \cap DOMAIN Numerals}
    IN  CASE type = "str"     -> {Unquote(v)}
          [] type = "backend" -> {BackendNames[b] : b \in {Unquote(v)} \cap DOMAIN BackendNames}
          [] type = "bool"    -> {b = "true" : b \in {Unquote(v)} \cap {"true", "false"}}
          [] type = "u32"     -> {n \in int : n <= U32Max}
          [] type = "u64"     -> {n \in int : n <= U64Max}
          [] type = "f64"     -> {Hundredths[n] : n \in bare \cap DOMAIN Hundredths}

IsKey(sec, key) == sec \in DOMAIN Schema /\ key \in DOMAIN Schema[sec]

\* A blank line, a section, or a line that is neither that nor an assignment.
ReadOther(l) ==
    /\ phase = "file" /\ Room /\ l.kind # "assign"
    /\ lines' = Append(lines, l)
    /\ section' = IF l.kind = "section" THEN l.section ELSE section
    /\ phase' = IF l.kind = "junk" THEN "failed" ELSE "file"
    /\ UNCHANGED <<given, args, cfg>>

IgnoreUnknown(l) ==                 \* mutant: an unknown key is skipped
    /\ phase = "file" /\ Room /\ l.kind = "assign"
    /\ lines' = Append(lines, l)
    /\ \/ /\ IsKey(section, l.key)
          /\ \E v \in Parse(Schema[section][l.key], l.value) :
                cfg' = [cfg EXCEPT ![section][l.key] = v]
       \/ ~ IsKey(section, l.key) /\ UNCHANGED cfg
    /\ UNCHANGED <<phase, given, args, section>>

\* An unknown key or a value of another type ends the start.
Assign(l) ==
    /\ phase = "file" /\ Room /\ l.kind = "assign"
    /\ lines' = Append(lines, l)
    /\ LET values == IF IsKey(section, l.key) THEN Parse(Schema[section][l.key], l.value) ELSE {}
       IN  IF values = {} THEN phase' = "failed" /\ UNCHANGED cfg
           ELSE (\E v \in values : cfg' = [cfg EXCEPT ![section][l.key] = v]) /\ UNCHANGED phase
    /\ UNCHANGED <<given, args, section>>

EndOfFile ==
    /\ phase = "file"
    /\ phase' = "override"
    /\ UNCHANGED <<given, args, lines, section, cfg>>

-----------------------------------------------------------------------------
(* The overrides of run.                                                     *)

\* The value of an option if it was given, else what there is.
Or(opt, old) == IF opt = {} THEN old ELSE CHOOSE v \in opt : TRUE

BackendFirst(b) ==                  \* mutant: --backend is applied after --pcap
    IF args.backend # {} THEN BackendNames[CHOOSE n \in args.backend : TRUE]
    ELSE IF args.pcap # {} THEN "PcapFile" ELSE b

\* apply_backend, and then --pcap.
BackendOf(b) ==
    IF args.pcap # {} THEN "PcapFile"
    ELSE IF args.backend # {} THEN BackendNames[CHOOSE n \in args.backend : TRUE] ELSE b

Override ==
    /\ phase = "override"
    /\ IF args.backend \subseteq DOMAIN BackendNames
       THEN /\ phase' = "ready"
            /\ cfg' = [cfg EXCEPT !.capture.backend = BackendOf(@),
                                  !.capture.pcap_path = Or(args.pcap, @),
                                  !.capture.interface = Or(args.iface, @),
                                  !.capture.live_command = Or(args.live_cmd, @),
                                  !.export.json_events = Or(args.json, @)]
       ELSE phase' = "failed" /\ UNCHANGED cfg
    /\ UNCHANGED <<given, args, lines, section>>

Started == phase \in {"ready", "failed", "help"} /\ UNCHANGED vars

Next ==
    \/ \E o \in Options : TakeValue(o) \/ TakeFlag(o)
    \/ ArgsRead
    \/ \E l \in Lines : ReadOther(l) \/ Assign(l)
    \/ EndOfFile \/ Override \/ Started

Spec == Init /\ [][Next]_vars

-----------------------------------------------------------------------------
(* Properties.                                                               *)

\* The last of some positions, as a set.
Latest(S) == {i \in S : \A j \in S : j <= i}

\* The section that the i-th of some lines is in.
SectionAt(ls, i) ==
    LET headers == Latest({j \in 1 .. i : ls[j].kind = "section"})
    IN  IF headers = {} THEN NoSection ELSE ls[CHOOSE j \in headers : TRUE].section

\* What the lines say of a key: the value of its last assignment.
FromFile(ls, sec, key) ==
    LET places == {i \in DOMAIN ls : ls[i].kind = "assign" /\ ls[i].key = key /\ SectionAt(ls, i) = sec}
    IN  UNION {Parse(Schema[sec][key], ls[i].value) : i \in Latest(places)}

\* The value that the last of some options has.
LastSaid(opts, names) ==
    {IF opts[i].name = "demo" THEN "synthetic" ELSE opts[i].value
       : i \in Latest({j \in DOMAIN opts : opts[j].name \in names})}

\* What the command line says: the last use of an option, and --pcap before all
\* others that choose a backend.
FromArgs(opts, sec, key) ==
    CASE <<sec, key>> = <<"capture", "backend">> ->
           IF LastSaid(opts, {"pcap"}) # {} THEN {"PcapFile"}
           ELSE {BackendNames[b] : b \in LastSaid(opts, {"backend", "demo"})}
      [] <<sec, key>> = <<"capture", "pcap_path">>    -> LastSaid(opts, {"pcap"})
      [] <<sec, key>> = <<"capture", "interface">>    -> LastSaid(opts, {"iface"})
      [] <<sec, key>> = <<"capture", "live_command">> -> LastSaid(opts, {"live_cmd"})
      [] <<sec, key>> = <<"export", "json_events">>   -> LastSaid(opts, {"json"})
      [] OTHER -> {}

(* The agent starts with what it was told: every setting is what the command *)
(* line says of it, else what the last assignment in its section of the file *)
(* says, else the default, in whatever order options, sections and           *)
(* assignments come (main.rs:106-126, config.rs:168-190).                    *)
LastWordWins ==
    phase = "ready" =>
        \A sec \in DOMAIN Schema : \A key \in DOMAIN Schema[sec] :
            {cfg[sec][key]} =
                IF FromArgs(given, sec, key) # {} THEN FromArgs(given, sec, key)
                ELSE IF FromFile(lines, sec, key) # {} THEN FromFile(lines, sec, key)
                ELSE {Default[sec][key]}

(* Fail-fast (config.rs:8): an agent that starts has understood every option *)
(* and every line, each key in the section it stands in and each value as    *)
(* one of the key's type and range (config.rs:173-189, 203-269).  A section  *)
(* that does not exist is accepted as long as no key follows it.             *)
NothingIgnored ==
    phase = "ready" =>
        /\ \A i \in DOMAIN lines :
              /\ lines[i].kind # "junk"
              /\ lines[i].kind = "assign" =>
                    /\ IsKey(SectionAt(lines, i), lines[i].key)
                    /\ Parse(Schema[SectionAt(lines, i)][lines[i].key], lines[i].value) # {}
        /\ \A i \in DOMAIN given :
              /\ given[i].name \in DOMAIN NoArgs \cup {"demo", "no_metrics", "quiet"}
              /\ given[i].name \in DOMAIN NoArgs => "value" \in DOMAIN given[i]

=============================================================================

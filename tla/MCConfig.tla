------------------------------ MODULE MCConfig ------------------------------
(* TLC instance of Config: a key of every type, values that fit some types   *)
(* and not others, sections that are unknown or lack the key.                *)
EXTENDS Config, TLC

Bare(t)   == [form |-> "bare", text |-> t]
Quoted(t) == [form |-> "quoted", text |-> t]
Cut       == [form |-> "cut", text |-> ""]

Plain(k)     == [kind |-> k, section |-> "", key |-> "", value |-> Bare("")]
Section(s)   == [Plain("section") EXCEPT !.section = s]
Line(key, v) == [Plain("assign") EXCEPT !.key = key, !.value = v]

MCLines ==
    {Plain("blank"), Plain("junk"), Section("capture"), Section("detect"), Section("otlp"), Section("tls"),
     Line("backend", Quoted("ebpf")), Line("backend", Bare("tcpdump")), Line("backend", Cut),
     Line("interface", Quoted("eth0")), Line("interface", Cut),
     Line("dup_ack_threshold", Bare("5")), Line("dup_ack_threshold", Bare("70")),
     Line("flow_ttl_secs", Bare("70")), Line("flow_ttl_secs", Bare("700")),
     Line("flow_ttl_secs", Quoted("5")), Line("rtt_warn_ms", Bare("2.5")),
     Line("enabled", Quoted("true"))}

MCOptions ==
    {[name |-> "config", value |-> "file"], [name |-> "backend", value |-> "live"],
     [name |-> "backend", value |-> "bogus"], [name |-> "pcap", value |-> "trace"],
     [name |-> "iface", value |-> "en0"], [name |-> "live_cmd", value |-> "tool"],
     [name |-> "json", value |-> "off"], [name |-> "json"], [name |-> "demo"],
     [name |-> "quiet"], [name |-> "help"], [name |-> "typo"]}

MCNumerals   == ("5" :> 5) @@ ("70" :> 70) @@ ("700" :> 700)
MCHundredths == ("5" :> 500) @@ ("70" :> 7000) @@ ("700" :> 70000) @@ ("2.5" :> 250)

=============================================================================

---------------------------- MODULE ConfigProofs ----------------------------
(* Proofs that the agent starts with what it was told, for every set of      *)
(* options and lines, every numeral and any number of inputs.                *)
EXTENDS Config, TLAPS

-----------------------------------------------------------------------------
(* The shape of a configuration, and parsed values.                          *)

\* A configuration has exactly the keys that apply knows.
Shaped(c) ==
    /\ DOMAIN c = DOMAIN Schema
    /\ \A sec \in DOMAIN Schema : DOMAIN c[sec] = DOMAIN Schema[sec]

\* So has the default (config.rs:110-166).
LEMMA DefaultShape == Shaped(Default)
<1>1. DOMAIN Default = DOMAIN Schema
    BY DEF Default, Schema
<1>2. DOMAIN Schema = {"capture", "detect", "export", "otlp"}
    BY DEF Schema
<1>3. DOMAIN Default["capture"] = DOMAIN Schema["capture"]
    BY DEF Default, Schema
<1>4. DOMAIN Default["detect"] = DOMAIN Schema["detect"]
    BY DEF Default, Schema
<1>5. DOMAIN Default["export"] = DOMAIN Schema["export"]
    BY DEF Default, Schema
<1>6. DOMAIN Default["otlp"] = DOMAIN Schema["otlp"]
    BY DEF Default, Schema
<1> QED BY <1>1, <1>2, <1>3, <1>4, <1>5, <1>6 DEF Shaped

WithKey(c, sec, key, v) == [c EXCEPT ![sec][key] = v]

\* Setting one key leaves the others and the shape alone.
LEMMA SetKey ==
    ASSUME NEW c, Shaped(c), NEW sec \in DOMAIN Schema, NEW key \in DOMAIN Schema[sec], NEW v
    PROVE  /\ Shaped(WithKey(c, sec, key, v))
           /\ \A s \in DOMAIN Schema : \A k \in DOMAIN Schema[s] :
                 WithKey(c, sec, key, v)[s][k] = IF s = sec /\ k = key THEN v ELSE c[s][k]
<1> DEFINE d == [c EXCEPT ![sec][key] = v]
<1>1. DOMAIN d = DOMAIN Schema
    BY DEF Shaped
<1>2. d[sec] = [c[sec] EXCEPT ![key] = v]
    BY DEF Shaped
<1>3. \A s \in DOMAIN Schema : s # sec => d[s] = c[s]
    BY DEF Shaped
<1> HIDE DEF d
<1>4. DOMAIN d[sec] = DOMAIN Schema[sec]
    BY <1>2 DEF Shaped
<1>5. Shaped(d)
    BY <1>1, <1>3, <1>4 DEF Shaped
<1>6. ASSUME NEW s \in DOMAIN Schema, NEW k \in DOMAIN Schema[s]
      PROVE  d[s][k] = IF s = sec /\ k = key THEN v ELSE c[s][k]
    BY <1>2, <1>3 DEF Shaped
<1> QED BY <1>5, <1>6 DEF d, WithKey

AtMostOne(S) == \A x, y \in S : x = y

\* A text stands for at most one value of a type.
LEMMA ParseUnique ==
    ASSUME NEW type, NEW v,
           type \in {"str", "backend", "bool", "u32", "u64", "f64"}
    PROVE  AtMostOne(Parse(type, v))
<1> DEFINE bare == IF v.form = "bare" THEN {v.text} ELSE {}
           int  == {Numerals[n] : n \in bare \cap DOMAIN Numerals}
           text == Unquote(v)
<1>1. AtMostOne(bare)
    BY DEF AtMostOne
<1>2. AtMostOne(int)
  <2> HIDE DEF bare
  <2> QED BY <1>1 DEF AtMostOne
<1>3. AtMostOne({Hundredths[n] : n \in bare \cap DOMAIN Hundredths})
  <2> HIDE DEF bare
  <2> QED BY <1>1 DEF AtMostOne
<1>4. AtMostOne({BackendNames[b] : b \in {text} \cap DOMAIN BackendNames})
    BY DEF AtMostOne
<1>5. AtMostOne({b = "true" : b \in {text} \cap {"true", "false"}})
    BY DEF AtMostOne
<1>6. Parse(type, v) =
        CASE type = "str"     -> {text}
          [] type = "backend" -> {BackendNames[b] : b \in {text} \cap DOMAIN BackendNames}
          [] type = "bool"    -> {b = "true" : b \in {text} \cap {"true", "false"}}
          [] type = "u32"     -> {n \in int : n <= U32Max}
          [] type = "u64"     -> {n \in int : n <= U64Max}
          [] type = "f64"     -> {Hundredths[n] : n \in bare \cap DOMAIN Hundredths}
    BY DEF Parse
<1> HIDE DEF bare, int, text
<1>7. AtMostOne({text}) /\ AtMostOne({n \in int : n <= U32Max})
      /\ AtMostOne({n \in int : n <= U64Max})
    BY <1>2 DEF AtMostOne
<1> QED BY <1>3, <1>4, <1>5, <1>6, <1>7

\* Every key has one of these types.
LEMMA SchemaTypes ==
    ASSUME NEW sec \in DOMAIN Schema, NEW key \in DOMAIN Schema[sec]
    PROVE  Schema[sec][key] \in {"str", "backend", "bool", "u32", "u64", "f64"}
<1>1. sec \in {"capture", "detect", "export", "otlp"}
    BY DEF Schema
<1>2. CASE sec = "capture"
    BY <1>2 DEF Schema
<1>3. CASE sec = "detect"
    BY <1>3 DEF Schema
<1>4. CASE sec = "export"
    BY <1>4 DEF Schema
<1>5. CASE sec = "otlp"
    BY <1>5 DEF Schema
<1> QED BY <1>1, <1>2, <1>3, <1>4, <1>5

-----------------------------------------------------------------------------
(* The file, line by line.                                                   *)

\* A later position is the last of all, and there is at most one last.
LEMMA LatestAdds ==
    ASSUME NEW n \in Nat, NEW S \in SUBSET (1 .. n)
    PROVE  Latest(S \cup {n + 1}) = {n + 1}
<1>1. \A j \in S : j \in Nat /\ j <= n + 1 /\ ~ (n + 1 <= j)
    OBVIOUS
<1>2. n + 1 \in Latest(S \cup {n + 1})
    BY <1>1 DEF Latest
<1>3. \A j \in Latest(S \cup {n + 1}) : j = n + 1
    BY <1>1 DEF Latest
<1> QED BY <1>2, <1>3

\* The latest of some positions is one of them and there is at most one.
LEMMA LatestUnique ==
    ASSUME NEW n \in Nat, NEW S \in SUBSET (1 .. n)
    PROVE  AtMostOne(Latest(S)) /\ Latest(S) \subseteq S
BY DEF Latest, AtMostOne

\* The headers up to the i-th line.
HeadersTo(ls, i) == {j \in 1 .. i : ls[j].kind = "section"}

SectionUnder(ls, headers) ==
    IF headers = {} THEN NoSection ELSE ls[CHOOSE j \in headers : TRUE].section

\* The section of a line is the one of the latest header up to it.
LEMMA SectionAtIs ==
    \A ls, i : SectionAt(ls, i) = SectionUnder(ls, Latest(HeadersTo(ls, i)))
BY DEF SectionAt, HeadersTo, SectionUnder

\* A further line does not move the lines before it to another section.
LEMMA SectionStays ==
    ASSUME NEW ls \in Seq(Lines), NEW l \in Lines, NEW i \in 0 .. Len(ls)
    PROVE  SectionAt(Append(ls, l), i) = SectionAt(ls, i)
<1> DEFINE ap == Append(ls, l)
           H  == HeadersTo(ls, i)
           j0 == CHOOSE j \in Latest(H) : TRUE
<1>1. \A j \in 1 .. i : ap[j] = ls[j]
    OBVIOUS
<1> HIDE DEF ap
<1>2. HeadersTo(ap, i) = H
    BY <1>1 DEF HeadersTo
<1>3. SectionAt(ap, i) = IF Latest(H) = {} THEN NoSection ELSE ap[j0].section
    BY <1>2, SectionAtIs DEF SectionUnder
<1>4. SectionAt(ls, i) = IF Latest(H) = {} THEN NoSection ELSE ls[j0].section
    BY SectionAtIs DEF SectionUnder
<1>5. Latest(H) # {} => j0 \in 1 .. i
  <2>1. Latest(H) \subseteq 1 .. i
      BY DEF Latest, HeadersTo
  <2> HIDE DEF H
  <2> QED BY <2>1
<1> HIDE DEF H, j0
<1> QED BY <1>1, <1>3, <1>4, <1>5 DEF ap

\* A header line changes the section in force, and no other line does.
LEMMA SectionMoves ==
    ASSUME NEW ls \in Seq(Lines), NEW l \in Lines
    PROVE  SectionAt(Append(ls, l), Len(ls) + 1) =
             IF l.kind = "section" THEN l.section ELSE SectionAt(ls, Len(ls))
<1> DEFINE ap == Append(ls, l)
           n  == Len(ls)
           H  == HeadersTo(ls, n)
<1>1. n \in Nat /\ ap[n + 1] = l /\ \A j \in 1 .. n : ap[j] = ls[j]
    OBVIOUS
<1>2. SectionAt(ap, n) = SectionAt(ls, n)
    BY SectionStays
<1> HIDE DEF ap, n
<1>3. HeadersTo(ap, n + 1) = IF l.kind = "section" THEN H \cup {n + 1} ELSE HeadersTo(ap, n)
  <2>1. 1 .. n + 1 = (1 .. n) \cup {n + 1}
      BY <1>1
  <2> QED BY <1>1, <2>1 DEF HeadersTo
<1>4. SectionAt(ap, n + 1) = SectionUnder(ap, Latest(HeadersTo(ap, n + 1)))
    BY SectionAtIs
<1>5. CASE l.kind = "section"
  <2>1. Latest(HeadersTo(ap, n + 1)) = {n + 1}
    <3>1. H \in SUBSET (1 .. n)
        BY DEF HeadersTo
    <3> HIDE DEF H
    <3> QED BY <1>1, <1>3, <1>5, <3>1, LatestAdds
  <2>2. (CHOOSE j \in {n + 1} : TRUE) = n + 1
      OBVIOUS
  <2> QED BY <1>1, <1>4, <1>5, <2>1, <2>2 DEF ap, n, SectionUnder
<1>6. CASE l.kind # "section"
  <2>1. SectionAt(ap, n + 1) = SectionAt(ap, n)
      BY <1>3, <1>4, <1>6, SectionAtIs
  <2> QED BY <1>2, <1>6, <2>1 DEF ap, n
<1> QED BY <1>5, <1>6

\* Where a key is assigned.
Places(ls, sec, key) ==
    {i \in DOMAIN ls : ls[i].kind = "assign" /\ ls[i].key = key /\ SectionAt(ls, i) = sec}

\* An assignment becomes the last word on its key in the section in force, and
\* nothing else changes what the file says.
LEMMA FromFileAppend ==
    ASSUME NEW ls \in Seq(Lines), NEW l \in Lines, NEW sec, NEW key
    PROVE  FromFile(Append(ls, l), sec, key) =
             IF l.kind = "assign" /\ l.key = key /\ SectionAt(ls, Len(ls)) = sec
             THEN Parse(Schema[sec][key], l.value)
             ELSE FromFile(ls, sec, key)
<1> DEFINE ap == Append(ls, l)
           n  == Len(ls)
           P  == Places(ls, sec, key)
           Q  == Places(ap, sec, key)
           hit == l.kind = "assign" /\ l.key = key /\ SectionAt(ls, n) = sec
           says(v) == Parse(Schema[sec][key], v)
<1>1. /\ n \in Nat /\ DOMAIN ls = 1 .. n /\ DOMAIN ap = (1 .. n) \cup {n + 1}
      /\ ap[n + 1] = l /\ \A j \in 1 .. n : ap[j] = ls[j]
    OBVIOUS
<1>2. \A j \in 1 .. n : SectionAt(ap, j) = SectionAt(ls, j)
    BY SectionStays
<1>3. l.kind = "assign" => SectionAt(ap, n + 1) = SectionAt(ls, n)
    BY SectionMoves
<1> HIDE DEF ap, n
<1>4. Q = IF hit THEN P \cup {n + 1} ELSE P
    BY <1>1, <1>2, <1>3 DEF Places
<1>5. P \subseteq 1 .. n
    BY <1>1 DEF Places
<1>6. /\ FromFile(ap, sec, key) = UNION {says(ap[i].value) : i \in Latest(Q)}
      /\ FromFile(ls, sec, key) = UNION {says(ls[i].value) : i \in Latest(P)}
    BY DEF FromFile, Places
<1> HIDE DEF P, Q, says
<1>7. CASE hit
  <2>1. Latest(Q) = {n + 1}
      BY <1>1, <1>4, <1>5, <1>7, LatestAdds
  <2>2. FromFile(ap, sec, key) = says(l.value)
      BY <1>1, <1>6, <2>1
  <2> QED BY <1>7, <2>2 DEF ap, n, says
<1>8. CASE ~ hit
  <2>1. Latest(Q) = Latest(P) /\ Latest(P) \subseteq 1 .. n
      BY <1>4, <1>5, <1>8 DEF Latest
  <2>2. {says(ap[i].value) : i \in Latest(Q)} = {says(ls[i].value) : i \in Latest(P)}
      BY <1>1, <2>1
  <2> QED BY <1>6, <1>8, <2>2 DEF ap, n
<1> QED BY <1>7, <1>8 DEF n, ap

-----------------------------------------------------------------------------
(* The command line, option by option.                                       *)

\* The value that an option gives.
ValueOf(o) == IF o.name = "demo" THEN "synthetic" ELSE o.value

\* An option that is one of the names becomes the last word on them.
LEMMA LastSaidAppend ==
    ASSUME NEW opts \in Seq(Options), NEW o \in Options, NEW names
    PROVE  LastSaid(Append(opts, o), names) =
             IF o.name \in names THEN {ValueOf(o)} ELSE LastSaid(opts, names)
<1> DEFINE ap == Append(opts, o)
           n  == Len(opts)
           P  == {j \in DOMAIN opts : opts[j].name \in names}
           Q  == {j \in DOMAIN ap : ap[j].name \in names}
<1>1. /\ n \in Nat /\ DOMAIN opts = 1 .. n /\ DOMAIN ap = (1 .. n) \cup {n + 1}
      /\ ap[n + 1] = o /\ \A j \in 1 .. n : ap[j] = opts[j]
    OBVIOUS
<1> HIDE DEF ap, n
<1>2. Q = IF o.name \in names THEN P \cup {n + 1} ELSE P
    BY <1>1
<1>3. P \subseteq 1 .. n
    BY <1>1
<1>4. /\ LastSaid(ap, names) = {ValueOf(ap[i]) : i \in Latest(Q)}
      /\ LastSaid(opts, names) = {ValueOf(opts[i]) : i \in Latest(P)}
    BY DEF LastSaid, ValueOf
<1> HIDE DEF P, Q
<1>5. CASE o.name \in names
  <2>1. Latest(Q) = {n + 1}
      BY <1>1, <1>2, <1>3, <1>5, LatestAdds
  <2> QED BY <1>1, <1>4, <1>5, <2>1 DEF ap
<1>6. CASE o.name \notin names
  <2>1. Latest(Q) = Latest(P) /\ Latest(P) \subseteq 1 .. n
      BY <1>2, <1>3, <1>6 DEF Latest
  <2>2. {ValueOf(ap[i]) : i \in Latest(Q)} = {ValueOf(opts[i]) : i \in Latest(P)}
      BY <1>1, <2>1
  <2> QED BY <1>4, <1>6, <2>2 DEF ap
<1> QED BY <1>5, <1>6

\* The options say at most one thing.
LEMMA LastSaidUnique ==
    ASSUME NEW opts \in Seq(Options), NEW names
    PROVE  AtMostOne(LastSaid(opts, names))
<1> DEFINE P == {j \in DOMAIN opts : opts[j].name \in names}
<1>1. Len(opts) \in Nat /\ P \in SUBSET (1 .. Len(opts))
    OBVIOUS
<1>2. LastSaid(opts, names) = {ValueOf(opts[i]) : i \in Latest(P)}
    BY DEF LastSaid, ValueOf
<1> HIDE DEF P
<1>3. AtMostOne(Latest(P))
    BY <1>1, LatestUnique
<1> QED BY <1>2, <1>3 DEF AtMostOne

-----------------------------------------------------------------------------
(* The inductive invariant.                                                  *)

\* The options that set a field of Args.
Names(n) == IF n = "backend" THEN {"backend", "demo"} ELSE {n}

LineUnderstood(ls, i) ==
    /\ ls[i].kind # "junk"
    /\ ls[i].kind = "assign" =>
          /\ IsKey(SectionAt(ls, i), ls[i].key)
          /\ Parse(Schema[SectionAt(ls, i)][ls[i].key], ls[i].value) # {}

OptionUnderstood(o) ==
    /\ o.name \in DOMAIN NoArgs \cup {"demo", "no_metrics", "quiet"}
    /\ o.name \in DOMAIN NoArgs => "value" \in DOMAIN o

AllUnderstood ==
    /\ \A i \in DOMAIN lines : LineUnderstood(lines, i)
    /\ \A i \in DOMAIN given : OptionUnderstood(given[i])

\* What a setting is while the command line has not been heard.
FileOrDefault(sec, key) ==
    IF FromFile(lines, sec, key) # {} THEN FromFile(lines, sec, key) ELSE {Default[sec][key]}

Starting == {"args", "file", "override"}

ArgsAreLast == \A n \in DOMAIN NoArgs : args[n] = LastSaid(given, Names(n))

FileIsLast ==
    \A sec \in DOMAIN Schema : \A key \in DOMAIN Schema[sec] :
        {cfg[sec][key]} = FileOrDefault(sec, key)

(* Between any two steps of the start, args holds the last word of the       *)
(* options read, cfg that of the lines read, section the section in force,   *)
(* and neither an option nor a line has been passed over.                    *)
ConfigInv ==
    /\ lines \in Seq(Lines) /\ given \in Seq(Options)
    /\ Shaped(cfg) /\ DOMAIN args = DOMAIN NoArgs
    /\ section = SectionAt(lines, Len(lines))
    /\ phase \in Starting \cup {"ready"} => AllUnderstood
    /\ phase \in Starting => ArgsAreLast /\ FileIsLast
    /\ LastWordWins

-----------------------------------------------------------------------------
(* It holds at the start.                                                    *)

\* The fields of the parsed arguments.
LEMMA NoArgsDomain ==
    DOMAIN NoArgs = {"config", "backend", "pcap", "iface", "live_cmd", "json"}
BY DEF NoArgs

\* The initial states satisfy the invariant.
LEMMA ConfigInitInv == Init => ConfigInv
<1> SUFFICES ASSUME Init PROVE ConfigInv
    OBVIOUS
<1>1. lines \in Seq(Lines) /\ given \in Seq(Options) /\ Len(lines) = 0
      /\ DOMAIN lines = {} /\ DOMAIN given = {}
    BY DEF Init
<1>2. Shaped(cfg) /\ args = NoArgs
    BY DefaultShape DEF Init
<1>3. section = SectionAt(lines, Len(lines))
  <2>1. HeadersTo(lines, 0) = {}
      BY DEF HeadersTo
  <2>2. Latest({}) = {}
      BY DEF Latest
  <2> QED BY <1>1, <2>1, <2>2, SectionAtIs DEF Init, SectionUnder
<1>4. AllUnderstood
    BY <1>1 DEF AllUnderstood
<1>5. ArgsAreLast
  <2>1. \A names : LastSaid(given, names) = {}
      BY <1>1 DEF LastSaid, Latest
  <2>2. \A n \in DOMAIN NoArgs : NoArgs[n] = {}
      BY DEF NoArgs
  <2> QED BY <1>2, <2>1, <2>2 DEF ArgsAreLast
<1>6. FileIsLast
  <2>1. \A sec, key : FromFile(lines, sec, key) = {}
      BY <1>1 DEF FromFile, Latest
  <2>2. cfg = Default
      BY DEF Init
  <2> QED BY <2>1, <2>2 DEF FileIsLast, FileOrDefault
<1>7. LastWordWins
    BY DEF LastWordWins, Init
<1> QED BY <1>1, <1>2, <1>3, <1>4, <1>5, <1>6, <1>7 DEF ConfigInv

-----------------------------------------------------------------------------
(* Every option preserves it.                                                *)

\* The part of the invariant that the options have nothing to do with.
LEMMA OptionFrame ==
    ASSUME ConfigInv, phase = "args", NEW o \in Options,
           given' = Append(given, o), UNCHANGED <<lines, section, cfg>>
    PROVE  /\ lines' \in Seq(Lines) /\ given' \in Seq(Options)
           /\ Shaped(cfg') /\ section' = SectionAt(lines', Len(lines'))
           /\ FileIsLast'
           /\ OptionUnderstood(o) => AllUnderstood'
<1>1. given \in Seq(Options) /\ lines \in Seq(Lines) /\ AllUnderstood /\ FileIsLast
    BY DEF ConfigInv, Starting
<1>2. given' \in Seq(Options)
    BY <1>1
<1>3. FileIsLast'
    BY <1>1 DEF FileIsLast, FileOrDefault
<1>4. ASSUME OptionUnderstood(o) PROVE AllUnderstood'
  <2>1. \A i \in DOMAIN given' : given'[i] = o \/ (i \in DOMAIN given /\ given'[i] = given[i])
      BY <1>1
  <2>2. \A i \in DOMAIN given' : OptionUnderstood(given'[i])
      BY <1>1, <1>4, <2>1 DEF AllUnderstood
  <2>3. \A i \in DOMAIN lines' : LineUnderstood(lines', i)
      BY <1>1 DEF AllUnderstood
  <2> QED BY <2>2, <2>3 DEF AllUnderstood
<1> QED BY <1>1, <1>2, <1>3, <1>4 DEF ConfigInv

\* An option with a value preserves the invariant (parse_args).
LEMMA TakeValueInv ==
    ASSUME ConfigInv, NEW o \in Options, TakeValue(o)
    PROVE  ConfigInv'
<1>1. /\ phase = "args" /\ o.name \in DOMAIN NoArgs /\ given' = Append(given, o)
      /\ UNCHANGED <<lines, section, cfg>>
    BY DEF TakeValue, ConfigInv
<1>2. /\ lines' \in Seq(Lines) /\ given' \in Seq(Options)
      /\ Shaped(cfg') /\ section' = SectionAt(lines', Len(lines'))
      /\ FileIsLast' /\ (OptionUnderstood(o) => AllUnderstood')
    BY <1>1, OptionFrame
<1>3. given \in Seq(Options) /\ DOMAIN args = DOMAIN NoArgs /\ ArgsAreLast
    BY <1>1 DEF ConfigInv, Starting
<1>4. CASE "value" \in DOMAIN o
  <2>1. args' = [args EXCEPT ![o.name] = {o.value}] /\ phase' = "args"
      BY <1>1, <1>4 DEF TakeValue
  <2>2. OptionUnderstood(o)
      BY <1>1, <1>4 DEF OptionUnderstood
  <2>3. \A n \in DOMAIN NoArgs : o.name \in Names(n) <=> n = o.name
      BY <1>1, NoArgsDomain DEF Names
  <2>4. ValueOf(o) = o.value
      BY <1>1, NoArgsDomain DEF ValueOf
  <2>5. \A n \in DOMAIN NoArgs : args'[n] = IF n = o.name THEN {o.value} ELSE args[n]
      BY <1>1, <1>3, <2>1
  <2>6. ASSUME NEW n \in DOMAIN NoArgs
        PROVE  args'[n] = LastSaid(given', Names(n))
    <3>1. LastSaid(given', Names(n)) =
            IF o.name \in Names(n) THEN {ValueOf(o)} ELSE LastSaid(given, Names(n))
        BY <1>1, <1>3, LastSaidAppend
    <3> QED BY <1>3, <2>3, <2>4, <2>5, <3>1 DEF ArgsAreLast
  <2>7. ArgsAreLast'
      BY <2>6 DEF ArgsAreLast
  <2>8. DOMAIN args' = DOMAIN NoArgs
      BY <1>3, <2>1
  <2>9. LastWordWins'
      BY <2>1 DEF LastWordWins
  <2> QED BY <1>2, <2>2, <2>7, <2>8, <2>9 DEF ConfigInv
<1>5. CASE "value" \notin DOMAIN o
  <2>1. args' = args /\ phase' = "failed"
      BY <1>1, <1>5 DEF TakeValue
  <2>2. LastWordWins'
      BY <2>1 DEF LastWordWins
  <2> QED BY <1>2, <1>3, <2>1, <2>2 DEF ConfigInv, Starting
<1> QED BY <1>4, <1>5

\* A flag preserves the invariant (parse_args).
LEMMA TakeFlagInv ==
    ASSUME ConfigInv, NEW o \in Options, TakeFlag(o)
    PROVE  ConfigInv'
<1>1. /\ phase = "args" /\ o.name \notin DOMAIN NoArgs /\ given' = Append(given, o)
      /\ UNCHANGED <<lines, section, cfg>>
      /\ args' = IF o.name = "demo" THEN [args EXCEPT !.backend = {"synthetic"}] ELSE args
    BY DEF TakeFlag, ConfigInv
<1>2. /\ lines' \in Seq(Lines) /\ given' \in Seq(Options)
      /\ Shaped(cfg') /\ section' = SectionAt(lines', Len(lines'))
      /\ FileIsLast' /\ (OptionUnderstood(o) => AllUnderstood')
    BY <1>1, OptionFrame
<1>3. given \in Seq(Options) /\ DOMAIN args = DOMAIN NoArgs /\ ArgsAreLast
    BY <1>1 DEF ConfigInv, Starting
<1>4. /\ phase' \in {"help", "args", "failed"}
      /\ phase' = "args" => o.name \in {"demo", "no_metrics", "quiet"}
    BY DEF TakeFlag
<1>5. phase' = "args" => OptionUnderstood(o)
    BY <1>1, <1>4 DEF OptionUnderstood
<1>6. ASSUME NEW n \in DOMAIN NoArgs
      PROVE  args'[n] = LastSaid(given', Names(n))
  <2>1. LastSaid(given', Names(n)) =
          IF o.name \in Names(n) THEN {ValueOf(o)} ELSE LastSaid(given, Names(n))
      BY <1>1, <1>3, LastSaidAppend
  <2>2. args[n] = LastSaid(given, Names(n))
      BY <1>3 DEF ArgsAreLast
  <2>3. CASE o.name = "demo"
    <3>1. "demo" \in Names(n) <=> n = "backend"
        BY <1>1, <2>3 DEF Names
    <3>2. ValueOf(o) = "synthetic"
        BY <2>3 DEF ValueOf
    <3>3. args'[n] = IF n = "backend" THEN {"synthetic"} ELSE args[n]
        BY <1>1, <1>3, <2>3
    <3> QED BY <2>1, <2>2, <2>3, <3>1, <3>2, <3>3
  <2>4. CASE o.name # "demo"
    <3>1. o.name \notin Names(n)
        BY <1>1, <2>4, NoArgsDomain DEF Names
    <3> QED BY <1>1, <2>1, <2>2, <2>4, <3>1
  <2> QED BY <2>3, <2>4
<1>7. ArgsAreLast'
    BY <1>6 DEF ArgsAreLast
<1>8. DOMAIN args' = DOMAIN NoArgs
    BY <1>1, <1>3
<1>9. LastWordWins'
    BY <1>4 DEF LastWordWins
<1> QED BY <1>2, <1>4, <1>5, <1>7, <1>8, <1>9 DEF ConfigInv, Starting

-----------------------------------------------------------------------------
(* Every line preserves it.                                                  *)

\* The part of the invariant that does not depend on what the line sets.
LEMMA LineFrame ==
    ASSUME ConfigInv, phase = "file", NEW l \in Lines,
           lines' = Append(lines, l), UNCHANGED <<given, args>>,
           section' = IF l.kind = "section" THEN l.section ELSE section
    PROVE  /\ lines' \in Seq(Lines) /\ given' \in Seq(Options)
           /\ DOMAIN args' = DOMAIN NoArgs /\ ArgsAreLast'
           /\ section' = SectionAt(lines', Len(lines'))
           /\ (/\ l.kind # "junk"
               /\ l.kind = "assign" => /\ IsKey(section, l.key)
                                       /\ Parse(Schema[section][l.key], l.value) # {})
              => AllUnderstood'
<1>1. /\ given \in Seq(Options) /\ lines \in Seq(Lines) /\ AllUnderstood /\ ArgsAreLast
      /\ section = SectionAt(lines, Len(lines)) /\ DOMAIN args = DOMAIN NoArgs
    BY DEF ConfigInv, Starting
<1> DEFINE n == Len(lines)
<1>2. /\ n \in Nat /\ lines' \in Seq(Lines) /\ Len(lines') = n + 1
      /\ DOMAIN lines = 1 .. n /\ DOMAIN lines' = (1 .. n) \cup {n + 1}
      /\ lines'[n + 1] = l /\ \A i \in 1 .. n : lines'[i] = lines[i]
    BY <1>1
<1>3. SectionAt(lines', n + 1) = IF l.kind = "section" THEN l.section ELSE section
    BY <1>1, SectionMoves
<1>4. \A i \in 1 .. n : SectionAt(lines', i) = SectionAt(lines, i)
    BY <1>1, SectionStays
<1> HIDE DEF n
<1>5. ArgsAreLast'
    BY <1>1 DEF ArgsAreLast
<1>6. ASSUME l.kind # "junk",
             l.kind = "assign" => /\ IsKey(section, l.key)
                                  /\ Parse(Schema[section][l.key], l.value) # {}
      PROVE  AllUnderstood'
  <2>1. \A i \in 1 .. n : LineUnderstood(lines', i)
    <3>1. ASSUME NEW i \in 1 .. n PROVE LineUnderstood(lines', i)
      <4>1. LineUnderstood(lines, i)
          BY <1>1, <1>2 DEF AllUnderstood
      <4> QED BY <1>2, <1>4, <4>1 DEF LineUnderstood
    <3> QED BY <3>1
  <2>2. LineUnderstood(lines', n + 1)
    <3>1. l.kind = "assign" => SectionAt(lines', n + 1) = section
        BY <1>3
    <3> QED BY <1>2, <1>6, <3>1 DEF LineUnderstood
  <2>3. \A i \in DOMAIN given' : OptionUnderstood(given'[i])
      BY <1>1 DEF AllUnderstood
  <2> QED BY <1>2, <2>1, <2>2, <2>3 DEF AllUnderstood
<1> QED BY <1>1, <1>2, <1>3, <1>5, <1>6

\* A blank line, a section header or a line that ends the start preserves the
\* invariant (Config::from_str).
LEMMA ReadOtherInv ==
    ASSUME ConfigInv, NEW l \in Lines, ReadOther(l)
    PROVE  ConfigInv'
<1>1. /\ phase = "file" /\ l.kind # "assign" /\ lines' = Append(lines, l)
      /\ section' = IF l.kind = "section" THEN l.section ELSE section
      /\ phase' = IF l.kind = "junk" THEN "failed" ELSE "file"
      /\ given' = given /\ args' = args /\ cfg' = cfg
    BY DEF ReadOther
<1>2. lines \in Seq(Lines) /\ Shaped(cfg) /\ FileIsLast
    BY <1>1 DEF ConfigInv, Starting
<1>3. /\ lines' \in Seq(Lines) /\ given' \in Seq(Options)
      /\ DOMAIN args' = DOMAIN NoArgs /\ ArgsAreLast'
      /\ section' = SectionAt(lines', Len(lines'))
      /\ l.kind # "junk" => AllUnderstood'
    BY <1>1, LineFrame
<1>4. \A sec, key : FromFile(lines', sec, key) = FromFile(lines, sec, key)
    BY <1>1, <1>2, FromFileAppend
<1>5. FileIsLast'
    BY <1>1, <1>2, <1>4 DEF FileIsLast, FileOrDefault
<1>6. LastWordWins'
    BY <1>1 DEF LastWordWins
<1> QED BY <1>1, <1>2, <1>3, <1>5, <1>6 DEF ConfigInv, Starting

\* An assignment, applied or refused, preserves the invariant (apply).
LEMMA AssignInv ==
    ASSUME ConfigInv, NEW l \in Lines, Assign(l)
    PROVE  ConfigInv'
<1> DEFINE values == IF IsKey(section, l.key) THEN Parse(Schema[section][l.key], l.value) ELSE {}
<1>1. /\ phase = "file" /\ l.kind = "assign" /\ lines' = Append(lines, l)
      /\ section' = section /\ given' = given /\ args' = args
      /\ \/ values = {} /\ phase' = "failed" /\ cfg' = cfg
         \/ /\ values # {} /\ phase' = phase
            /\ \E v \in values : cfg' = [cfg EXCEPT ![section][l.key] = v]
    BY DEF Assign
<1>2. /\ lines \in Seq(Lines) /\ Shaped(cfg) /\ FileIsLast
      /\ section = SectionAt(lines, Len(lines))
    BY <1>1 DEF ConfigInv, Starting
<1>3. /\ lines' \in Seq(Lines) /\ given' \in Seq(Options)
      /\ DOMAIN args' = DOMAIN NoArgs /\ ArgsAreLast'
      /\ section' = SectionAt(lines', Len(lines'))
      /\ (IsKey(section, l.key) /\ Parse(Schema[section][l.key], l.value) # {})
            => AllUnderstood'
    BY <1>1, LineFrame
<1>4. LastWordWins'
    BY <1>1 DEF LastWordWins
<1>5. CASE values = {}
  <2> QED BY <1>1, <1>2, <1>3, <1>4, <1>5 DEF ConfigInv, Starting
<1>6. CASE values # {}
  <2>1. PICK v \in values : cfg' = [cfg EXCEPT ![section][l.key] = v]
      BY <1>1, <1>6
  <2>2. /\ IsKey(section, l.key) /\ section \in DOMAIN Schema
        /\ l.key \in DOMAIN Schema[section] /\ values = Parse(Schema[section][l.key], l.value)
      BY <1>6 DEF IsKey
  <2>3. values = {v}
    <3>1. AtMostOne(values)
        BY <2>2, ParseUnique, SchemaTypes
    <3> HIDE DEF values
    <3> QED BY <2>1, <3>1 DEF AtMostOne
  <2> HIDE DEF values
  <2>4. /\ Shaped(cfg')
        /\ \A s \in DOMAIN Schema : \A k \in DOMAIN Schema[s] :
              cfg'[s][k] = IF s = section /\ k = l.key THEN v ELSE cfg[s][k]
    <3>1. cfg' = WithKey(cfg, section, l.key, v)
        BY <2>1 DEF WithKey
    <3> QED BY <1>2, <2>2, <3>1, SetKey
  <2>5. \A sec, key : FromFile(lines', sec, key) =
            IF l.key = key /\ section = sec THEN Parse(Schema[sec][key], l.value)
            ELSE FromFile(lines, sec, key)
      BY <1>1, <1>2, FromFileAppend
  <2>6. ASSUME NEW sec \in DOMAIN Schema, NEW key \in DOMAIN Schema[sec]
        PROVE  {cfg'[sec][key]} = FileOrDefault(sec, key)'
    <3>1. CASE l.key = key /\ section = sec
      <4>1. FromFile(lines', sec, key) = {v}
          BY <2>2, <2>3, <2>5, <3>1
      <4>2. FileOrDefault(sec, key)' = {v}
          BY <4>1 DEF FileOrDefault
      <4> QED BY <2>4, <3>1, <4>2
    <3>2. CASE ~ (l.key = key /\ section = sec)
      <4>1. FromFile(lines', sec, key) = FromFile(lines, sec, key)
          BY <2>5, <3>2
      <4>2. FileOrDefault(sec, key)' = FileOrDefault(sec, key)
          BY <4>1 DEF FileOrDefault
      <4>3. {cfg[sec][key]} = FileOrDefault(sec, key)
          BY <1>2 DEF FileIsLast
      <4> QED BY <2>4, <3>2, <4>2, <4>3
    <3> QED BY <3>1, <3>2
  <2>7. FileIsLast'
      BY <2>6 DEF FileIsLast
  <2> QED BY <1>3, <1>4, <1>6, <2>2, <2>4, <2>7 DEF ConfigInv
<1> QED BY <1>5, <1>6

-----------------------------------------------------------------------------
(* The overrides establish what the agent starts with.                       *)

\* An option that was given replaces the value, another one keeps it.
LEMMA OrTakes ==
    ASSUME NEW opt, NEW old, AtMostOne(opt)
    PROVE  {Or(opt, old)} = IF opt # {} THEN opt ELSE {old}
BY DEF Or, AtMostOne

\* The setting of every key after the overrides.
Overridden(c, sec, key) ==
    IF sec = "capture" /\ key = "backend" THEN BackendOf(c[sec][key])
    ELSE IF sec = "capture" /\ key = "pcap_path" THEN Or(args.pcap, c[sec][key])
    ELSE IF sec = "capture" /\ key = "interface" THEN Or(args.iface, c[sec][key])
    ELSE IF sec = "capture" /\ key = "live_command" THEN Or(args.live_cmd, c[sec][key])
    ELSE IF sec = "export" /\ key = "json_events" THEN Or(args.json, c[sec][key])
    ELSE c[sec][key]

\* What the overrides make of every setting (run in main.rs).
LEMMA OverrideSets ==
    ASSUME Shaped(cfg), Override, args.backend \subseteq DOMAIN BackendNames
    PROVE  /\ Shaped(cfg')
           /\ \A s \in DOMAIN Schema : \A k \in DOMAIN Schema[s] :
                 cfg'[s][k] = Overridden(cfg, s, k)
<1> DEFINE b  == BackendOf(cfg["capture"]["backend"])
           p  == Or(args.pcap, cfg["capture"]["pcap_path"])
           i  == Or(args.iface, cfg["capture"]["interface"])
           c  == Or(args.live_cmd, cfg["capture"]["live_command"])
           j  == Or(args.json, cfg["export"]["json_events"])
           c1 == WithKey(cfg, "capture", "backend", b)
           c2 == WithKey(c1, "capture", "pcap_path", p)
           c3 == WithKey(c2, "capture", "interface", i)
           c4 == WithKey(c3, "capture", "live_command", c)
           c5 == WithKey(c4, "export", "json_events", j)
<1>1. /\ "capture" \in DOMAIN Schema /\ "export" \in DOMAIN Schema
      /\ {"backend", "pcap_path", "interface", "live_command"} \subseteq DOMAIN Schema["capture"]
      /\ "json_events" \in DOMAIN Schema["export"]
    BY DEF Schema
<1>2. cfg' = [cfg EXCEPT !.capture.backend = BackendOf(@),
                         !.capture.pcap_path = Or(args.pcap, @),
                         !.capture.interface = Or(args.iface, @),
                         !.capture.live_command = Or(args.live_cmd, @),
                         !.export.json_events = Or(args.json, @)]
    BY DEF Override
<1>3. cfg' = c5
    BY <1>1, <1>2 DEF Shaped, WithKey
<1> HIDE DEF b, p, i, c, j
<1>4. Shaped(c1) /\ \A s \in DOMAIN Schema : \A k \in DOMAIN Schema[s] :
        c1[s][k] = IF s = "capture" /\ k = "backend" THEN b ELSE cfg[s][k]
    BY <1>1, SetKey
<1> HIDE DEF c1
<1>5. Shaped(c2) /\ \A s \in DOMAIN Schema : \A k \in DOMAIN Schema[s] :
        c2[s][k] = IF s = "capture" /\ k = "pcap_path" THEN p ELSE c1[s][k]
    BY <1>1, <1>4, SetKey
<1> HIDE DEF c2
<1>6. Shaped(c3) /\ \A s \in DOMAIN Schema : \A k \in DOMAIN Schema[s] :
        c3[s][k] = IF s = "capture" /\ k = "interface" THEN i ELSE c2[s][k]
    BY <1>1, <1>5, SetKey
<1> HIDE DEF c3
<1>7. Shaped(c4) /\ \A s \in DOMAIN Schema : \A k \in DOMAIN Schema[s] :
        c4[s][k] = IF s = "capture" /\ k = "live_command" THEN c ELSE c3[s][k]
    BY <1>1, <1>6, SetKey
<1> HIDE DEF c4
<1>8. Shaped(c5) /\ \A s \in DOMAIN Schema : \A k \in DOMAIN Schema[s] :
        c5[s][k] = IF s = "export" /\ k = "json_events" THEN j ELSE c4[s][k]
    BY <1>1, <1>7, SetKey
<1> HIDE DEF c5
<1>9. ASSUME NEW s \in DOMAIN Schema, NEW k \in DOMAIN Schema[s]
      PROVE  c5[s][k] = Overridden(cfg, s, k)
  <2>1. /\ c1[s][k] = IF s = "capture" /\ k = "backend" THEN b ELSE cfg[s][k]
        /\ c2[s][k] = IF s = "capture" /\ k = "pcap_path" THEN p ELSE c1[s][k]
        /\ c3[s][k] = IF s = "capture" /\ k = "interface" THEN i ELSE c2[s][k]
        /\ c4[s][k] = IF s = "capture" /\ k = "live_command" THEN c ELSE c3[s][k]
        /\ c5[s][k] = IF s = "export" /\ k = "json_events" THEN j ELSE c4[s][k]
      BY <1>4, <1>5, <1>6, <1>7, <1>8
  <2> QED BY <2>1 DEF Overridden, b, p, i, c, j
<1> QED BY <1>3, <1>8, <1>9

\* The command line's word on a key, as the invariant has it in args.
LEMMA FromArgsIs ==
    ASSUME NEW opts, NEW sec, NEW key
    PROVE  FromArgs(opts, sec, key) =
             IF sec = "capture" /\ key = "backend"
             THEN IF LastSaid(opts, Names("pcap")) # {} THEN {"PcapFile"}
                  ELSE {BackendNames[n] : n \in LastSaid(opts, Names("backend"))}
             ELSE IF sec = "capture" /\ key = "pcap_path" THEN LastSaid(opts, Names("pcap"))
             ELSE IF sec = "capture" /\ key = "interface" THEN LastSaid(opts, Names("iface"))
             ELSE IF sec = "capture" /\ key = "live_command" THEN LastSaid(opts, Names("live_cmd"))
             ELSE IF sec = "export" /\ key = "json_events" THEN LastSaid(opts, Names("json"))
             ELSE {}
<1>1. /\ Names("pcap") = {"pcap"} /\ Names("iface") = {"iface"} /\ Names("json") = {"json"}
      /\ Names("live_cmd") = {"live_cmd"} /\ Names("backend") = {"backend", "demo"}
    BY DEF Names
<1> QED BY <1>1 DEF FromArgs

\* The overrides preserve the invariant.
LEMMA OverrideInv ==
    ASSUME ConfigInv, Override
    PROVE  ConfigInv'
<1>1. /\ phase = "override" /\ lines' = lines /\ section' = section
      /\ given' = given /\ args' = args
    BY DEF Override
<1>2. /\ lines \in Seq(Lines) /\ given \in Seq(Options) /\ Shaped(cfg)
      /\ DOMAIN args = DOMAIN NoArgs /\ section = SectionAt(lines, Len(lines))
      /\ AllUnderstood /\ ArgsAreLast /\ FileIsLast
    BY <1>1 DEF ConfigInv, Starting
<1>3. CASE ~ (args.backend \subseteq DOMAIN BackendNames)
  <2>1. phase' = "failed" /\ cfg' = cfg
      BY <1>3 DEF Override
  <2>2. LastWordWins'
      BY <2>1 DEF LastWordWins
  <2> QED BY <1>1, <1>2, <2>1, <2>2 DEF ConfigInv, Starting
<1>4. CASE args.backend \subseteq DOMAIN BackendNames
  <2>1. phase' = "ready"
      BY <1>4 DEF Override
  <2>2. Shaped(cfg') /\ \A s \in DOMAIN Schema : \A k \in DOMAIN Schema[s] :
            cfg'[s][k] = Overridden(cfg, s, k)
      BY <1>2, <1>4, OverrideSets
  <2>3. /\ args.pcap = LastSaid(given, Names("pcap"))
        /\ args.backend = LastSaid(given, Names("backend"))
        /\ args.iface = LastSaid(given, Names("iface"))
        /\ args.live_cmd = LastSaid(given, Names("live_cmd"))
        /\ args.json = LastSaid(given, Names("json"))
      BY <1>2, NoArgsDomain DEF ArgsAreLast
  <2>4. /\ AtMostOne(args.pcap) /\ AtMostOne(args.backend) /\ AtMostOne(args.iface)
        /\ AtMostOne(args.live_cmd) /\ AtMostOne(args.json)
      BY <1>2, <2>3, LastSaidUnique
  <2>5. ASSUME NEW sec \in DOMAIN Schema, NEW key \in DOMAIN Schema[sec]
        PROVE  {cfg'[sec][key]} =
                  IF FromArgs(given, sec, key) # {} THEN FromArgs(given, sec, key)
                  ELSE FileOrDefault(sec, key)
    <3>1. {cfg[sec][key]} = FileOrDefault(sec, key)
        BY <1>2 DEF FileIsLast
    <3>2. cfg'[sec][key] = Overridden(cfg, sec, key)
        BY <2>2
    <3> DEFINE old == cfg[sec][key]
    <3>3. CASE sec = "capture" /\ key = "backend"
      <4>1. FromArgs(given, sec, key) =
              IF args.pcap # {} THEN {"PcapFile"} ELSE {BackendNames[n] : n \in args.backend}
          BY <2>3, <3>3, FromArgsIs
      <4>2. {BackendOf(old)} =
              IF args.pcap # {} THEN {"PcapFile"}
              ELSE IF args.backend # {} THEN {BackendNames[n] : n \in args.backend}
              ELSE {old}
          BY <2>4 DEF BackendOf, AtMostOne
      <4>3. cfg'[sec][key] = BackendOf(old)
          BY <3>2, <3>3 DEF Overridden
      <4> QED BY <3>1, <4>1, <4>2, <4>3
    <3>4. CASE sec = "capture" /\ key = "pcap_path"
      <4>1. FromArgs(given, sec, key) = args.pcap /\ cfg'[sec][key] = Or(args.pcap, old)
          BY <2>3, <3>2, <3>4, FromArgsIs DEF Overridden
      <4> QED BY <2>4, <3>1, <4>1, OrTakes
    <3>5. CASE sec = "capture" /\ key = "interface"
      <4>1. FromArgs(given, sec, key) = args.iface /\ cfg'[sec][key] = Or(args.iface, old)
          BY <2>3, <3>2, <3>5, FromArgsIs DEF Overridden
      <4> QED BY <2>4, <3>1, <4>1, OrTakes
    <3>6. CASE sec = "capture" /\ key = "live_command"
      <4>1. FromArgs(given, sec, key) = args.live_cmd /\ cfg'[sec][key] = Or(args.live_cmd, old)
          BY <2>3, <3>2, <3>6, FromArgsIs DEF Overridden
      <4> QED BY <2>4, <3>1, <4>1, OrTakes
    <3>7. CASE sec = "export" /\ key = "json_events"
      <4>1. FromArgs(given, sec, key) = args.json /\ cfg'[sec][key] = Or(args.json, old)
          BY <2>3, <3>2, <3>7, FromArgsIs DEF Overridden
      <4> QED BY <2>4, <3>1, <4>1, OrTakes
    <3>8. CASE ~ (\/ sec = "capture" /\ key \in {"backend", "pcap_path", "interface", "live_command"}
                  \/ sec = "export" /\ key = "json_events")
      <4>1. FromArgs(given, sec, key) = {} /\ cfg'[sec][key] = old
          BY <3>2, <3>8, FromArgsIs DEF Overridden
      <4> QED BY <3>1, <4>1
    <3> QED BY <3>3, <3>4, <3>5, <3>6, <3>7, <3>8
  <2>6. LastWordWins'
      BY <1>1, <2>5 DEF LastWordWins, FileOrDefault
  <2>7. AllUnderstood'
      BY <1>1, <1>2 DEF AllUnderstood
  <2> QED BY <1>1, <1>2, <2>1, <2>2, <2>6, <2>7 DEF ConfigInv, Starting
<1> QED BY <1>3, <1>4

-----------------------------------------------------------------------------
(* The theorems.                                                             *)

\* A step that only moves on keeps what the invariant says of the rest.
LEMMA PhaseInv ==
    ASSUME ConfigInv, UNCHANGED <<given, args, lines, section, cfg>>,
           phase' = phase \/ (phase \in Starting /\ phase' \in {"file", "override", "failed"})
    PROVE  ConfigInv'
<1>1. phase' \in Starting => ArgsAreLast' /\ FileIsLast'
    BY DEF ConfigInv, Starting, ArgsAreLast, FileIsLast, FileOrDefault
<1>2. phase' \in Starting \cup {"ready"} => AllUnderstood'
    BY DEF ConfigInv, Starting, AllUnderstood
<1>3. LastWordWins'
    BY DEF ConfigInv, Starting, LastWordWins
<1> QED BY <1>1, <1>2, <1>3 DEF ConfigInv

\* Every step preserves the invariant.
LEMMA ConfigNextInv == ConfigInv /\ [Next]_vars => ConfigInv'
<1> SUFFICES ASSUME ConfigInv, [Next]_vars PROVE ConfigInv'
    OBVIOUS
<1>1. ASSUME NEW o \in Options, TakeValue(o) PROVE ConfigInv'
    BY <1>1, TakeValueInv
<1>2. ASSUME NEW o \in Options, TakeFlag(o) PROVE ConfigInv'
    BY <1>2, TakeFlagInv
<1>3. CASE ArgsRead
  <2>1. phase \in Starting /\ phase' \in {"file", "override", "failed"}
      BY <1>3 DEF ArgsRead, Starting
  <2> QED BY <1>3, <2>1, PhaseInv DEF ArgsRead
<1>4. ASSUME NEW l \in Lines, ReadOther(l) PROVE ConfigInv'
    BY <1>4, ReadOtherInv
<1>5. ASSUME NEW l \in Lines, Assign(l) PROVE ConfigInv'
    BY <1>5, AssignInv
<1>6. CASE EndOfFile
  <2>1. phase \in Starting /\ phase' = "override"
      BY <1>6 DEF EndOfFile, Starting
  <2> QED BY <1>6, <2>1, PhaseInv DEF EndOfFile
<1>7. CASE Override
    BY <1>7, OverrideInv
<1>8. CASE Started
    BY <1>8, PhaseInv DEF Started, vars
<1>9. CASE UNCHANGED vars
    BY <1>9, PhaseInv DEF vars
<1> QED BY <1>1, <1>2, <1>3, <1>4, <1>5, <1>6, <1>7, <1>8, <1>9 DEF Next

(* The start of the agent keeps ConfigInv, whatever the options, the lines   *)
(* and the numerals are and however many come.                               *)
THEOREM ConfigInvariant == Spec => []ConfigInv
BY ConfigInitInv, ConfigNextInv, PTL DEF Spec

(* Every setting of an agent that starts is what the command line says of    *)
(* it, else the last assignment in its section of the file, else the default *)
(* (main.rs:106-126, config.rs:168-190).                                     *)
THEOREM LastWordAlwaysWins == Spec => []LastWordWins
<1>1. ConfigInv => LastWordWins
    BY DEF ConfigInv
<1> QED BY <1>1, ConfigInvariant, PTL

(* An agent that starts has passed over no option and no line: fail-fast     *)
(* (config.rs:8, 173-189, 203-269).                                          *)
THEOREM NothingIsIgnored == Spec => []NothingIgnored
<1>1. ConfigInv => NothingIgnored
    BY DEF ConfigInv, NothingIgnored, AllUnderstood, LineUnderstood, OptionUnderstood
<1> QED BY <1>1, ConfigInvariant, PTL

=============================================================================

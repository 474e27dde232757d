---------------------------- MODULE CommandGrammar ---------------------------
(***************************************************************************)
(* The command language of the shell and of the Linux-style front end:     *)
(* the keyword grammar, ParseTokens with the limits it checks before the   *)
(* builders of Commands, and Suggestions (command/grammar.go); the host    *)
(* options (linuxcli/cli.go).                                              *)
(*                                                                         *)
(* A line is a sequence of words. What a word is as a value is looked up   *)
(* in Values: [num, addr, host, url, ip, psk, env, blank]; a number is 0   *)
(* where the word is none, env is the passphrase of the variable of that   *)
(* name, "" for an unset one.                                              *)
(***************************************************************************)
EXTENDS Commands, SequencesExt, FiniteSetsExt, TLC

CONSTANT Values

Shape(w) ==
  IF w \in DOMAIN Values THEN Values[w]
  ELSE [num |-> 0, addr |-> {}, host |-> "name", url |-> "", ip |-> "", psk |-> FALSE,
        env |-> "", blank |-> FALSE]

-----------------------------------------------------------------------------
(* The inventory of commands.                                              *)

Grammar(path, positionals, required, switches, values) ==
  [path |-> path, positionals |-> positionals, required |-> required,
   switches |-> switches, values |-> values]
Leaf(path) == Grammar(path, <<>>, {}, {}, {})

Probe == {"timeout", "ssid", "bssid", "network-id"}
Want == {"ssid", "bssid", "security", "band", "require-ip", "require-validated", "timeout"}
Join == {"passphrase", "security", "bssid", "band", "mac-randomization", "timeout"}
Dumps == {"networks", "requests", "diagnostics", "trafficcontroller"}

Unsupported == {<<"set", "default", "passphrase">>, <<"clear", "default", "passphrase">>}

(* GrammarTable, by path.                                                  *)
GrammarTable ==
  {Leaf(<<"show", "version">>), Leaf(<<"show", "devices">>), Leaf(<<"show", "checks">>),
   Leaf(<<"show", "adb", "cmd", "wifi", "status">>), Leaf(<<"show", "adb", "wifi", "status">>),
   Leaf(<<"show", "adb", "wifi", "dumpsys">>), Leaf(<<"show", "adb", "dumpsys", "wifi">>),
   Leaf(<<"show", "adb", "connectivity">>), Leaf(<<"show", "adb", "connectivity", "dumpsys">>),
   Leaf(<<"show", "adb", "connectivity", "--diag">>),
   Leaf(<<"show", "adb", "dumpsys", "connectivity">>),
   Leaf(<<"show", "adb", "diagnostics", "full">>),
   Leaf(<<"wifi", "disconnect">>)}
  \cup {Leaf(<<"show", "adb", "connectivity", d>>) : d \in Dumps}
  \cup {Leaf(<<"show", "adb", "dumpsys", "connectivity", d>>) : d \in Dumps}
  \cup {Leaf(p) : p \in Unsupported}
  \cup {Grammar(<<"show", "wifi", w>>, <<>>, {}, {"detail"}, {}) :
          w \in {"status", "diagnostics", "capabilities"}}
  \cup {Grammar(<<"show", "wifi", "scan">>, <<>>, {}, {"fresh", "brief", "mlo"}, {"band", "timeout"}),
        Grammar(<<"show", "wifi", "scan", "detail">>, <<"target">>, {}, {}, {"band"}),
        Grammar(<<"show", "wifi", "eht">>, <<>>, {}, {"detail", "fresh"}, {"ssid", "bssid", "timeout"}),
        Grammar(<<"show", "ip", "status">>, <<>>, {}, {"detail"}, {"ssid", "bssid", "network-id"}),
        Grammar(<<"show", "check", "last">>, <<>>, {}, {"detail"}, {}),
        Grammar(<<"wifi", "connect">>, <<"ssid">>, {}, {}, Join \cup {"passphrase-env"}),
        Grammar(<<"wifi", "forget">>, <<"target">>, {}, {}, {}),
        Grammar(<<"wifi", "wait", "connected">>, <<>>, {}, {}, Want),
        Grammar(<<"wifi", "assert">>, <<>>, {}, {}, Want),
        Grammar(<<"wifi", "monitor">>, <<>>, {}, {}, {"duration", "interval"}),
        Grammar(<<"wifi", "reconnect">>, <<>>, {}, {}, {"timeout"}),
        Grammar(<<"wifi", "cycle">>, <<"ssid">>, {"passphrase"}, {},
                Join \cup {"count", "ping", "http", "forget-after-each", "pause"}),
        Grammar(<<"ping">>, <<"host">>, {}, {}, Probe \cup {"count", "size", "family"}),
        Grammar(<<"traceroute">>, <<"host">>, {}, {}, Probe \cup {"max-hops", "via", "size", "family"}),
        Grammar(<<"path-mtu">>, <<"host">>, {}, {}, Probe \cup {"min-mtu", "max-mtu", "family"}),
        Grammar(<<"global-ip">>, <<>>, {}, {}, Probe \cup {"family"}),
        Grammar(<<"dns">>, <<"name">>, {}, {}, Probe \cup {"record"}),
        Grammar(<<"http">>, <<"url">>, {}, {}, Probe \cup {"expected-status"}),
        Grammar(<<"download">>, <<"url">>, {}, {}, Probe),
        Grammar(<<"help">>, <<"topic">>, {}, {}, {}),
        Grammar(<<"use">>, <<"ssid">>, {"passphrase"}, {}, {"passphrase"}),
        Grammar(<<"check">>, <<"name">>, {"ssid"}, {},
                {"ssid", "family", "bssid", "gateway", "dns", "resolver", "http",
                 "expected-status", "timeout"})}

aliases == [p |-> "ping", tr |-> "traceroute", pm |-> "path-mtu", gip |-> "global-ip", h |-> "help"]

(* validateAliases, which the program asserts when it starts.              *)
AliasesValid ==
  LET first == {g.path[1] : g \in GrammarTable}
  IN DOMAIN aliases \cap first = {} /\ Range(aliases) \subseteq first

(* siblings: the words that may follow a path.                             *)
Siblings(path) ==
  {g.path[Len(path) + 1] : g \in {h \in GrammarTable : path # h.path /\ IsPrefix(path, h.path)}}

Abbreviates(word, option) ==
  Len(word) <= Len(option) /\ SubSeq(option, 1, Len(word)) = word

(* Fault: an exact keyword is an abbreviation like any other.              *)
ResolveNoExact(word, options, first) ==
  LET matches == {o \in options : Abbreviates(word, o)}
  IN IF word = "" THEN ""
     ELSE IF first /\ word \in DOMAIN aliases THEN aliases[word]
     ELSE IF Cardinality(matches) = 1 THEN The(matches) ELSE ""

(* resolve: the keyword a word stands for, "" for none or several.         *)
Resolve(word, options, first) ==
  LET matches == {o \in options : Abbreviates(word, o)}
  IN IF word = "" THEN ""
     ELSE IF word \in options THEN word
     ELSE IF first /\ word \in DOMAIN aliases THEN aliases[word]
     ELSE IF Cardinality(matches) = 1 THEN The(matches) ELSE ""

ExactSpec(path) == {g \in GrammarTable : g.path = path}

(* commandSpec: keywords are taken as long as the path can grow; after     *)
(* "scan" only "detail" belongs to the path.                               *)
PathStep(s, word) ==
  IF s.done \/ s.err THEN s
  ELSE IF \/ Siblings(s.path) = {}
          \/ s.path # <<>> /\ Last(s.path) = "scan" /\ ~Abbreviates(word, "detail")
  THEN [s EXCEPT !.done = TRUE]
  ELSE LET kw == Resolve(word, Siblings(s.path), s.path = <<>>)
       IN IF kw = "" THEN [s EXCEPT !.err = TRUE] ELSE [s EXCEPT !.path = Append(@, kw)]

CommandSpec(args) ==
  LET s == FoldLeft(PathStep, [path |-> <<>>, done |-> FALSE, err |-> FALSE], args)
  IN [path |-> s.path, ok |-> ~s.err /\ ExactSpec(s.path) # {}]

Rest(args, path) == SubSeq(args, Len(path) + 1, Len(args))

(* parseFields: the positionals are literal, then switches and keys with a *)
(* value, each once; via adds up.                                          *)
FieldStep(spec, s, a) ==
  LET key == Resolve(a, spec.switches \cup spec.values, FALSE)
  IN CASE s.err -> s
       [] ~s.err /\ s.want = "via" /\ a # "" -> [s EXCEPT !.via = Append(@, a), !.want = ""]
       [] ~s.err /\ s.want \notin {"", "via"} /\ a # "" ->
            [s EXCEPT !.f = (s.want :> a) @@ @, !.want = ""]
       [] ~s.err /\ s.want = "" /\ s.pos < Len(spec.positionals) ->
            [s EXCEPT !.f = (spec.positionals[s.pos + 1] :> a) @@ @, !.pos = @ + 1]
       [] ~s.err /\ s.want = "" /\ s.pos >= Len(spec.positionals) /\ key # ""
            /\ (key = "via" \/ key \notin DOMAIN s.f) ->
            IF key \in spec.switches THEN [s EXCEPT !.f = (key :> "true") @@ @]
            ELSE [s EXCEPT !.want = key]
       [] OTHER -> [s EXCEPT !.err = TRUE]

ParseFields(spec, rest) ==
  LET s == FoldLeft(LAMBDA x, a : FieldStep(spec, x, a),
                    [f |-> <<>>, via |-> <<>>, pos |-> 0, want |-> "", err |-> FALSE], rest)
      full == s.pos = Len(spec.positionals) \/ spec.path = <<"help">>
      got(key) == key \in DOMAIN s.f /\ s.f[key] # ""
  IN [f |-> s.f, via |-> s.via,
      ok |-> ~s.err /\ s.want = "" /\ full /\ \A key \in spec.required : got(key)]

-----------------------------------------------------------------------------
(* ParseTokens.                                                            *)

Field(f, key) == IF key \in DOMAIN f THEN f[key] ELSE ""
Given(f, key) == Field(f, key) # ""

Numeric == {"timeout", "count", "size", "max-hops", "min-mtu", "max-mtu", "duration", "interval",
            "pause", "expected-status"}

(* The limits of one number, beyond 1..2^31-1.                             *)
NumberOk(path, f, key) ==
  LET n == Shape(f[key]).num
  IN /\ n \in 1..IntMax
     /\ key = "max-hops" => n <= 255
     /\ key = "count" /\ path = <<"wifi", "cycle">> => n <= 100
     /\ key = "pause" => n <= 60000
     /\ key = "count" /\ path = <<"ping">> /\ ~Given(f, "timeout") => n <= (IntMax - 3000) \div 2000

(* enumValues                                                              *)
EnumValues(key, path) ==
  CASE key = "family" -> {"ipv4", "ipv6"}
         \cup (IF path \in {<<"check">>, <<"global-ip">>} THEN {"all"} ELSE {"auto"})
    [] key = "record" -> {"A", "AAAA", "ALL"}
    [] key = "security" -> Securities
    [] key = "band" -> WifiBands
    [] key = "mac-randomization" -> MacModes
    [] key \in {"require-ip", "require-validated", "forget-after-each"} -> {"true", "false"}
    [] OTHER -> {}

ValueOk(path, f, key) ==
  /\ key \in Numeric => NumberOk(path, f, key)
  /\ EnumValues(key, path) # {} => f[key] \in EnumValues(key, path)

(* LabConfig.ValidFor and the fields it needs.                             *)
LabValid(f) ==
  /\ Field(f, "bssid") = "" /\ Field(f, "family") \in {"ipv4", "ipv6"}
  /\ Given(f, "gateway") /\ Shape(f["gateway"]).ip = f["family"]
  /\ Given(f, "dns") /\ ~Shape(f["dns"]).blank
  /\ Field(f, "resolver") = "selected"
  /\ Given(f, "http") /\ Shape(f["http"]).url \in {"http", "https"}
  /\ Given(f, "expected-status") /\ Shape(f["expected-status"]).num \in 100..599
  /\ Given(f, "timeout") /\ Shape(f["timeout"]).num \in 1..30000
  /\ Given(f, "ssid") /\ ~Shape(f["ssid"]).blank

Error == [kind |-> "error"]
Rejected(profile) == [kind |-> "rejected", profile |-> profile]
Action(path, op, f) == [kind |-> "action", path |-> path, op |-> op, f |-> f]

(* A check never is an error once its name is known: it is an action that  *)
(* the front end refuses. Fields are looked at in the order of a Go map:   *)
(* where one is an error and another a rejection, either may come out.     *)
BadValues(path, f) ==
  LET bad == {key \in DOMAIN f : ~ValueOk(path, f, key)}
  IN {IF path = <<"check">> /\ key = "family" THEN Rejected(f["name"]) ELSE Error : key \in bad}

CheckAction(f) ==
  IF f["name"] = "lab" THEN IF LabValid(f) THEN Action(<<"check">>, Refused, f) ELSE Rejected("lab")
  ELSE IF \/ \E key \in {"gateway", "dns", "resolver", "http", "expected-status", "timeout", "bssid"} :
               Given(f, key)
          \/ Shape(Field(f, "ssid")).blank
  THEN Rejected("link")
  ELSE Action(<<"check">>, Refused, f)

(* The passphrase: literal or of the named variable, of a legal length.    *)
PskOk(path, f) ==
  IF path = <<"wifi", "connect">> /\ Given(f, "passphrase-env")
  THEN ~Given(f, "passphrase") /\ Shape(Shape(f["passphrase-env"]).env).psk
  ELSE Given(f, "passphrase") /\ Shape(f["passphrase"]).psk

(* What goes with what.                                                    *)
CombinationOk(path, f, via) ==
  /\ Given(f, "bssid") => Shape(f["bssid"]).addr # {}
  /\ "ssid" \in DOMAIN f /\ path \in {<<"wifi", "connect">>, <<"wifi", "cycle">>, <<"use">>} =>
       f["ssid"] # "" /\ PskOk(path, f)
  /\ path = <<"wifi", "forget">> => Given(f, "target")
  /\ path = <<"show", "wifi", "eht">> => ~(Given(f, "ssid") /\ Given(f, "bssid"))
  /\ path \in {<<"show", "wifi", "eht">>, <<"show", "wifi", "scan">>} /\ Given(f, "timeout") =>
       Given(f, "fresh")
  /\ Given(f, "mlo") => Given(f, "brief")
  /\ \A i \in DOMAIN via : ~Shape(via[i]).blank

Tokens(v) == IF v = "" THEN {} ELSE {[word |-> v, cased |-> FALSE]}
Number(f, key) == IF Given(f, key) THEN {Shape(f[key]).num} ELSE {}
Record == [A |-> "a", AAAA |-> "aaaa", ALL |-> "all"]

(* The options a builder gets.                                             *)
Request(f) ==
  [Nothing EXCEPT
     !.ssid = Field(f, "ssid"), !.bssid = IF Given(f, "bssid") THEN Shape(f["bssid"]).addr ELSE {},
     !.target = Field(f, "target"), !.psk = Given(f, "passphrase") \/ Given(f, "passphrase-env"),
     !.host = Shape(IF "name" \in DOMAIN f THEN f["name"]
                    ELSE Field(f, IF Given(f, "ping") THEN "ping" ELSE "host")).host,
     !.url = Shape(Field(f, "url")).url, !.fresh = Given(f, "fresh"), !.brief = Given(f, "brief"),
     !.mlo = Given(f, "mlo"), !.forget = Field(f, "forget-after-each") = "true",
     !.ping = Given(f, "ping"), !.http = IF Given(f, "http") THEN Shape(f["http"]).url ELSE "",
     !.timeout = Number(f, "timeout") \cup Number(f, "duration"), !.count = Number(f, "count"),
     !.pause = Number(f, "pause"), !.size = Number(f, "size"), !.hops = Number(f, "max-hops"),
     !.minMtu = Number(f, "min-mtu"), !.maxMtu = Number(f, "max-mtu"),
     !.interval = Number(f, "interval"), !.status = Number(f, "expected-status"),
     !.band = Tokens(Field(f, "band")), !.security = Tokens(Field(f, "security")),
     !.mac = Tokens(Field(f, "mac-randomization")), !.family = Tokens(Field(f, "family")),
     !.qtype = IF Given(f, "record") THEN Tokens(Record[f["record"]]) ELSE {}]

Build(path, o) ==
  CASE path = <<"show", "wifi", "status">> -> WifiStatusOperation
    [] path = <<"show", "wifi", "diagnostics">> -> WifiDiagnosticsOperation
    [] path = <<"show", "wifi", "capabilities">> -> WifiCapabilitiesOperation
    [] path = <<"show", "wifi", "scan">> ->
         IF o.fresh THEN WifiFreshScanOperation(o) ELSE WifiScanOperation(o)
    [] path = <<"show", "wifi", "scan", "detail">> -> WifiScanDetailOperation(o)
    [] path = <<"show", "wifi", "eht">> -> WifiEHTOperation(o)
    [] path = <<"show", "ip", "status">> -> IPStatusOperation
    [] path \in {<<"wifi", "connect">>, <<"use">>} -> WifiConnectOperation(o)
    [] path = <<"wifi", "cycle">> -> WifiCycleOperation(o)
    [] path = <<"wifi", "disconnect">> -> WifiDisconnectOperation
    [] path = <<"wifi", "forget">> -> WifiForgetOperation(o)
    [] path = <<"wifi", "assert">> -> WifiAssertOperation(o)
    [] path = <<"wifi", "wait", "connected">> -> WifiWaitConnectedOperation(o)
    [] path = <<"wifi", "monitor">> -> WifiMonitorOperation(o)
    [] path = <<"wifi", "reconnect">> -> WifiReconnectOperation(o)
    [] path = <<"ping">> -> PingOperation(o)
    [] path = <<"traceroute">> -> TracerouteOperation(o)
    [] path = <<"path-mtu">> -> PathMTUOperation(o)
    [] path = <<"global-ip">> -> GlobalIPOperation(o)
    [] path = <<"dns">> -> DNSOperation(o)
    [] path = <<"http">> -> HTTPOperation(o)
    [] path = <<"download">> -> DownloadOperation(o)

(* A selector goes with the probes and with the IP status.                 *)
Select(op, f) ==
  IF op.kind \in Selecting
  THEN [op EXCEPT !.sel = [ssid |-> Field(f, "ssid"),
                           bssid |-> IF Given(f, "bssid") THEN Shape(f["bssid"]).addr ELSE {},
                           netid |-> Number(f, "network-id")]]
  ELSE op

NoOperation(path) ==
  \E p \in {<<"help">>, <<"show", "version">>, <<"show", "devices">>, <<"show", "checks">>,
           <<"show", "check">>, <<"show", "adb">>} : IsPrefix(p, path)

AgentAction(path, f) ==
  LET op == Build(path, Request(f))
  IN IF op.ok /\ ValidateOperation(Select(op, f)) THEN Action(path, Select(op, f), f) ELSE Error

(* ParseTokens, as the set of its outcomes.                                *)
ParseTokens(args) ==
  LET c    == CommandSpec(args)
      rest == Rest(args, c.path)
      spec == The(ExactSpec(c.path))
      p    == ParseFields(spec, rest)
      check == c.path = <<"check">>
  IN IF args = <<>> \/ ~c.ok \/ c.path \in Unsupported THEN {Error}
     ELSE IF check /\ rest = <<>> THEN {Action(c.path, Refused, <<>>)}
     ELSE IF check /\ rest[1] \notin {"link", "lab"}
     THEN {Rejected(IF rest[1] \in {"internet", "eht"} THEN rest[1] ELSE "unsupported")}
     ELSE IF ~p.ok THEN {IF check THEN Rejected(rest[1]) ELSE Error}
     ELSE IF BadValues(c.path, p.f) # {} THEN BadValues(c.path, p.f)
     ELSE IF check THEN {CheckAction(p.f)}
     ELSE IF ~CombinationOk(c.path, p.f, p.via) THEN {Error}
     ELSE IF NoOperation(c.path) THEN {Action(c.path, Refused, p.f)}
     ELSE {AgentAction(c.path, p.f)}

-----------------------------------------------------------------------------
(* Suggestions: what may come next, a placeholder for a literal.           *)

SuggestedSiblings(path) ==
  {g.path[Len(path) + 1] : g \in {h \in GrammarTable :
     h.path \notin Unsupported /\ path # h.path /\ IsPrefix(path, h.path)}}

(* The path of the words so far, <<>> when one of them is no keyword.      *)
KeywordPath(args) ==
  FoldLeft(LAMBDA path, w :
             LET kw == Resolve(w, Siblings(path), path = <<>>)
             IN IF path = <<"">> \/ kw = "" THEN <<"">> ELSE Append(path, kw),
           <<>>, args)

OptionSuggestions(spec, s) ==
  {key \in spec.switches \cup spec.values :
     /\ key = "via" \/ key \notin s.used
     /\ key = "mlo" => "brief" \in s.used
     /\ key = "timeout" /\ spec.path \in {<<"show", "wifi", "scan">>, <<"show", "wifi", "eht">>} =>
          "fresh" \in s.used}

ValueSuggestions(spec, key) ==
  IF EnumValues(key, spec.path) # {} THEN EnumValues(key, spec.path) ELSE {"<value>"}

(* The scan over the options: which were used, and the key that waits for  *)
(* its value; nothing is suggested after an unknown one.                   *)
SuggestStep(spec, s, a) ==
  LET key == Resolve(a, spec.switches \cup spec.values, FALSE)
  IN IF s.bad THEN s
     ELSE IF s.pos < Len(spec.positionals) THEN [s EXCEPT !.pos = @ + 1]
     ELSE IF s.want # "" THEN [s EXCEPT !.want = ""]
     ELSE IF key = "" THEN [s EXCEPT !.bad = TRUE]
     ELSE [s EXCEPT !.used = @ \cup {key}, !.want = IF key \in spec.switches THEN "" ELSE key]

Suggestions(args) ==
  LET c    == CommandSpec(args)
      spec == The(ExactSpec(c.path))
      s    == FoldLeft(LAMBDA x, a : SuggestStep(spec, x, a),
                       [pos |-> 0, used |-> {}, want |-> "", bad |-> FALSE], Rest(args, c.path))
  IN IF args = <<>> THEN SuggestedSiblings(<<>>)
     ELSE IF ~c.ok
     THEN IF KeywordPath(args) = <<"">> THEN {} ELSE SuggestedSiblings(KeywordPath(args))
     ELSE IF s.bad THEN {}
     ELSE IF s.want # "" THEN ValueSuggestions(spec, s.want)
     ELSE IF s.pos < Len(spec.positionals)
     THEN {"<" \o spec.positionals[s.pos + 1] \o ">"}
     ELSE OptionSuggestions(spec, s)

-----------------------------------------------------------------------------
(* linuxcli.ExtractOptions.  An argument is a word, or [name, value] for   *)
(* an option with its value inline.                                        *)

Host == {"--format", "--target", "--all"}
NoOptions == [format |-> "", target |-> "", all |-> FALSE]

OptionStep(s, a) ==
  LET inline == a.value # {}
      v == IF s.want # "" THEN a.name ELSE IF inline THEN The(a.value) ELSE ""
      name == IF s.want # "" THEN s.want ELSE a.name
      set(o) == [s EXCEPT !.opts = o, !.want = "", !.n = @ + 1]
      stop(n) == [s EXCEPT !.done = TRUE, !.n = @ + n]
  IN CASE s.done \/ s.err -> s
       [] ~s.done /\ ~s.err /\ name = "--" /\ s.want = "" -> stop(1)
       [] ~s.done /\ ~s.err /\ name \notin Host /\ s.want = "" ->
            IF s.opts.all /\ s.opts.target # "" THEN [s EXCEPT !.err = TRUE] ELSE stop(0)
       [] ~s.done /\ ~s.err /\ name = "--all" ->
            IF inline \/ s.opts.all THEN [s EXCEPT !.err = TRUE] ELSE set([s.opts EXCEPT !.all = TRUE])
       [] ~s.done /\ ~s.err /\ name \in {"--format", "--target"} /\ s.want = "" /\ ~inline ->
            [s EXCEPT !.want = name, !.n = @ + 1]
       [] ~s.done /\ ~s.err /\ name = "--target" /\ (s.want # "" \/ inline) ->
            IF s.opts.target # "" \/ v = "" THEN [s EXCEPT !.err = TRUE]
            ELSE set([s.opts EXCEPT !.target = v])
       [] OTHER ->
            IF s.opts.format # "" \/ v \notin {"text", "json"} THEN [s EXCEPT !.err = TRUE]
            ELSE set([s.opts EXCEPT !.format = v])

(* The options and the arguments left for the command.                     *)
ExtractOptions(args) ==
  LET s == FoldLeft(OptionStep, [opts |-> NoOptions, want |-> "", n |-> 0, done |-> FALSE,
                                 err |-> FALSE], args)
  IN [opts |-> s.opts, rest |-> SubSeq(args, s.n + 1, Len(args)),
      ok |-> /\ ~s.err /\ s.want = ""
             /\ s.done \/ ~(s.opts.all /\ s.opts.target # "")]

-----------------------------------------------------------------------------
(* Properties.                                                             *)

(* A keyword that is suggested leads on: the line with it is a command, or *)
(* something is suggested after it again ("Suggestions uses the same       *)
(* paths/options as ParseTokens").                                         *)
SuggestionsLead(args) ==
  \A w \in Suggestions(args) : SubSeq(w, 1, 1) # "<" =>
    LET line == Append(args, w)
    IN Suggestions(line) # {} \/ \E r \in ParseTokens(line) : r.kind # "error"

(* The line with every keyword spelled out.                                *)
Canonical(args) ==
  LET c    == CommandSpec(args)
      spec == The(ExactSpec(c.path))
      Full(s, a) ==
        IF s.pos < Len(spec.positionals) THEN [s EXCEPT !.pos = @ + 1, !.line = Append(@, a)]
        ELSE IF s.value THEN [s EXCEPT !.value = FALSE, !.line = Append(@, a)]
        ELSE LET key == Resolve(a, spec.switches \cup spec.values, FALSE)
             IN [s EXCEPT !.line = Append(@, key), !.value = key \notin spec.switches]
  IN FoldLeft(Full, [pos |-> 0, value |-> FALSE, line |-> c.path], Rest(args, c.path)).line

(* An abbreviated line means what it means spelled out, and a literal is   *)
(* never taken for a keyword: "options never reinterpret literal values".  *)
AbbreviationsFaithful(args) ==
  \A r \in ParseTokens(args) : r.kind = "action" =>
    /\ ParseTokens(Canonical(args)) = {r}
    /\ r.path # <<"check">> \/ r.f # <<>> =>
         LET spec == The(ExactSpec(r.path))
         IN \A i \in DOMAIN spec.positionals :
              spec.positionals[i] \in DOMAIN r.f => r.f[spec.positionals[i]] = args[Len(r.path) + i]

(* A number the shell refuses would have been refused behind it, except    *)
(* for the limits that only the shell has (max-hops).                      *)
LimitsAgree(path, key, w) ==
  LET f == (key :> w) IN
  (\E g \in ExactSpec(path) : key \in g.values) /\ key # "max-hops" /\ ~NumberOk(path, f, key) =>
    LET op == Build(path, [Request(f) EXCEPT !.ssid = "s"]) IN ~(op.ok /\ ValidateOperation(op))

(* Only leading host options are taken from a command line, each with its  *)
(* value; what is left is the rest of the line as it was, and, without a   *)
(* separator, has no host option in front.  Every alias of a command is a  *)
(* command, and no command is hidden by an alias.                          *)
OptionsOnlyLead(args) ==
  LET e == ExtractOptions(args)
      taken == Len(args) - Len(e.rest)
      again == ExtractOptions(e.rest) IN
  /\ AliasesValid
  /\ e.ok =>
       /\ e.rest = SubSeq(args, taken + 1, Len(args))
       /\ \A i \in 1 .. taken : args[i].name \in Host \cup {"--"}
                               \/ (i > 1 /\ args[i - 1].name \in {"--format", "--target"})
       /\ taken > 0 /\ args[taken].name # "--" /\ again.ok => again.opts = NoOptions
=============================================================================

------------------------------- MODULE MCPlans -------------------------------
(***************************************************************************)
(* The plans and watch configurations that runs of the harness are made    *)
(* of, on bounded inputs: for each topic the set of its inputs, and what   *)
(* is checked of every one of them.  It is a sum of small families: within *)
(* a family everything is combined, between families nothing is.           *)
(***************************************************************************)
EXTENDS Integers, Sequences, FiniteSets, TLC

-----------------------------------------------------------------------------
(* Plans: three agents of which one serial is a prefix of another.         *)

Plans ==
  INSTANCE WatchConfig
  WITH IntMax <- 1048575, UintMax <- 2097151, MaxRetained <- 1000, DurationMax <- 100000,
       Millisecond <- 2, Day <- 48, Environment <- {"PSK"}

PlanAgents == <<[id |-> "1", serial |-> "AB"], [id |-> "2", serial |-> "ABC"],
                [id |-> "3", serial |-> "X"]>>
MacOf(a) == {[addr |-> a, form |-> "colon"]}
Sel(s, b, n) == [ssid |-> s, bssid |-> b, netid |-> n]
Retry(a, r, e, i) ==
  [Plans!NoPolicy EXCEPT !.attempts = a, !.repeat = r, !.eventually = e, !.interval = i]
PingAt(sel, required) ==
  [Plans!PingCheck(Plans!Nothing) EXCEPT !.op.sel = sel, !.required = required,
                                         !.policy = Retry(2, 2, 3, 1)]
SharedChecks ==
  {<<>>,
   <<Plans!WithPolicy(Plans!WiFiStatus, Plans!NoPolicy, TRUE)>>,
   <<Plans!WithPolicy(Plans!IPStatus, Plans!NoPolicy, TRUE),
     Plans!WithPolicy(Plans!GatewayPing(Plans!Nothing), Retry(2, 0, 0, 0), FALSE)>>,
   <<Plans!WithPolicy(Plans!WiFiEHT([Plans!Nothing EXCEPT !.fresh = TRUE]), Retry(0, 2, 0, 0), FALSE)>>}
(* A network that selects by every combination, with a probe that does.    *)
BindNetworks ==
  {[k EXCEPT !.ssid = "n", !.bssid = b, !.netid = n,
             !.checks = <<PingAt(Sel(s, c, i), TRUE), Plans!PingCheck(Plans!Nothing)>>] :
     k \in {Plans!ObservedWiFi, Plans!ActiveObservedWiFi, [Plans!WiFi EXCEPT !.psk = "value"]},
     b \in {{}, MacOf(1)}, n \in {{}, {7}}, s \in {"", "n", "m"}, c \in {{}, MacOf(1), MacOf(2)},
     i \in {{}, {7}, {8}}}
CostNetworks ==
  {[Plans!WiFi EXCEPT !.ssid = s, !.rotation = r, !.agent = a, !.psk = "value",
                      !.o = [Plans!Nothing EXCEPT !.band = b]] :
     s \in {"n", "m"}, r \in {"none", "per_target", "per_round"}, a \in {"", "A", "AB"},
     b \in {{}, {[word |-> "5ghz", cased |-> FALSE]}}}
(* One check of every kind.                                                *)
EveryCheck ==
  {Plans!WiFiScan(Plans!Nothing), Plans!WiFiScan([Plans!Nothing EXCEPT !.fresh = TRUE]),
   Plans!WiFiScanDetail([Plans!Nothing EXCEPT !.ssid = "n"]), Plans!WiFiCapabilities,
   Plans!DNSCheck(Plans!Nothing), Plans!GlobalIPCheck(Plans!Nothing),
   Plans!PathMTUCheck(Plans!Nothing), Plans!TracerouteCheck(Plans!Nothing),
   Plans!HTTPCheck(Plans!Nothing), Plans!DownloadCheck(Plans!Nothing)}
PlanOf(checks, networks) == [networks |-> networks, checks |-> checks, interval |-> 0]
SelectChecks ==
  <<Plans!WithPolicy(Plans!WiFiStatus, Plans!NoPolicy, TRUE), Plans!IPStatus,
    Plans!PingCheck(Plans!Nothing)>>

-----------------------------------------------------------------------------
(* Watch configurations: durations around the limits, variables that name  *)
(* one another, targets with and without each option and default, and      *)
(* checks of every kind.                                                   *)

Tokens == {Plans!Lit("x"), Plans!Ref("a"), Plans!Ref("b"), Plans!Ref("c"), Plans!Ref("ssid")}
ShortTexts == {<<>>} \cup {<<t>> : t \in Tokens} \cup {<<Plans!Lit("x"), t>> : t \in Tokens}
Builtins == [ssid |-> <<Plans!Lit("n")>>, bssid |-> <<>>]
VarKeys == SUBSET {"a", "b", "c", "ssid"}

Asked == [Plans!NoTarget EXCEPT !.ssid = "n"]
Saved == [Asked EXCEPT !.passphrase = "p"]
Seen == [Asked EXCEPT !.observe = TRUE]
Active == [Seen EXCEPT !.active = TRUE]
Banded(t) == [t EXCEPT !.band = {[word |-> "5ghz", cased |-> FALSE]}]
Targets ==
  {Asked, Saved, Banded(Saved), Seen, Banded(Seen), Active, [Asked EXCEPT !.active = TRUE],
   [Saved EXCEPT !.passphraseEnv = "PSK"], [Asked EXCEPT !.passphraseEnv = "UNSET"],
   [Active EXCEPT !.bssid = MacOf(1), !.netid = {7}], [Seen EXCEPT !.ssid = "${a}"],
   [Saved EXCEPT !.connectTimeout = 1], [Saved EXCEPT !.waitTimeout = -2],
   [Saved EXCEPT !.connectTimeout = 4, !.requireValidated = {TRUE}], [Saved EXCEPT !.waitConnected = {FALSE}]}
  \cup {[Saved EXCEPT !.rotation = r, !.disconnectAfter = d, !.forgetAfter = f, !.mac = m] :
           r \in {"", "none", "per-target", "per_round", "often"}, d, f \in {{}, {TRUE}, {FALSE}},
           m \in {{}, {[word |-> "non-persistent", cased |-> FALSE]}, {[word |-> "none", cased |-> FALSE]}}}
Defaults ==
  {Plans!NoDefaults, [Plans!NoDefaults EXCEPT !.passphrase = "p", !.forgetAfter = {TRUE}],
   [Plans!NoDefaults EXCEPT !.rotation = "per_target", !.disconnectAfter = {FALSE}],
   [Plans!NoDefaults EXCEPT !.agent = "X", !.waitTimeout = 2]}

Typed(word) == [Plans!NoCheck EXCEPT !.type = [word |-> word, padded |-> FALSE]]
Words == {"wifi_status", "wifi_diagnostics", "wifi_eht", "wifi_capabilities", "wifi_scan", "ip_status",
          "ping", "gateway_ping", "traceroute", "path_mtu", "dns", "http", "global_ip", "download",
          "scan_detail", "telnet"}
Hosts == {<<>>, <<Plans!Lit("192.0.2.1")>>, <<Plans!Lit("x"), Plans!Ref("d")>>, <<Plans!Ref("a")>>, <<Plans!Ref("ssid")>>, <<Plans!Ref("d")>>}
WatchChecks ==
  {[Typed(w) EXCEPT !.host = h, !.url = h] : w \in Words, h \in Hosts \cup {<<Plans!Lit("http://x")>>}}
  \cup {[Typed("path_mtu") EXCEPT !.minMtu = l, !.maxMtu = h] : l, h \in {{}, {0}, {1}, {2}}}
  \cup {[Typed(w) EXCEPT !.hops = c, !.stableFor = t, !.interval = t] :
           w \in {"traceroute", "ip_status"}, c \in {{}, {0}}, t \in {-1, 0, 2}}
  \cup {[Typed(w) EXCEPT !.timeout = t, !.count = c, !.repeat = c] :
           w \in Words, t \in {0, 1, 4000}, c \in {{}, {0}, {2}}}
  \cup {[Typed(w) EXCEPT !.band = b, !.family = b, !.fresh = f] :
           w \in Words, b \in {<<>>, <<Plans!Lit("5ghz")>>, <<Plans!Lit("ipv4")>>}, f \in BOOLEAN}
  \cup {[Typed("wifi_scan") EXCEPT !.expect = {e}] :
           e \in [key : {"ap", "mlo_coverage", "rssi"}, raw : {"mapping", "text", "true"},
                  text : {<<Plans!Lit("true")>>, <<Plans!Ref("d")>>}, numbers : {{}, {"channel", "count"}},
                  fields : {{"ssid"}, {"channel", "count"}, {"min_count"}, {"colour"}}, valid : BOOLEAN]}
ConfigOf(t, defaults, obs, values, version) ==
  [version |-> version, interval |-> 0, vars |-> values, defaults |-> defaults, targets |-> <<t>>,
   checks |-> <<obs>>]
VarA == "a" :> <<Plans!Lit("192.0.2.1")>>
Loop1 == "a" :> <<Plans!Ref("a")>>

WatchInput(topic, in) ==
  \/ topic = "duration" /\
       \E tag \in {"mapping", "empty", "int", "str"}, unit \in {"", "d", "ms"},
          n \in {{}} \cup {{k} : k \in {-50001, -3, 0, 1, 2083, 2084, 50000, 50001}} :
         in = [tag |-> tag, unit |-> unit, count |-> n]
  \/ topic = "vars" /\ \E keys \in VarKeys : Cardinality(keys) \in {1, 2} /\ in \in [keys -> ShortTexts]
  \/ topic = "vars" /\ in \in [{"a", "b", "c"} -> {<<t>> : t \in Tokens} \cup {<<Plans!Ref("b"), Plans!Ref("c")>>}]
  \/ topic = "watch" /\
       \/ \E t \in Targets, d \in Defaults, w \in {"ip_status", "wifi_status"} :
            in = ConfigOf(t, d, Typed(w), VarA, 1)
       \/ \E t \in {Saved, Seen, Active, [Active EXCEPT !.bssid = MacOf(1)], [Seen EXCEPT !.ssid = "${a}"]},
             c \in WatchChecks, v \in {VarA, Loop1, <<>>} :
            in = ConfigOf(t, Plans!NoDefaults, c, v, 0)
       \/ \E v \in 0 .. 2, t \in {Saved, Active} :
            in = [ConfigOf(t, Plans!NoDefaults, Typed("ip_status"), <<>>, v)
                    EXCEPT !.targets = <<t, [t EXCEPT !.checks = <<Typed("ip_status")>>]>>]

Callings == UNION {[1 .. k -> {"A", "a", "-", "b"}] : k \in 0 .. 3}

PlanInput(topic, in) ==
  \/ topic = "bind" /\ \E c \in SharedChecks, n \in BindNetworks : in = PlanOf(c, <<n>>)
  \/ topic \in {"bind", "cost"} /\ \E c \in EveryCheck, n \in BindNetworks :
       n.checks[1].op.sel.bssid = {} /\ in = PlanOf(<<c>>, <<n>>)
  \/ topic = "cost" /\ \E c \in SharedChecks, n, k \in CostNetworks : in = PlanOf(c, <<n, k>>)
  \/ topic = "select" /\
       \E n \in {k \in CostNetworks : k.o.band = {} /\ k.agent # "A"},
          ag \in SUBSET {"1", "2", "3"}, ch \in SUBSET {<<"check", i>> : i \in 1 .. 3} :
         in = [plan |-> PlanOf(SelectChecks, <<n, n>>), agents |-> ag, checks |-> ch]
  \/ topic = "agents" /\
       \E s \in {"", "A", "AB", "ABC", "X", "Y"}, sub \in [1 .. 3 -> {"AB", "ABC", "X", ""}] :
         in = [selector |-> s, agents |-> [i \in 1 .. 3 |-> [id |-> ToString(i), serial |-> sub[i]]]]
  \/ topic = "resolve" /\
       \E t \in Callings, n \in [1 .. 3 -> {{}, {<<"a">>}, {<<"A", "-", "b">>}, {<<"a", "b">>, <<>>}, {<<"b">>, <<"a", "b", "b">>}}] :
         in = [text |-> t, agents |-> {[id |-> i, names |-> n[i]] : i \in 1 .. 3}]
  \/ topic \in {"duration", "vars", "watch"} /\ WatchInput(topic, in)

PlanHolds(topic, in) ==
  CASE topic = "bind" -> Plans!BoundToTarget(Plans!Compile(in, PlanAgents))
    [] topic = "cost" -> Plans!CostCovers(Plans!Compile(in, PlanAgents))
    [] topic = "select" ->
         LET p == Plans!Compile(in.plan, PlanAgents)
             scopes == [agent : in.agents, target : {1}, check : in.checks]
         IN /\ Plans!SelectionSound(p, Plans!Select(p, in.agents, {1, 2}, in.checks), in.checks)
            /\ Plans!SelectionSound(p, Plans!SelectScopes(p, scopes), in.checks)
    [] topic = "duration" -> Plans!DurationExact(in)
    [] topic = "vars" -> Plans!VariablesResolve(in, Builtins)
    [] topic = "watch" ->
         /\ Plans!ConfigKept(in, PlanAgents)
         /\ Plans!Accepted(in) /\ Plans!Tidy(in) => Plans!GoesWhereTold(in)
    [] topic = "agents" -> Plans!ResolversAgree(in.selector, in.agents)
    [] topic = "resolve" -> Plans!NamesTheirAgent(in.text, in.agents)

PlanTopics == {"bind", "cost", "select", "agents", "resolve", "duration", "vars", "watch"}
=============================================================================

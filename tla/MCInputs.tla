------------------------------- MODULE MCInputs ------------------------------
(***************************************************************************)
(* The pure parts of the controller on bounded inputs: for each topic the  *)
(* set of its inputs, and what is checked of every one of them.  A sum of  *)
(* small families: within a family everything is combined, between         *)
(* families nothing is.                                                    *)
(***************************************************************************)
EXTENDS Integers, FiniteSets, Sequences, TLC

SeqsUpTo(S, n) == UNION {[1 .. k -> S] : k \in 0 .. n}

-----------------------------------------------------------------------------
(* Lines of the command language.  Values says what a word is as a value;  *)
(* the largest Int is 1048575, and 522 packets are the most whose derived  *)
(* timeout fits.                                                           *)

WordOf(n) ==
  [num |-> n, addr |-> {}, host |-> "name", url |-> "", ip |-> "", psk |-> FALSE, env |-> "",
   blank |-> FALSE]
Amounts == {0, 3, 100, 101, 522, 523, 60000, 60001, 1048575, 1048576}
LineValues ==
  [w \in {ToString(n) : n \in Amounts} |-> WordOf(CHOOSE n \in Amounts : ToString(n) = w)]
  @@ ("m1" :> [WordOf(0) EXCEPT !.addr = {[addr |-> 1, form |-> "colon"]}])
  @@ ("secret12" :> [WordOf(0) EXCEPT !.psk = TRUE])
  @@ ("VAR" :> [WordOf(0) EXCEPT !.env = "secret12"])
  @@ ("gw" :> [WordOf(0) EXCEPT !.ip = "ipv4"])
  @@ ("page" :> [WordOf(0) EXCEPT !.url = "http"])
  @@ (" " :> [WordOf(0) EXCEPT !.blank = TRUE])

Shell == INSTANCE CommandGrammar WITH IntMax <- 1048575, UintMax <- 2097151, Values <- LineValues

Keywords == {"show", "sh", "wifi", "w", "scan", "det", "check", "last", "checks", "adb", "con",
             "networks", "--diag", "p", "help", "use", "eht", "c", ""}
Starts == {<<"show", "wifi", "scan">>, <<"sh", "w", "sc">>, <<"ping">>, <<"p">>, <<"wifi", "connect">>,
           <<"show", "w", "e">>, <<"check">>, <<"w", "cy">>, <<"dns">>}
Options == {"count", "c", "3", "fresh", "de", "ssid", "m1", "bssid", "link", "family", "ipv4",
            "pass", "passphrase", "secret12"}
LabLine == <<"check", "lab", "ssid", "s", "family", "ipv4", "gateway", "gw", "dns", "d", "resolver",
             "selected", "http", "page", "expected-status", "200", "timeout", "3">>

HostArgs == {[name |-> n, value |-> v] :
               n \in {"--format", "--target"}, v \in {{}, {"json"}, {""}}}
            \cup {[name |-> n, value |-> {}] : n \in {"--all", "--", "json", "show"}}

LineInput(topic, in) ==
  \/ topic = "line" /\
       \/ in \in SeqsUpTo(Keywords, 3)
       \/ \E a \in Starts, t \in SeqsUpTo(Options, 2) : in = a \o t
       \/ \E t \in [1 .. 3 -> Options] : in = <<"ping">> \o t
       \/ \E t \in SeqsUpTo({"s", "passphrase", "secret12", "passphrase-env", "VAR"}, 4) :
            in = <<"wifi", "connect">> \o t
       \/ \E n \in 1 .. Len(LabLine) : in = SubSeq(LabLine, 1, n)
  \/ topic = "options" /\ in \in SeqsUpTo(HostArgs, 3)
  \/ topic = "limit" /\
       \E path \in {<<"ping">>, <<"traceroute">>, <<"path-mtu">>, <<"dns">>, <<"http">>, <<"wifi", "cycle">>},
          key \in {"count", "pause", "timeout", "size", "min-mtu", "max-mtu"}, n \in Amounts :
         in = [path |-> path, key |-> key, word |-> ToString(n)]

(* Lines of characters, written with each kind of quoting or at random,    *)
(* and pipelines over small texts.                                         *)
Chars == INSTANCE ShellLine

OddWords == SeqsUpTo({"x", " ", "|", "\\", "\"", "'"}, 2)
StageLists == {<<<<"display">>, <<"json">>>>, <<<<"display">>, <<"set">>>>, <<<<"match">>, <<"x">>>>,
               <<<<"match">>, <<"x">>, <<"y">>>>, <<<<"except">>, <<"y">>>>, <<<<"count">>>>, <<<<"no-more">>>>}

ScanInput(topic, in) ==
  \/ topic = "quote" /\ \E l, r \in OddWords, m \in {<<>>, <<<<"y">>>>, <<<<" ", "y">>>>}, c \in {"'", "\"", "\\"} :
       in = [left |-> <<l>> \o m, right |-> m \o <<r>>, by |-> c]
  \/ topic = "scan" /\ in \in SeqsUpTo({"x", " ", "|", "\\", "'", "\""}, 5)
  \/ topic = "pipe" /\ \E s \in SeqsUpTo(StageLists, 3),
                       t \in SeqsUpTo({<<"x", " ", "y">>, <<"x">>, <<"y">>, <<>>}, 2) :
       in = [stages |-> s, text |-> t]

ScanHolds(topic, in) ==
  CASE topic = "quote" -> Chars!QuotingFaithful(in.left, in.right, in.by)
    [] topic = "scan" -> Chars!ScannersAgree(in)
    [] topic = "pipe" -> Chars!PipelineExact(in.stages, in.text)

LineHolds(topic, in) ==
  CASE topic \in {"quote", "scan", "pipe"} -> ScanHolds(topic, in)
    [] topic = "line" -> Shell!SuggestionsLead(in) /\ Shell!AbbreviationsFaithful(in)
    [] topic = "options" -> Shell!OptionsOnlyLead(in)
    [] topic = "limit" -> Shell!LimitsAgree(in.path, in.key, in.word)

(* Operations as the plan builds them: each option left out, zero, at a    *)
(* limit and beyond it.                                                    *)
None == Shell!Nothing
Amount == {{}, {0}, {1}, {100}, {101}, {522}, {523}, {1046}, {1047}, {1048575}, {1048576}, {2097151},
           {2097152}}
Families == {{[word |-> f, cased |-> FALSE]} : f \in {"all", "ipv4"}} \cup {{}}
Limits == {{}, {999}, {1000}, {1666}, {1667}, {2999}, {3000}, {4999}, {5000}}
CommandInput(in) ==
  \/ \E c, t \in Amount : in = Shell!PingOperation([None EXCEPT !.count = c, !.timeout = t])
  \/ \E c, t \in Amount, p \in {{}, {0}, {60000}, {60001}} :
       in = Shell!WifiCycleOperation([None EXCEPT !.ssid = "s", !.count = c, !.timeout = t, !.pause = p])
  \/ \E t \in Amount :
       \/ in = Shell!WifiConnectOperation([None EXCEPT !.ssid = "s", !.timeout = t])
       \/ in = Shell!WifiFreshScanOperation([None EXCEPT !.timeout = t])
       \/ in = Shell!WifiWaitConnectedOperation([None EXCEPT !.timeout = t])
       \/ in = Shell!WifiAssertOperation([None EXCEPT !.timeout = t])
       \/ in = Shell!WifiReconnectOperation([None EXCEPT !.timeout = t])
       \/ \E i \in Amount : in = Shell!WifiMonitorOperation([None EXCEPT !.timeout = t, !.interval = i])
       \/ \E f \in Families : in = Shell!GlobalIPOperation([None EXCEPT !.timeout = t, !.family = f])
       \/ \E q \in {"all", "a", "aaaa"} :
            in = Shell!DNSOperation([None EXCEPT !.timeout = t, !.qtype = {[word |-> q, cased |-> FALSE]}])
       \/ \E lo, hi \in Amount :
            in = Shell!PathMTUOperation([None EXCEPT !.timeout = t, !.minMtu = lo, !.maxMtu = hi])
  \/ \E t \in Limits, h \in {"name", "literal"} :
       LET o == [None EXCEPT !.timeout = t, !.host = h] IN
       in \in {Shell!PingOperation(o), Shell!TracerouteOperation(o), Shell!PathMTUOperation(o),
              Shell!DownloadOperation(o), Shell!HTTPOperation(o)}
  \/ \E c \in 18 .. 26, p \in {{}, {1}, {2000}}, h \in {"name", "literal"}, g, f \in BOOLEAN,
       u \in {"", "https"} :
       in = Shell!WifiCycleOperation([None EXCEPT !.ssid = "s", !.count = {c}, !.pause = p, !.host = h,
                                                  !.ping = g, !.forget = f, !.http = u])

CommandHolds(op) == Shell!WaitsOutlastAgent(op) /\ Shell!NumbersSurvive(op)
-----------------------------------------------------------------------------
(* The graph of recent events: up to three of them around the window.      *)

Graph == INSTANCE WatchSummaries WITH HotspotWindow <- 1

GraphInput(in) ==
  \E t \in SUBSET (0 .. 7), w \in 1 .. 5, g \in {1, 3, 5}, c \in 1 .. 4 :
    Cardinality(t) \in 1 .. 3 /\ in = [times |-> t, width |-> w, window |-> g, columns |-> c]

GraphHolds(in) == Graph!HistogramComplete(in.times, in.width, in.window, 6, in.columns)

-----------------------------------------------------------------------------
(* What the controller shows of an answer: the elements of an access point *)
(* and the EHT report of a device.                                         *)

Bytes == INSTANCE BeaconElements
Eht == INSTANCE WifiReport

-----------------------------------------------------------------------------
(* Elements: what a station's profile may hold, complete elements of one   *)
(* or two stations, and bodies, neighbor reports, suites and profiles.     *)

Elements ==
  {<<>>,
   <<<<0, <<65>>>>, <<255, <<107, 0, 0, 7, 1, 2, 3, 4, 5, 6>>>>>>,
   <<<<48, <<1, 0, 0, 15, 172, 9>>>>, <<255, <<106, 3, 0, 0, 0, 0, 2, 0, 0, 4, 0>>>>>>}
Stations ==
  [link : {1, 15}, bits : {{}, {4, 5}, {5, 6, 8, 9, 10}, {5, 7, 9, 11}}, elements : Elements]
SecondStation == [link |-> 2, bits |-> {4, 5}, elements |-> <<>>]
Neighbors == [count : {1, 2}, info : {1, 7, 16}, class : {81, 131, 0}, channel : {1}]

ElementInput(topic, in) ==
  \/ /\ topic = "mle"
     /\ \E bits \in {{}, {4, 5, 8}, {4, 5, 6, 7, 8, 9, 10}}, st \in Stations, two \in BOOLEAN :
          in = [bits |-> bits, stations |-> IF two THEN <<st, SecondStation>> ELSE <<st>>]
  \/ /\ topic = "body"
     /\ in \in {<<36>> \o [i \in 1 .. 15 |-> 255], <<36, 0, 0, 2, 133, 0, 0, 1, 2, 3, 4, 5>>,
                [i \in 1 .. 12 |-> 171]}
  \/ topic = "class" /\ in \in 80 .. 184
  \/ topic = "rnr" /\ \E a, b \in Neighbors : in = <<a, b>>
  \/ /\ topic = "rsn"
     /\ in \in [group : {4, 9}, pairs : {<<4>>, <<4, 9>>}, akms : {<<8>>, <<8, 24>>, <<25>>}, flags : {0, 64, 192}]
  \/ /\ topic = "profiles"
     /\ LET kinds == Elements \cup {<<<<85, <<1, 2>>>>, <<255, <<56, 1, 7, 1, 8>>>>>>}
        IN \E a, b \in kinds : in = <<a, b>>

ElementHolds(topic, in) ==
  CASE topic = "mle" -> /\ Bytes!MultiLinkReadsBack(in.bits, in.stations)
                        /\ Bytes!MultiLinkCutShows(in.bits, in.stations)
                        /\ Bytes!FragmentsRejoin(in.bits, in.stations[1])
    [] topic = "body" -> Bytes!BodyCutShows(in)
    [] topic = "class" -> Bytes!FrequencyInBand(in)
    [] topic = "rnr" -> Bytes!NeighborsReadBack(in)
    [] topic = "rsn" -> Bytes!RsnCutShows(in.group, in.pairs, in.akms, in.flags, [i \in 1 .. 11 |-> 16])
    [] topic = "profiles" -> Bytes!ProfilesReadBack(in)

-----------------------------------------------------------------------------
(* The EHT report: a connection and two access points that may be one MLD, *)
(* by its address, spelled in several ways, or by their BSSIDs; observed   *)
(* or not; of a scan that is recent or not, and each filter.               *)

NoMac == Eht!NoMac
Mac(m) == [NoMac EXCEPT !.mac = m]
Shouted(m) == [mac |-> m, upper |-> TRUE, padded |-> TRUE]
NoIe == [has |-> FALSE, mld |-> NoMac, link |-> <<>>, links |-> {}]
SomeIe == [has |-> TRUE, mld |-> Mac("m1"), link |-> <<1>>, links |-> {1, 2}]
Link(id, state) == [id |-> id, ap |-> Mac("b2"), state |-> state, band |-> "5ghz"]

Connections ==
  [ssid : {"s"}, bssid : {Mac("b1")}, ip : {FALSE}, networkId : {0}, connected : {TRUE},
   mld : {Mac("m1"), NoMac, Mac("zero")}, mldState : {"available"}, assocState : {"available"},
   identity : {"available", "unavailable"}, link : {0}, linkState : {"available", ""},
   assoc : {<<>>, <<Link(0, "available"), Link(1, "available")>>, <<Link(1, "unavailable")>>},
   aff : {<<>>}, ie : {NoIe}, parts : {{"heOperation"}}, flags : {{}}, details : {<<>>}]
OneConnection ==
  [CHOOSE c \in Connections : c.mld = Mac("m1") /\ c.linkState = "available" /\ Len(c.assoc) = 2
   EXCEPT !.identity = "available"]

Result ==
  [ssid |-> "s", bssid |-> Mac("b1"), mld |-> Mac("m1"), link |-> 0, linkState |-> "available", aff |-> <<>>,
   ie |-> NoIe, standard |-> "802.11be", age |-> <<3>>, rssi |-> 50, band |-> "", freq |-> 5180, types |-> <<>>,
   capabilities |-> <<"wpa2">>, op |-> <<>>, parts |-> {}, flags |-> {}, details |-> <<>>]
FirstResults ==
  {[Result EXCEPT !.mld = m, !.age = a, !.linkState = s] :
     m \in {Mac("m1"), NoMac}, a \in {<<>>, <<10>>, <<11>>}, s \in {"available", "unavailable"}}
SecondResults ==
  {[Result EXCEPT !.ssid = n, !.bssid = Mac("b2"), !.mld = m, !.link = 1, !.linkState = "", !.ie = e, !.rssi = 60] :
     n \in {"s", "other"}, m \in {Shouted("m1"), Mac("m2"), NoMac}, e \in {NoIe, SomeIe}}
  \cup {[Result EXCEPT !.bssid = Mac("b2"), !.mld = NoMac, !.linkState = "", !.standard = t, !.rssi = 60,
                       !.aff = l, !.op = o, !.details = <<[akm |-> {"ft_sae"}, extended |-> {}]>>] :
          t \in {"802.11be", "802.11ax"}, l \in {<<>>, <<Link(1, "available")>>, <<Link(1, "unavailable")>>},
          o \in {<<>>, <<[info |-> TRUE, width |-> "80", bitmapPresent |-> FALSE, bitmap |-> {}]>>}}

Scan == [results |-> <<>>, source |-> "", fresh |-> TRUE, updated |-> TRUE, errors |-> {}, count |-> <<>>]
Caps == [supported |-> {"6GHz"}, unsupported |-> {"802.11be"}]
Filters == {[ssid |-> "", bssid |-> NoMac], [ssid |-> "s", bssid |-> NoMac], [ssid |-> "", bssid |-> Mac("b2")]}
Report(c, scan, results) ==
  [status |-> <<[conn |-> c, enabled |-> TRUE, state |-> "enabled", denied |-> FALSE]>>,
   scan |-> [scan EXCEPT !.results = results], networks |-> c, caps |-> <<Caps>>]

EhtInput(in) ==
  \E f \in Filters :
    \/ \E c \in Connections, r \in FirstResults :
         in = [filter |-> f, report |-> Report(<<c>>, Scan, <<r>>)]
    \/ \E r \in FirstResults, q \in SecondResults :
         in = [filter |-> f, report |-> Report(<<OneConnection>>, Scan, <<r, q>>)]
    \/ \E q \in SecondResults, s \in {[Scan EXCEPT !.updated = FALSE], [Scan EXCEPT !.errors = {"e"}, !.source = "fresh"]},
          c \in {<<>>, <<OneConnection>>, <<[OneConnection EXCEPT !.mldState = "unavailable"]>>} :
         in = [filter |-> f, report |-> Report(c, s, <<q, Result>>)]

-----------------------------------------------------------------------------
ElementTopics == {"mle", "body", "class", "rnr", "rsn", "profiles"}
ReportTopics == ElementTopics \cup {"eht"}

ReportInput(topic, in) ==
  \/ topic \in ElementTopics /\ ElementInput(topic, in)
  \/ topic = "eht" /\ EhtInput(in)

ReportHolds(topic, in) ==
  IF topic = "eht" THEN Eht!ReportHolds(in.report, in.filter) ELSE ElementHolds(topic, in)
=============================================================================

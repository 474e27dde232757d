----------------------------- MODULE MCHarness ------------------------------
(***************************************************************************)
(* Two runs of the harness, one of two agents and one with every kind of   *)
(* step; beside them the plans that runs are made of and the evidence that *)
(* their checks are judged by, on bounded inputs: for each topic the set   *)
(* of its inputs, and what is checked of every one of them.  topic is      *)
(* "pair" or "steps" in the behaviours of a run; every other behaviour is  *)
(* one input, judged in one step.                                          *)
(***************************************************************************)
EXTENDS MCHarnessRun, MCPlans

SeqsUpTo(S, n) == UNION {[1 .. k -> S] : k \in 0 .. n}

-----------------------------------------------------------------------------
(* Routes and addresses, as `ip` and LinkProperties spell them.            *)

Ip == INSTANCE IpStatus

IpStatusOf(addresses, routes) ==
  [payload |-> TRUE, fields |-> [link_properties |-> "available"], addresses |-> addresses,
   dns |-> addresses, routes |-> routes, mtu |-> 0, privateDns |-> FALSE, validated |-> TRUE,
   internet |-> TRUE]
RoutePrefixes == {Ip!Prefix("ipv4", 0, 0), Ip!Prefix("ipv4", 2, 1), Ip!Prefix("ipv6", 0, 0),
                  Ip!Word("default")}
Hops == {Ip!Addr("ipv4", 2), Ip!Addr("ipv6", 1), Ip!Word("wlan0"), Ip!Prefix("ipv6", 2, 1)}
RouteTails == {<<>>, <<Ip!Word("wlan0")>>, <<Ip!Word("wlan0"), Ip!Word("mtu"), Ip!Word("0")>>}
Routes == {<<p, Ip!Word(v), a>> \o t : p \in RoutePrefixes, v \in {"->", "via"}, a \in Hops,
                                        t \in RouteTails}
Literals == {Ip!Prefix("ipv4", 2, 1), Ip!Addr("ipv4", 2), Ip!Addr("ipv6", 3), Ip!Word("bad"),
             Ip!Prefix("ipv6", 1, 2)}
Cidrs == {Ip!Prefix(f, n, l) : f \in {"ipv4", "ipv6"}, n \in 0 .. 3, l \in 0 .. 2}

IpInput(topic, in) ==
  /\ topic = "routes"
  /\ \/ \E r \in Routes, q \in {k \in Routes : k[2] = Ip!Word("->") /\ Len(k) = 4} :
          in = IpStatusOf(<<>>, <<r, q>>)
     \/ \E r \in Routes : in = IpStatusOf(<<>>, <<r>>)
     \/ \E a, b \in Literals : in = IpStatusOf(<<a, b>>, <<>>)
     \/ \E a \in Literals, p \in BOOLEAN, f \in {<<>>, [capabilities |-> "available"]} :
          in = [IpStatusOf(<<a>>, <<<<a>>>>) EXCEPT !.payload = p, !.fields = f]

IpHolds(in) == Ip!ReadersAgree(in) /\ \A c \in Cidrs : Ip!SelectorsAgree(in, c)

-----------------------------------------------------------------------------
(* Scan results and connections: one MLD in two spellings, ages unknown    *)
(* (-1) and known, frequencies of every band.                              *)

Wifi == INSTANCE WifiEvidence
Yaml == INSTANCE YamlMetrics
Probe == INSTANCE ProbeEvidence

Hw(m, upper) == [mac |-> m, upper |-> upper, padded |-> FALSE]
Mlds == {Wifi!NoMac, Hw("m1", FALSE), Hw("m1", TRUE), Hw("m2", FALSE)}
LinkOf(i) ==
  [id |-> i, state |-> "active", band |-> "6g", channel |-> 5, ap |-> Wifi!NoMac, sta |-> Wifi!NoMac]
ResultOf(standard, mld, id, aff, age, ssid) ==
  [ssid |-> ssid, bssid |-> Hw("b1", FALSE), standard |-> standard, width |-> "80mhz", band |-> "",
   freq |-> 5955, security |-> {"sae"}, rssi |-> -60, mld |-> mld, linkId |-> id, aff |-> aff,
   caps |-> {}, age |-> age, fields |-> [linkId |-> "available"]]
ScanResults == {ResultOf(s, m, i, a, -1, "net") :
                  s \in {<<"11", "ax">>, <<"wi-fi ", "7">>}, m \in Mlds, i \in {-1, 0},
                  a \in {<<>>, <<LinkOf(1)>>}}
ConnectionOf(fields, mld, id, assoc) ==
  [fields |-> fields, ssid |-> "net", bssid |-> Wifi!NoMac, standard |-> <<"be">>, freq |-> 5180,
   link |-> 0, tx |-> 0, rx |-> 0, rssi |-> -50, mld |-> mld, linkId |-> id, assoc |-> assoc,
   aff |-> <<>>]
Connections ==
  {ConnectionOf([assoc |-> "available"], m, i, a) :
     m \in Mlds \ {Hw("m2", FALSE)}, i \in {-1, 0},
     a \in {<<>>, <<LinkOf(-1)>>, <<LinkOf(1), LinkOf(0)>>}}
AnyAp == [p \in {"ssid", "bssid", "standard", "width", "band", "channel", "security", "minRssi",
                 "mloCapable", "mld", "mloLink", "affLink", "minAff", "fragments", "maxAge"} |-> {}]
ScanOf(x, y, ssid) ==
  [payload |-> TRUE, errors |-> <<>>,
   results |-> <<ResultOf(<<"be">>, Wifi!NoMac, 0, <<>>, x, ssid),
                 ResultOf(<<"be">>, Wifi!NoMac, 0, <<>>, y, "net")>>]
Ages == {-1, 0, 1, 2}

Groups == {[ssid |-> s, mld |-> m] : s \in {{}, {"net"}}, m \in {{}, {Hw("m1", TRUE)}}}
CapabilitiesOf(p, yes, no) ==
  [payload |-> p, fields |-> <<[key |-> "a", value |-> 0], [key |-> "a", value |-> 1]>>, errors |-> <<>>,
   supported |-> [band |-> yes, standard |-> {}], unsupported |-> [band |-> no, standard |-> {<<"be">>}]]
Diagnosis(p, c, s, results) == [payload |-> p, conn |-> c, scan |-> s, results |-> results]
AnyConn == ConnectionOf(<<>>, Hw("m1", FALSE), 1, <<LinkOf(1)>>)

EvidenceInput(topic, in) ==
  \/ topic = "mlo" /\ \E c \in Connections, r \in ScanResults, q \in {k \in ScanResults : k.linkId = 0 /\ k.standard # <<"11", "ax">>} :
       in = Diagnosis(TRUE, c, TRUE, <<r, q>>)
  \/ topic = "mlo" /\ \E p, s \in BOOLEAN, r \in ScanResults : in = Diagnosis(p, AnyConn, s, <<r>>)
  \/ topic = "support" /\
       \E p \in BOOLEAN, y, n \in SUBSET {"5g", "5ghz", "6ghz"}, v \in {"5ghz", "6g", "2.4ghz"} :
         in = [caps |-> CapabilitiesOf(p, y, n), kind |-> "band", value |-> v]
  \/ topic = "range" /\ \E lo, hi, v \in 0 .. 3, ok \in BOOLEAN :
       in = [low |-> lo, high |-> hi, obs |-> [ok |-> ok, value |-> v]]
  \/ topic = "age" /\ \E x, y \in Ages, n \in {"net", "other"}, a \in {{}, {"net"}}, b \in {{}, {0}, {1}} :
       in = [scan |-> ScanOf(x, y, n), ap |-> [AnyAp EXCEPT !.ssid = a, !.maxAge = b]]
  \/ topic = "channel" /\ \E f \in 2400 .. 2490 \cup 4900 .. 4990 \cup 5170 .. 5960 \cup 7100 .. 7130 :
       in = [mhz |-> f]

EvidenceHolds(topic, in) ==
  CASE topic = "mlo" -> /\ Wifi!MloViewsAgree(in)
                        /\ \A s \in Groups : Wifi!SelectorsCohere(in, s)
                        /\ Wifi!BuilderFinds(in.results[1])
    [] topic = "support" -> Wifi!SupportDecides(in.caps, in.kind, in.value)
    [] topic = "range" -> Wifi!BetweenSound(in.low, in.high, in.obs)
    [] topic = "age" -> Wifi!FreshMeansKnown(in.scan, in.ap)
    [] topic = "channel" -> \A g \in in.mhz - 60 .. in.mhz + 60 : Wifi!ChannelsDistinct(in.mhz, g)

-----------------------------------------------------------------------------
(* Results of probes and the YAML expectations about them.                 *)

FieldsOf(a) == {[g \in s |-> a] : s \in SUBSET {"identity", "rssi", "tx"}}
Statuses ==
  {[payload |-> TRUE, radio |-> r, enabled |-> TRUE, state |-> s, text |-> {s},
    ip |-> [payload |-> FALSE], conn |-> c] :
     r \in {<<>>, [radio |-> "available"], [radio |-> "unavailable"]}, s \in {"", "up"},
     c \in {Wifi!NoConn} \cup
       {[ConnectionOf(f, Wifi!NoMac, 0, <<>>) EXCEPT !.ssid = s, !.link = n, !.tx = n, !.rx = n,
                                                    !.rssi = n]
          @@ [security |-> "sae", width |-> "80mhz", ies |-> {<<255, 107>>}, details |-> {}] :
          f \in FieldsOf("available") \cup FieldsOf("unavailable"), s \in {"", "net"}, n \in {0, 7}}}
Scalar(v) == [k |-> "scalar", v |-> Yaml!Num(v)]
Op(op, v) == [k |-> "op", op |-> op, v |-> Yaml!Num(v)]
Expectations ==
  <<Scalar(0), [k |-> "word", v |-> "dontcare"], [k |-> "word", v |-> "present"], Op("!=", 0),
    Op("<=", 5), [k |-> "list", v |-> <<"net", "">>],
    [k |-> "map", v |-> [contains |-> <<"net">>, mode |-> "exact"]]>>
Parts == [error : BOOLEAN, nil : BOOLEAN, status : {"ok", "error", "canceled"}, payload : BOOLEAN,
          scan : {"none", "fresh"}]
FreshParts == {p \in Parts : p.error => ~p.nil /\ p.status = "ok"}
MainParts == {p \in FreshParts : p.scan = "none"}
Traces == [payload : BOOLEAN, reached : {{}, {TRUE}}, observationError : {"", "e"}, hops : {<<>>, <<{"h"}>>}]

(* One payload of each kind, with optional fields left out.                *)
Details == {[akm |-> <<"ft_sae", "psk">>, pairwise |-> <<"ccmp">>, rsnxe |-> <<"sae_h2e">>,
             extended |-> <<>>, warnings |-> <<>>, flags |-> {"pmf_required"}]}
ScanReport(results) ==
  [payload |-> TRUE, errors |-> <<"e">>,
   results |-> [i \in 1 .. results |->
     [ResultOf(<<"11", "be">>, Wifi!NoMac, 0, <<>>, 0, "net") EXCEPT !.security = "sae"]
       @@ [types |-> <<"sae", "">>, details |-> Details, ies |-> {}]]]
Payloads ==
  {[kind |-> "ping", p |-> [n \in Yaml!PingOptionals |-> o[n]]
      @@ [payload |-> TRUE, host |-> "h", count |-> 1, elapsed_ms |-> 2, exit_code |-> 0]] :
     o \in [Yaml!PingOptionals -> {{}, {0}}]}
  \cup {[kind |-> "traceroute", p |-> t @@ [output |-> {"h"}, max_hops |-> 3, exit_code |-> 1, elapsed_ms |-> 2]] :
          t \in {k \in Traces : k.payload}}
  \cup {[kind |-> "path_mtu", p |-> [payload |-> TRUE, discovered |-> d, path_mtu_bytes |-> 0,
                                     probes |-> b, elapsed_ms |-> 2, error |-> ""]] :
          d \in BOOLEAN, b \in SeqsUpTo(BOOLEAN, 2)}
  \cup {[kind |-> "dns", p |-> [payload |-> TRUE, name |-> "n", answers |-> a, elapsed_ms |-> 2,
                                error |-> ""]] :
          a \in SeqsUpTo([type : {"A", "AAAA", "CNAME"}, address : {"", "x"}], 2)}
  \cup {[kind |-> "global_ip", p |-> [payload |-> TRUE, addresses |-> a, elapsed_ms |-> 2, error |-> ""]] :
          a \in SeqsUpTo([family : {"ipv4", "ipv6"}, ip : {"", "x"}, global : BOOLEAN, error : {""}], 2)}
  \cup {[kind |-> "http", p |-> [url |-> "u", code |-> 200, want |-> 0, matched |-> TRUE,
                                 elapsed_ms |-> 2, error |-> ""]],
        [kind |-> "wget", p |-> [code |-> 200, length |-> 0, bytes |-> 1, bps |-> 1, elapsed_ms |-> 2,
                                 error |-> ""]],
        [kind |-> "capabilities", p |-> CapabilitiesOf(TRUE, {"5ghz"}, {})]}
  \cup {[kind |-> "scan", p |-> ScanReport(n)] : n \in 0 .. 2}
  \cup {[kind |-> k, p |-> IpStatusOf(<<a>>, <<>>) @@ [ip |-> IpStatusOf(<<a>>, <<>>), radio |-> <<>>,
                                                       conn |-> Wifi!NoConn]] :
          k \in {"ip_status", "diagnostics"}, a \in Literals}

YamlInput(topic, in) ==
  \/ topic = "metric" /\ \E st \in Statuses, i \in DOMAIN Expectations :
       in = [status |-> st, expect |-> Expectations[i]]
  \/ topic = "probe" /\ in \in Payloads
  \/ topic = "families" /\ \E a, b \in Literals : in = IpStatusOf(<<a, b>>, <<>>)
  \/ topic = "list" /\
       \E o, w \in SeqsUpTo({Ip!Addr("ipv4", 2), Ip!Addr("ipv4", 0), Ip!Word("x")}, 3),
          c \in {<<>>, <<Ip!Prefix("ipv4", 2, 1)>>, <<Ip!Prefix("ipv4", 0, 2), Ip!Prefix("ipv4", 3, 2)>>} :
         in = [observed |-> o, want |-> w, cidrs |-> c]
  \/ topic = "fresh" /\ \E want \in BOOLEAN, f \in FreshParts, p \in MainParts, req \in {<<>>, <<"h">>},
                          t \in Traces :
       in = [want |-> want, fresh |-> f, main |-> p, via |-> req, trace |-> t]

YamlHolds(topic, in) ==
  CASE topic = "metric" -> Yaml!YamlNeedsEvidence(in.status, Yaml!CompileMatcher(in.expect))
    [] topic = "probe" -> Yaml!ProbeReadersAgree(in.kind, in.p)
    [] topic = "families" -> Yaml!FamiliesSplit(in)
    [] topic = "list" -> Yaml!ListMatchersOrdered(in.observed, in.want, in.cidrs)
    [] topic = "fresh" -> Probe!FreshIsFresh(in.want, in.fresh, in.main, in.via, in.trace)

-----------------------------------------------------------------------------
VARIABLES eng, round, runCause, paused, skipped, canceled, asked, problems, evicted, outcome,
          state, work, check, steps, agentOutcome, dispatched
VARIABLES topic, input, judged

question == <<topic, input, judged>>
report == <<eng, round, runCause, paused, skipped, canceled, asked, problems, evicted, outcome,
            state, work, check, steps, agentOutcome, dispatched>>

(* Two agents of which one skips, pauses or cancels.                       *)
Pair ==
  INSTANCE HarnessRun
  WITH Agents <- TwoAgents, Agenda <- PairAgenda, Requests <- PairRequests, Attempts <- 1,
       Rounds <- 1, Loop <- FALSE, MaxRequests <- 2, Deliveries <- Reliable, Bands <- {},
       Raw <- {"pass", "fail"}

(* One agent, whose device lacks no band or the one that is asked for.     *)
Steps ==
  INSTANCE HarnessRun
  WITH Agents <- OneAgent, Agenda <- StepsAgenda, Requests <- StepsRequests, Attempts <- 1,
       Rounds <- 1, Loop <- FALSE, MaxRequests <- 1, Deliveries <- Reliable, Bands <- {"5g"},
       Raw <- {"pass", "fail", "canceled"}

(* What the theorems assume of an agenda holds of these two.               *)
ASSUME AgendasLaidOut == Pair!AgendaAssumption /\ Steps!AgendaAssumption

EvidenceTopics == {"mlo", "age", "channel", "support", "range"}
YamlTopics == {"metric", "list", "fresh", "probe", "families"}

HarnessInit ==
  /\ judged = FALSE
  /\ \/ topic = "steps" /\ input = 0 /\ Steps!Init
     \/ /\ Pair!Init
        /\ \/ topic = "pair" /\ input = 0
           \/ topic = "routes" /\ IpInput(topic, input)
           \/ topic \in EvidenceTopics /\ EvidenceInput(topic, input)
           \/ topic \in YamlTopics /\ YamlInput(topic, input)
           \/ topic \in PlanTopics /\ PlanInput(topic, input)

HarnessNext ==
  \/ topic = "pair" /\ Pair!Next /\ UNCHANGED question
  \/ topic = "steps" /\ Steps!Next /\ UNCHANGED question
  \/ topic \notin {"pair", "steps"} /\ ~judged /\ judged' = TRUE
       /\ UNCHANGED <<topic, input, report>>

HarnessSpec == HarnessInit /\ [][HarnessNext]_<<question, report>>

-----------------------------------------------------------------------------
(* HarnessRun!InterruptsSelected: only the selected scope is interrupted.  *)
InterruptsSelected ==
  (topic = "pair" => Pair!InterruptsSelected) /\ (topic = "steps" => Steps!InterruptsSelected)

(* HarnessRun!BlockedOnlyWhilePaused: no check waits for a resume that has *)
(* already come.                                                           *)
BlockedOnlyWhilePaused ==
  /\ topic = "pair" => Pair!BlockedOnlyWhilePaused
  /\ topic = "steps" => Steps!BlockedOnlyWhilePaused

(* HarnessRun!OutcomesCover: the verdicts of steps, agents and run nest.   *)
OutcomesCover ==
  (topic = "pair" => Pair!OutcomesCover) /\ (topic = "steps" => Steps!OutcomesCover)

(* HarnessRun!DispatchGated: nothing is sent against a request or after a  *)
(* failed prerequisite, the rotation before the round included.            *)
DispatchGated ==
  [][/\ topic = "pair" => Pair!SendsUnstopped /\ Pair!SendsAfterPrerequisites
     /\ topic = "steps" => Steps!SendsUnstopped /\ Steps!SendsAfterPrerequisites]_report

(* HarnessRun!CleanupExact: what was connected is disconnected and         *)
(* forgotten, once and in order, and nothing else is.                      *)
CleanupExact ==
  [][/\ topic = "pair" => Pair!CleansExactly
     /\ topic = "steps" => Steps!CleansExactly]_report

(* IpStatus: the readers of one route and of one address agree, but for    *)
(* the spellings that IpStatus!ReadersAgree names.                         *)
ReadersAgree == [][judged' /\ topic = "routes" => IpHolds(input)]_question

(* IpStatus!InterfacesAgree: "Interface is the route interface name when   *)
(* Android reported one" (harness/ip/ip.go:42).                            *)
InterfacesAgree == [][judged' /\ topic = "routes" => Ip!InterfacesAgree(input)]_question

(* WifiEvidence: unknown is never fresh, and the views of one multi-link   *)
(* AP agree however its address is spelled; YamlMetrics and ProbeEvidence: *)
(* no verdict without evidence, none from a scan that is not the fresh     *)
(* one, and one source for a quantity in both kinds of plan.               *)
EvidenceHonest ==
  [][/\ judged' /\ topic \in EvidenceTopics => EvidenceHolds(topic, input)
     /\ judged' /\ topic \in YamlTopics => YamlHolds(topic, input)]_question

(* WatchConfig: variables resolve whatever order a map is read in, a       *)
(* configuration is kept on its way to the engine, and an active           *)
(* observation goes only where it was told (for configurations without     *)
(* padded types and targets, see WatchConfig!Tidy); PlanCompiler: a        *)
(* probe of a compiled plan stays on its target, the cost bounds what the  *)
(* engine may do, a selection is closed under what its checks need, the    *)
(* two resolvers of a serial agree, and a name never means another agent.  *)
PlanSound == [][judged' /\ topic \in PlanTopics => PlanHolds(topic, input)]_question
=============================================================================

----------------------------- MODULE YamlMetrics -----------------------------
(***************************************************************************)
(* The metrics of a result that YAML plans name (harness/metrics.go) and   *)
(* the matchers such a plan compiles to (harness/metric_expect.go).        *)
(*                                                                         *)
(* The metrics of a result are a function from their names; a metric the   *)
(* report does not establish is not in its domain.  A value is [t, v] with *)
(* t one of "bool", "num", "str" and "list", or "spelled" and "blank" for  *)
(* the spellings of WifiNames.  A string that reads as a number or a       *)
(* Boolean is of that kind, for ParseFloat and ParseBool read it so.       *)
(***************************************************************************)
EXTENDS IpStatus, WifiEvidence, ProbeEvidence, Folds

Bool(v) == [t |-> "bool", v |-> v]
Num(v)  == [t |-> "num", v |-> v]
Str(v)  == [t |-> "str", v |-> v]
List(v) == [t |-> "list", v |-> v]
Spelled(v, empty) == [t |-> IF v = empty THEN "blank" ELSE "spelled", v |-> v]

(* Value.String is empty.                                                  *)
Blank(v) == \/ v.t = "blank"
            \/ v.t = "str" /\ v.v = ""
            \/ v.t = "list" /\ v.v = <<>>

When(known, metrics) == IF known THEN metrics ELSE <<>>
Merge(parts) == FoldLeft(LAMBDA all, m : m @@ all, <<>>, parts)

(* uniqueStrings and normalizeMetricTokens                                 *)
UniqueStrings(s) ==
  FoldLeft(LAMBDA out, v : IF v = "" \/ \E i \in DOMAIN out : out[i] = v
                           THEN out ELSE Append(out, v), <<>>, s)
Tokens(s) == UniqueStrings(s)
HasToken(tokens, wants) == tokens \cap wants # {}

-----------------------------------------------------------------------------
(* Security features                                                       *)

HasMloElement(ies) == <<255, 107>> \in ies

WifiConnectionHasMLO(c) ==
  ConnectionMloPresent(c) \/ HasMloElement(c.ies) \/ (c.standard = <<"802.11", "be">> /\ c.linkId >= 0)

WifiScanHasMLO(r) ==
  /\ r.linkId >= 0 \/ r.mld # NoMac \/ r.aff # <<>> \/ HasMloElement(r.ies)
  /\ NormalizeScanStandard(r.standard) \in {<<>>, <<"unknown">>, <<"be">>}

DetailFlags == {"rsn_present", "rsnxe_present", "pmf_capable", "pmf_required", "gcmp_256",
                "wifi7_personal_ready", "beacon_protection"}

(* addWifiSecurityFeatureMetrics; a feature has its name with hyphens and  *)
(* with underscores, here once.  Details are a set of at most one record   *)
(* [akm, pairwise, rsnxe, extended, warnings, flags].                      *)
SecurityFeatures(types, details, mlo) ==
  LET akm  == UNION {Range(Tokens(d.akm)) : d \in details}
      auth == Range(Tokens(types)) \cup akm
      AnyOf(set, wants) == Bool(HasToken(set, wants))
      psk  == {"psk", "ft_psk", "psk_sha256"}
      sae  == {"sae", "ft_sae", "sae_gdh", "ft_sae_gdh"}
      Of(d) ==
        LET rsnxe == Range(Tokens(d.rsnxe)) IN
        Merge(<<When(Tokens(d.akm) # <<>>, [security_akm_suites |-> List(Tokens(d.akm))]),
                When(Tokens(d.pairwise) # <<>>, [security_pairwise_ciphers |-> List(Tokens(d.pairwise))]),
                When(Tokens(d.rsnxe) # <<>>, [security_rsnxe_capabilities |-> List(Tokens(d.rsnxe))]),
                When(Tokens(d.extended) # <<>>, [security_extended_capabilities |-> List(Tokens(d.extended))]),
                When(d.warnings # <<>>, [security_warnings |-> List(d.warnings)]),
                [f \in DetailFlags |-> Bool(f \in d.flags)],
                [ft_sae |-> AnyOf(akm, {"ft_sae"}),
                 sae_gdh |-> Bool("sae_gdh" \in d.flags \cup akm),
                 ft_sae_gdh |-> Bool("ft_sae_gdh" \in d.flags \cup akm),
                 sae_h2e |-> AnyOf(rsnxe, {"sae_h2e"}), h2e |-> AnyOf(rsnxe, {"sae_h2e"}),
                 sae_public_key |-> AnyOf(rsnxe, {"sae_pk", "sae_pk_exclusively"}),
                 sae_public_key_exclusive |-> AnyOf(rsnxe, {"sae_pk_exclusively"}),
                 ssid_protection |-> AnyOf(rsnxe, {"ssid_protection"}),
                 bss_transition |-> AnyOf(Range(Tokens(d.extended)), {"bss_transition"})]>>)
  IN Merge(<<When(Tokens(types) # <<>>, [security_types |-> List(Tokens(types))]),
             [mlo |-> Bool(mlo), security_details_present |-> Bool(details # {}),
              psk |-> AnyOf(auth, psk), sae |-> AnyOf(auth, sae), owe |-> AnyOf(auth, {"owe"}),
              transition |-> Bool(HasToken(auth, psk) /\ HasToken(auth, sae))]>>
           \o SetToSeq({Of(d) : d \in details}))

-----------------------------------------------------------------------------
(* The metrics of each payload                                             *)

(* splitIPListByFamily with parseIPLiteral                                 *)
OfFamily(values, family) ==
  SelectSeq(values, LAMBDA a : a.k \in {"addr", "prefix"} /\ a.fam = family)

WifiStatusMetrics(st) ==
  LET c == st.conn
      Has(g) == Availability(c.fields, g) IN
  Merge(<<When(Availability(st.radio, "radio"), [enabled |-> Bool(st.enabled)]),
          When(st.ip.payload /\ Availability(st.ip.fields, "capabilities"),
               [validated |-> Bool(st.ip.validated)])>>
        \o (IF c = NoConn THEN <<>> ELSE
        <<When(Has("identity"), [ssid |-> Str(c.ssid), bssid |-> Spelled(c.bssid, NoMac)]),
          When(Has("rssi"), [rssi |-> Num(c.rssi)]),
          [frequency_mhz |-> Num(c.freq), band |-> Str(BandFromFrequency(c.freq)),
           standard |-> Spelled(c.standard, <<>>), security |-> Str(c.security),
           link_speed_mbps |-> Num(c.link), channel_width |-> Str(c.width)],
          When(Has("tx"), [tx_link_speed_mbps |-> Num(c.tx)]),
          When(Has("rx"), [rx_link_speed_mbps |-> Num(c.rx)]),
          When(Has("assoc"), [associated_mlo_link_count |-> Num(Len(c.assoc))]),
          When(Has("aff"), [affiliated_mlo_link_count |-> Num(Len(c.aff))]),
          SecurityFeatures(<<c.security>>, c.details, WifiConnectionHasMLO(c))>>))

IPStatusMetrics(ip) ==
  Merge(<<When(ip.payload /\ Availability(ip.fields, "capabilities"),
               [validated |-> Bool(ip.validated), internet |-> Bool(ip.internet)]),
          When(ip.payload /\ Availability(ip.fields, "link_properties"),
               [mtu |-> Num(ip.mtu), private_dns_active |-> Bool(ip.privateDns),
                address_count |-> Num(Len(ip.addresses)), addresses |-> List(ip.addresses),
                ipv4_addresses |-> List(OfFamily(ip.addresses, "ipv4")),
                ipv6_addresses |-> List(OfFamily(ip.addresses, "ipv6")),
                dns_server_count |-> Num(Len(ip.dns)), dns_servers |-> List(ip.dns),
                ipv4_dns_servers |-> List(OfFamily(ip.dns, "ipv4")),
                ipv6_dns_servers |-> List(OfFamily(ip.dns, "ipv6")),
                route_count |-> Num(Len(ip.routes)),
                default_route |-> Bool(HasDefaultRouteForFamily(ip.routes, "any")),
                ipv4_default_route |-> Bool(HasDefaultRouteForFamily(ip.routes, "ipv4")),
                ipv6_default_route |-> Bool(HasDefaultRouteForFamily(ip.routes, "ipv6"))])>>)

PingOptionals == {"transmitted", "received", "loss_percent", "min_latency_ms",
                  "avg_latency_ms", "max_latency_ms"}
PingMetrics(p) ==
  [n \in {o \in PingOptionals : p[o] # {}} |-> Num(Get(p[n], 0))]
    @@ [host |-> Str(p.host), count |-> Num(p.count), elapsed_ms |-> Num(p.elapsed_ms)]

(* The addresses of the records [type, address], and how many there are.   *)
Answered(d, types) == SelectSeq(d.answers, LAMBDA a : a.type \in types)
AddressesOf(s) == SelectSeq([i \in DOMAIN s |-> s[i].address], LAMBDA a : a # "")
DNSMetrics(d) ==
  [name |-> Str(d.name), answer_count |-> Num(Len(d.answers)),
   answers |-> List(AddressesOf(d.answers)),
   a_answers |-> List(AddressesOf(Answered(d, {"A"}))),
   aaaa_answers |-> List(AddressesOf(Answered(d, {"AAAA"}))),
   a_count |-> Num(Len(Answered(d, {"A"}))), aaaa_count |-> Num(Len(Answered(d, {"AAAA"}))),
   elapsed_ms |-> Num(d.elapsed_ms), error |-> Str(d.error)]

HTTPMetrics(h) ==
  [url |-> Str(h.url), status_code |-> Num(h.code), expected_status |-> Num(h.want),
   matched |-> Bool(h.matched), elapsed_ms |-> Num(h.elapsed_ms), error |-> Str(h.error)]

(* Records [family, ip, global, error].                                    *)
GlobalIPMetrics(g) ==
  LET Fam(fs) == SelectSeq(g.addresses, LAMBDA a : a.family \in fs)
      Ips(s) == List(SelectSeq([i \in DOMAIN s |-> s[i].ip], LAMBDA a : a # "")) IN
  [address_count |-> Num(Len(g.addresses)),
   global_ips |-> Ips(g.addresses), ipv4_global_ips |-> Ips(Fam({"ipv4"})),
   ipv6_global_ips |-> Ips(Fam({"ipv6"})),
   global_count |-> Num(Len(SelectSeq(g.addresses, LAMBDA a : a.global))),
   error_count |-> Num(Len(SelectSeq(g.addresses, LAMBDA a : a.error # ""))),
   ipv4_count |-> Num(Len(Fam({"ipv4"}))), ipv6_count |-> Num(Len(Fam({"ipv6"}))),
   elapsed_ms |-> Num(g.elapsed_ms), error |-> Str(g.error)]

TracerouteMetrics(t) ==
  LET o == TraceObservations(t) IN
  [max_hops |-> Num(t.max_hops), exit_code |-> Num(t.exit_code),
   elapsed_ms |-> Num(t.elapsed_ms)]
    @@ When(o.observed,
            [hop_count |-> Num(o.count), hop_ips |-> List(SetToSeq(o.addresses)),
             reached |-> Bool(Get(t.reached, FALSE))])

PathMTUMetrics(p) ==
  [discovered |-> Bool(p.discovered), path_mtu_bytes |-> Num(p.path_mtu_bytes),
   probe_count |-> Num(Len(p.probes)),
   passed_probe_count |-> Num(Len(SelectSeq(p.probes, LAMBDA b : b))),
   elapsed_ms |-> Num(p.elapsed_ms), error |-> Str(p.error)]

DownloadMetrics(w) ==
  [status_code |-> Num(w.code), content_length |-> Num(w.length), bytes_read |-> Num(w.bytes),
   throughput_bps |-> Num(w.bps), elapsed_ms |-> Num(w.elapsed_ms), error |-> Str(w.error)]

(* The first result speaks for the scan.                                   *)
WifiScanDetailMetrics(scan) ==
  LET r == scan.results[1] IN
  [visible |-> Bool(scan.results # <<>>), result_count |-> Num(Len(scan.results)),
   error_count |-> Num(Len(scan.errors))]
    @@ (IF scan.results = <<>> THEN <<>> ELSE
        [ssid |-> Str(r.ssid), bssid |-> Spelled(r.bssid, NoMac), rssi |-> Num(r.rssi),
         band |-> Str(IF r.band # "" THEN r.band ELSE BandFromFrequency(r.freq)),
         standard |-> Spelled(r.standard, <<>>), security |-> Str(r.security), channel_width |-> Str(r.width)]
          @@ SecurityFeatures(r.types, r.details, WifiScanHasMLO(r)))

CapabilityMetrics(c) ==
  [supported_bands |-> List(SetToSeq(c.supported.band)), unsupported_bands |-> List(SetToSeq(c.unsupported.band)),
   supported_standards |-> List(SetToSeq(c.supported.standard)),
   unsupported_standards |-> List(SetToSeq(c.unsupported.standard)),
   error_count |-> Num(Len(c.errors))]

(* metricsForResult: the payload's metrics over those of every result.     *)
PayloadMetrics(kind, p) ==
  CASE kind = "wifi_status" -> WifiStatusMetrics(p)
    [] kind = "ip_status" -> IPStatusMetrics(p)
    [] kind = "ping" -> PingMetrics(p)
    [] kind = "traceroute" -> TracerouteMetrics(p)
    [] kind = "path_mtu" -> PathMTUMetrics(p)
    [] kind = "dns" -> DNSMetrics(p)
    [] kind = "http" -> HTTPMetrics(p)
    [] kind = "global_ip" -> GlobalIPMetrics(p)
    [] kind = "wget" -> DownloadMetrics(p)
    [] kind = "scan" -> WifiScanDetailMetrics(p)
    [] kind = "capabilities" -> CapabilityMetrics(p)
    [] kind = "diagnostics" -> IPStatusMetrics(p.ip) @@ WifiStatusMetrics(p)
    [] OTHER -> <<>>

MetricsForResult(result) ==
  When(result.kind # "nil",
       PayloadMetrics(result.kind, result.payload)
         @@ [status |-> Str(result.status), elapsed_ms |-> Num(result.elapsed)])

-----------------------------------------------------------------------------
(* Expectations of a YAML plan                                             *)

(* Value.Strings: what the list matchers see.                              *)
Strings(v) == IF v.t = "list" THEN v.v ELSE IF Blank(v) THEN <<>> ELSE <<v.v>>

Clean(s) == SelectSeq(s, LAMBDA v : v # "")

(* matcherMode                                                             *)
MatcherMode(raw) ==
  CASE raw \in {"", "any", "at_least", "at-least"} -> "at_least"
    [] raw \in {"all", "exact"} -> "exact"
    [] OTHER -> "invalid"

Matcher(op, want, values, mode) == [op |-> op, want |-> want, values |-> values, mode |-> mode]
NoMatcher == Matcher("invalid", Str(""), <<>>, "")

(* compileMapMatcher: options are a function from option names; cidr comes *)
(* before cidrs, contains and exact, and a list is cleaned of blanks.      *)
CompileMapMatcher(options) ==
  LET mode == MatcherMode(IF "mode" \in DOMAIN options THEN options["mode"] ELSE "at_least")
      Op(k) == IF k \in {"cidr", "cidrs"} THEN "cidr" ELSE k \o "_values"
      first == SelectSeq(<<"cidr", "cidrs", "contains", "exact">>,
                         LAMBDA k : k \in DOMAIN options)
  IN IF \/ ~(DOMAIN options \subseteq {"mode", "cidr", "cidrs", "contains", "exact"})
        \/ mode = "invalid" \/ first = <<>>
     THEN NoMatcher
     ELSE Matcher(Op(first[1]), Str(""), Clean(options[first[1]]),
                  IF first[1] = "exact" THEN "" ELSE mode)

(* compileMatcher and compileStringMatcher: [op, want] as YAML spells it.  *)
CompileMatcher(raw) ==
  CASE raw.k = "list" -> Matcher("exact_values", Str(""), Clean(raw.v), "")
    [] raw.k = "map" -> CompileMapMatcher(raw.v)
    [] raw.k = "scalar" -> Matcher("==", raw.v, <<>>, "")
    [] raw.k = "word" -> Matcher(raw.v, Str(""), <<>>, "")
    [] raw.k = "op" -> Matcher(raw.op, raw.v, <<>>, "")

(* metricExpectation.Validate                                              *)
MatcherValid(m, known) ==
  /\ m # NoMatcher /\ known
  /\ m.op = "cidr" => m.values # <<>> /\ \A i \in DOMAIN m.values : m.values[i].k = "prefix"
  /\ m.op \in {">", ">=", "<", "<="} => m.want.t = "num"

(* valuesEqual: a Boolean or a number is compared as such.                 *)
ValuesEqual(observed, want) == observed.t = want.t /\ observed.v = want.v

ContainsObservedValues(observed, wants, mode) ==
  LET hits == {i \in DOMAIN wants : \E k \in DOMAIN observed : observed[k] = wants[i]}
  IN wants # <<>> /\ IF mode = "exact" THEN hits = DOMAIN wants ELSE hits # {}

(* Fault: the count of a value is not taken down when it is used.          *)
ExactBySet(observed, wants) ==
  Len(observed) = Len(wants) /\ Range(wants) \subseteq Range(observed)

(* exactObservedValues: every wanted value uses up one observed value.     *)
ExactObservedValues(observed, wants) ==
  LET counts == [v \in Range(observed) |-> Cardinality({i \in DOMAIN observed : observed[i] = v})]
      Use(s, w) == IF s.ok /\ w \in DOMAIN s.left /\ s.left[w] > 0
                   THEN [s EXCEPT !.left[w] = @ - 1] ELSE [s EXCEPT !.ok = FALSE]
  IN /\ Len(observed) = Len(wants)
     /\ FoldLeft(Use, [ok |-> TRUE, left |-> counts], wants).ok

(* cidrMatch: what does not read as an address does not count.             *)
CidrMatch(observed, cidrs, mode) ==
  LET parsed  == {i \in DOMAIN observed : observed[i].k \in {"addr", "prefix"}}
      matched == {i \in parsed : \E k \in DOMAIN cidrs : InPrefix(cidrs[k], observed[i])}
  IN cidrs # <<>> /\ IF mode = "exact" THEN parsed # {} /\ parsed = matched ELSE matched # {}

MatcherMatches(m, observed) ==
  CASE m.op = "dontcare" -> TRUE
    [] m.op = "contains_values" -> ContainsObservedValues(Strings(observed), m.values, m.mode)
    [] m.op = "exact_values" -> ExactObservedValues(Strings(observed), m.values)
    [] m.op = "cidr" -> CidrMatch(Strings(observed), m.values, m.mode)
    [] m.op = "==" -> ValuesEqual(observed, m.want)
    [] m.op = "!=" -> ~ValuesEqual(observed, m.want)
    [] m.op \in {">", ">=", "<", "<="} ->
         observed.t = "num" /\ m.want.t = "num"
           /\ Holds([op |-> m.op, value |-> m.want.v], observed.v)
    [] OTHER -> FALSE

(* Fault: an expectation about an absent metric is only a failed one.      *)
EvaluateMetricLenient(m, metrics, name) ==
  IF m.op \in {"dontcare", "!="} THEN "pass"
  ELSE IF name \notin DOMAIN metrics THEN "missing"
  ELSE IF m.op = "present" THEN Judge(~Blank(metrics[name]), TRUE)
  ELSE Judge(TRUE, MatcherMatches(m, metrics[name]))

(* metricExpectation.Evaluate                                              *)
EvaluateMetric(m, metrics, name) ==
  IF m.op = "dontcare" THEN "pass"
  ELSE IF name \notin DOMAIN metrics THEN "missing"
  ELSE IF m.op = "present" THEN Judge(~Blank(metrics[name]), TRUE)
  ELSE Judge(TRUE, MatcherMatches(m, metrics[name]))

-----------------------------------------------------------------------------
(* The list matchers are ordered: a list that is exactly the wanted one    *)
(* contains all of it and then some of it; exact means equal up to order,  *)
(* with repetitions; and "in these blocks" for all implies it for one.     *)
ListMatchersOrdered(observed, wants, cidrs) ==
  LET perms == {p \in [DOMAIN wants -> DOMAIN wants] :
                  \A i, k \in DOMAIN wants : p[i] = p[k] => i = k} IN
  /\ ExactObservedValues(observed, wants) <=>
       /\ Len(observed) = Len(wants)
       /\ \E p \in perms : \A i \in DOMAIN wants : observed[p[i]] = wants[i]
  /\ wants # <<>> /\ ExactObservedValues(observed, wants) =>
       ContainsObservedValues(observed, wants, "exact")
  /\ ContainsObservedValues(observed, wants, "exact") =>
       ContainsObservedValues(observed, wants, "at_least")
  /\ CidrMatch(observed, cidrs, "exact") => CidrMatch(observed, cidrs, "at_least")

(* Without the collector's word a YAML expectation about a gated metric    *)
(* has no verdict but missing, whatever it asks, and where the typed       *)
(* expectation about the same quantity has evidence both read one value.   *)
(* The radio has its own evidence; the expectations on the connection's    *)
(* text, its state and a custom one have a verdict with a connection only. *)
YamlNeedsEvidence(st, m) ==
  LET metrics == WifiStatusMetrics(st)
      twins == [ssid |-> "ssid", bssid |-> "bssid", rssi |-> "rssi",
                tx_link_speed_mbps |-> "tx", rx_link_speed_mbps |-> "rx"] IN
  /\ \A name \in DOMAIN twins :
       LET typed == ConnectionMetric(st, twins[name]) IN
       /\ name \notin DOMAIN metrics /\ m.op # "dontcare" =>
            EvaluateMetric(m, metrics, name) = "missing" /\ ~typed.ok
       /\ typed.ok => name \in DOMAIN metrics /\ metrics[name].v = typed.value
  /\ Enabled(st).ok <=> "enabled" \in DOMAIN metrics
  /\ Enabled(st).ok => metrics["enabled"].v = Enabled(st).value
  /\ State(st).ok => "frequency_mhz" \in DOMAIN metrics
  /\ \A verdict \in {RawContains(st, "up"), WifiAssert(st, "none"), WifiAssert(st, "failed")} :
       verdict = "missing" <=> "frequency_mhz" \notin DOMAIN metrics

(* A typed expectation and a YAML expectation about the same quantity of   *)
(* a probe have one source: where the typed reader has a value the YAML    *)
(* reader has the same one, and where it has none neither has the other.   *)
(* The one exception is exact: with an observation error YAML withholds    *)
(* the arrival of a traceroute and the typed reader does not (trace.go:50),*)
(* although TraceObservations is "the shared presence/count rule for typed *)
(* and YAML expectations" (trace_observation.go:5).  A result of another   *)
(* kind is no evidence to any.                                             *)
Typed(kind, p, name) ==
  CASE kind = "ping" -> PingMetric(p, name)
    [] kind = "traceroute" -> TraceMetric(p, name)
    [] kind = "path_mtu" -> PmtuMetric(p, name)
    [] kind = "global_ip" -> GlobalIpMetric(p, name)
    [] kind = "dns" -> DnsMetric(p, name)
    [] kind = "ip_status" -> IpMetric(p)[name]
    [] kind = "scan" -> IF name = "result_count" THEN ResultCount(p) ELSE ErrorCount(p)
    [] kind = "capabilities" -> CapabilityErrors(p)
Twins ==
  [ping |-> PingOptionals \cup {"elapsed_ms"},
   traceroute |-> {"hop_count", "reached", "exit_code", "elapsed_ms"},
   path_mtu |-> {"discovered", "path_mtu_bytes", "probe_count", "elapsed_ms"},
   global_ip |-> {"address_count", "elapsed_ms"}, dns |-> {"answer_count", "elapsed_ms"},
   ip_status |-> {"mtu", "private_dns_active", "validated", "internet"},
   scan |-> {"result_count", "error_count"}, capabilities |-> {"error_count"}]
ProbeReadersAgree(kind, p) ==
  LET metrics == MetricsForResult([kind |-> kind, payload |-> p, status |-> "ok", elapsed |-> 0]) IN
  /\ kind \in DOMAIN Twins =>
       \A name \in Twins[kind] :
         LET typed == Typed(kind, p, name) IN
         /\ name \in DOMAIN metrics => typed.ok /\ typed.value = metrics[name].v
         /\ typed.ok => (name \notin DOMAIN metrics <=> name = "reached" /\ p.observationError # "")
  /\ kind = "traceroute" /\ TraceObservations(p).observed => OutputContains(p, "h") # "missing"
  /\ \A op \in {">", "<=", "present", "!="} :
       LET m == Matcher(op, Num(0), <<>>, "") IN
       /\ MatcherValid(m, TRUE)
       /\ EvaluateMetric(m, MetricsForResult([kind |-> "nil"]), "elapsed_ms") = "missing"
  /\ LET r == [nil |-> FALSE, kind |-> kind]
         verdicts == <<PingAssert(r, "none"), TraceAssert(r, "none"), PmtuAssert(r, "none"),
                       GlobalIpAssert(r, "none"), DnsAssert(r, "none"), ScanAssert(r, "none"),
                       CapabilitiesAssert(r, "none")>>
     IN Cardinality({i \in DOMAIN verdicts : verdicts[i] = "pass"}) <= 1

(* The counts of addresses by family never exceed the list they count, and *)
(* a list of addresses splits into its families.                           *)
FamiliesSplit(ip) ==
  LET metrics == IPStatusMetrics(ip)
      typed == IpMetric(ip) IN
  "addresses" \in DOMAIN metrics =>
    /\ Len(metrics.ipv4_addresses.v) = typed.ipv4_address_count.value
    /\ Len(metrics.ipv6_addresses.v) = typed.ipv6_address_count.value
    /\ typed.address_count.value <= metrics.address_count.v
    /\ typed.dns_server_count.value <= Len(metrics.ipv4_dns_servers.v) + Len(metrics.ipv6_dns_servers.v)
    /\ typed.default_route.value => metrics.default_route.v
=============================================================================

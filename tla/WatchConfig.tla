----------------------------- MODULE WatchConfig -----------------------------
(***************************************************************************)
(* The watch configuration and the plan made of it (internal/watch): the   *)
(* durations, the defaults and variables of targets, the templates of      *)
(* checks, and the validation on the way to a plan of PlanCompiler.        *)
(*                                                                         *)
(* A text is a sequence of tokens, literals and references ${key}; what is *)
(* left out is the empty set or the empty text.  A duration counts ticks,  *)
(* of which Millisecond make a millisecond.  A check's own policy timeout  *)
(* is CheckPolicy's; names that are only shown are left out.               *)
(***************************************************************************)
EXTENDS PlanCompiler

CONSTANTS DurationMax,   \* the largest duration, 2^63 - 1 ns in the code
          Millisecond,   \* the ticks of a millisecond
          Day,           \* the ticks of a day
          Environment    \* the environment variables that are set

-----------------------------------------------------------------------------
(* Durations: a scalar is [tag, unit, count], the count {} where the text  *)
(* before the unit is no integer.                                          *)

NoDuration == [ok |-> FALSE, ticks |-> 0]
Ticks(n) == [ok |-> TRUE, ticks |-> n]
Whole(count, unit) ==
  IF count = {} \/ The(count) < 0 \/ The(count) > DurationMax \div unit THEN NoDuration
  ELSE Ticks(The(count) * unit)

(* time.ParseDuration takes a sign, asks for a unit but of zero, and       *)
(* refuses what does not fit.                                              *)
GoDuration(v) ==
  IF \/ v.count = {}
     \/ v.unit = "" /\ v.count # {0}
     \/ The(v.count) * Millisecond \notin (-DurationMax - 1) .. DurationMax
  THEN NoDuration ELSE Ticks(The(v.count) * Millisecond)
ParseDuration(v) == IF v.unit = "d" THEN Whole(v.count, Day) ELSE GoDuration(v)

UnmarshalDuration(v) ==
  CASE v.tag = "mapping" -> NoDuration
    [] v.tag = "empty" -> Ticks(0)
    [] v.tag = "int" -> Whole(v.count, Millisecond)
    [] v.tag = "str" -> ParseDuration(v)

(* millis and durationMS: whole milliseconds, cut towards zero, of what is *)
(* not zero; a fraction of one becomes an explicit 0, which is refused.    *)
MillisOf(t) == IF t = 0 THEN {} ELSE {IF t < 0 THEN -((-t) \div Millisecond) ELSE t \div Millisecond}

-----------------------------------------------------------------------------
(* Texts                                                                   *)

Lit(w) == [ref |-> FALSE, word |-> w]
Ref(k) == [ref |-> TRUE, word |-> k]
Blank == Lit(" ")
TrimSpace(t) ==
  LET ink == {i \in DOMAIN t : t[i] # Blank}
  IN IF ink = {} THEN <<>> ELSE SubSeq(t, Min(ink), Max(ink))
FirstNonEmpty(texts) ==
  LET full == SelectSeq(texts, LAMBDA t : TrimSpace(t) # <<>>)
  IN IF full = <<>> THEN <<>> ELSE TrimSpace(full[1])

(* A text as a word of the command language: several tokens are none.      *)
AsWord(t) == IF t = <<>> THEN "" ELSE IF Len(t) = 1 /\ ~t[1].ref THEN t[1].word ELSE "other"
AsOption(t) == IF t = <<>> THEN {} ELSE {[word |-> AsWord(t), cased |-> FALSE]}

Failed == [ok |-> FALSE, text |-> <<>>]
Done(t) == [ok |-> TRUE, text |-> t]
Joined(parts) ==
  IF \A i \in DOMAIN parts : parts[i].ok
  THEN Done(FlattenSeq([i \in DOMAIN parts |-> parts[i].text])) ELSE Failed

(* resolveTemplateString over the values of a target; a replacement is not *)
(* read again.                                                             *)
ResolveTargetTemplate(t, values) ==
  Joined([i \in DOMAIN t |->
            IF ~t[i].ref THEN Done(<<t[i]>>)
            ELSE IF t[i].word \in DOMAIN values THEN Done(values[t[i].word]) ELSE Failed])

(* resolveTargetVars: variables first, then what every target has; a       *)
(* variable that is being resolved must not be asked for again.            *)
ResolveVars(source, builtins) ==
  LET value[k \in DOMAIN source, resolving \in SUBSET DOMAIN source] ==
        LET of(ref) ==
              IF ref \in resolving THEN Failed
              ELSE IF ref \in DOMAIN source THEN value[ref, resolving \cup {ref}]
              ELSE IF ref \in DOMAIN builtins THEN Done(builtins[ref]) ELSE Failed
            t == source[k]
        IN Joined([i \in DOMAIN t |-> IF t[i].ref THEN of(t[i].word) ELSE Done(<<t[i]>>)])
  IN [k \in DOMAIN source |-> value[k, {k}]]

-----------------------------------------------------------------------------
(* Targets                                                                 *)

NoDefaults ==
  [agent |-> "", passphrase |-> "", passphraseEnv |-> "", security |-> {}, mac |-> {},
   rotation |-> "", connectTimeout |-> 0, waitTimeout |-> 0, requireIP |-> {}, requireValidated |-> {},
   disconnectAfter |-> {}, forgetAfter |-> {}]
NoTarget ==
  NoDefaults @@ [name |-> <<>>, shortName |-> <<>>, ssid |-> "", bssid |-> {}, netid |-> {},
                 band |-> {}, waitConnected |-> {}, observe |-> FALSE, active |-> FALSE,
                 vars |-> <<>>, checks |-> <<>>]

(* applyTargetDefaults: what a target leaves out comes from the defaults.  *)
ApplyTargetDefaults(t, defaults) ==
  [key \in DOMAIN t |->
     IF key \in DOMAIN defaults /\ t[key] = NoDefaults[key] THEN defaults[key] ELSE t[key]]

(* applyConfigVars: a target's variables hide those of the configuration.  *)
ApplyConfigVars(t, vars) ==
  [t EXCEPT !.vars = [k \in DOMAIN t.vars |-> TrimSpace(t.vars[k])]
                     @@ [k \in DOMAIN vars |-> TrimSpace(vars[k])]]

ObserveOk(t) ==
  t.observe =>
    /\ t.waitConnected = {} /\ t.band = {}
    /\ \A key \in DOMAIN NoDefaults \ {"agent"} : t[key] = NoDefaults[key]

NormalizeMacRotation(v) ==
  CASE v \in {"", "none"} -> {"none"}
    [] v \in {"per_target", "per-target"} -> {"per_target"}
    [] v \in {"per_round", "per-round"} -> {"per_round"}
    [] OTHER -> {}
NonPersistent == {[word |-> "non-persistent", cased |-> FALSE]}
RotationAccepted(t) ==
  /\ NormalizeMacRotation(t.rotation) # {}
  /\ The(NormalizeMacRotation(t.rotation)) # "none" =>
       Word(t.mac, "non-persistent") = "non-persistent"
NormalizeTargetMacRotation(t) ==
  LET rotation == The(NormalizeMacRotation(t.rotation))
  IN [t EXCEPT !.rotation = rotation, !.mac = IF rotation = "none" THEN t.mac ELSE NonPersistent]

(* What the name, address and band of a target are as texts.  An SSID may  *)
(* look like a reference.                                                  *)
SsidText(s) == IF s = "" THEN <<>> ELSE IF s = "${a}" THEN <<Ref("a")>> ELSE <<Lit(s)>>
AddressText(b) == IF b = {} THEN <<>> ELSE <<Lit("address")>>
NetidText(n) == IF n = {} THEN <<>> ELSE <<Lit("netid")>>
BandText(b) == IF b = {} THEN <<>> ELSE <<Lit(The(b).word)>>
AgentText(a) == IF a = "" THEN <<>> ELSE <<Lit(a)>>

TargetDisplayName(t) ==
  FoldLeft(LAMBDA name, part : IF part = <<>> THEN name ELSE name \o <<Lit("/")>> \o part,
           SsidText(t.ssid), <<AddressText(t.bssid), BandText(t.band)>>)
Named(t) ==
  [t EXCEPT !.name = IF t.name = <<>> THEN TargetDisplayName(t) ELSE t.name,
            !.shortName = TrimSpace(t.shortName)]

TargetBuiltinValues(t) ==
  [name |-> TrimSpace(t.name), short_name |-> t.shortName, agent |-> AgentText(t.agent),
   ssid |-> SsidText(t.ssid), bssid |-> AddressText(t.bssid), network_id |-> NetidText(t.netid),
   band |-> BandText(t.band)]

(* The cleanup of a target: a rotated address is not left connected, and   *)
(* one of its own is not left saved.                                       *)
DisconnectAfter(t) == t.rotation # "none" \/ t.disconnectAfter # {FALSE}
ForgetAfter(t) == t.rotation = "per_target" \/ t.forgetAfter = {TRUE}

SecretOf(t) ==
  CASE t.passphraseEnv # "" -> IF t.passphraseEnv \in Environment THEN "env" ELSE "env_missing"
    [] t.passphraseEnv = "" /\ t.passphrase # "" -> "value"
    [] OTHER -> "none"

FourAttempts == [NoPolicy EXCEPT !.attempts = 4]
NetworkOf(t, checks) ==
  IF t.observe
  THEN [(IF t.active THEN ActiveObservedWiFi ELSE ObservedWiFi)
          EXCEPT !.ssid = t.ssid, !.bssid = t.bssid, !.netid = t.netid, !.agent = t.agent,
                 !.checks = checks]
  ELSE [WiFi EXCEPT !.o = [Nothing EXCEPT !.band = t.band, !.security = t.security, !.mac = t.mac],
                    !.connectTimeout = MillisOf(t.connectTimeout),
                    !.waitTimeout = MillisOf(t.waitTimeout),
                    !.ssid = t.ssid, !.bssid = t.bssid, !.psk = SecretOf(t), !.agent = t.agent,
                    !.rotation = t.rotation, !.waitConnected = t.waitConnected # {FALSE},
                    !.requireIP = t.requireIP # {FALSE},
                    !.requireValidated = t.requireValidated = {TRUE},
                    !.disconnectAfter = DisconnectAfter(t), !.forgetAfter = ForgetAfter(t), !.connectPolicy = FourAttempts,
                    !.waitPolicy = FourAttempts, !.checks = checks]

-----------------------------------------------------------------------------
(* Checks: type is [word, padded], padded where white space surrounds it.  *)

NoCheck ==
  [type |-> [word |-> "ip_status", padded |-> FALSE], name |-> <<>>, host |-> <<>>,
   query |-> <<>>, record |-> <<>>, url |-> <<>>, family |-> <<>>, scanTarget |-> <<>>,
   band |-> <<>>, count |-> {}, size |-> {}, hops |-> {}, minMtu |-> {}, maxMtu |-> {},
   status |-> {}, timeout |-> 0, required |-> FALSE, fresh |-> FALSE, attempts |-> {},
   repeat |-> {}, delay |-> 0, eventually |-> 0, stableFor |-> 0, interval |-> 0, expect |-> {}]

(* resolveCheckForTarget: the texts of a check and of its expectations.    *)
Templated == {"name", "host", "query", "record", "url", "family", "scanTarget", "band"}
ResolveExpect(entry, values) == [entry EXCEPT !.text = ResolveTargetTemplate(entry.text, values).text]
TemplatesOk(check, values) ==
  /\ \A key \in Templated : ResolveTargetTemplate(check[key], values).ok
  /\ \A e \in check.expect : ResolveTargetTemplate(e.text, values).ok
ResolveCheckForTarget(check, values) ==
  [key \in DOMAIN check |->
     IF key \in Templated THEN ResolveTargetTemplate(check[key], values).text
     ELSE IF key = "expect" THEN {ResolveExpect(e, values) : e \in check.expect}
     ELSE check[key]]

(* What an active observation must be told.  The type is compared as it is *)
(* written.                                                                *)
Told(check, word, texts) == check.type = [word |-> word, padded |-> FALSE] => texts # {<<>>}
DestinationOk(check) ==
  /\ \A w \in {"ping", "traceroute", "path_mtu"} : Told(check, w, {check.host})
  /\ Told(check, "dns", {check.query, check.host})
  /\ \A w \in {"http", "download"} : Told(check, w, {check.url})
  /\ Told(check, "global_ip", {<<>>})

(* Where a probe goes: what the check says, or a public service.           *)
PublicHost == <<Lit("1.1.1.1")>>
PublicName == <<Lit("example.com")>>
PublicPage == <<Lit("http://connectivitycheck")>>
PublicFile == <<Lit("http://1.1.1.1")>>
Destination(check) ==
  CASE check.type.word \in {"ping", "traceroute", "path_mtu"} -> FirstNonEmpty(<<check.host, PublicHost>>)
    [] check.type.word = "dns" -> FirstNonEmpty(<<check.query, check.host, PublicName>>)
    [] check.type.word = "http" -> FirstNonEmpty(<<check.url, PublicPage>>)
    [] check.type.word = "download" -> FirstNonEmpty(<<check.url, PublicFile>>)
    [] OTHER -> <<>>
(* What a host and an endpoint are to the builders.                        *)
UrlKind(t) == IF t \in {PublicPage, PublicFile, <<Lit("http://x")>>} THEN "http" ELSE "other"
HostKind(t) == IF AsWord(t) \in {"1.1.1.1", "192.0.2.1"} THEN "literal" ELSE "name"

(* compileExpect: an entry is [key, raw, text, fields, numbers, valid]; raw *)
(* is "mapping", "text" or "true", the Boolean, which no text resolves to; *)
(* fields are what a selector of access points asks for, numbers those of  *)
(* them that hold a number, text the texts within; valid is what           *)
(* CompileExpectations, or later the selector, says of the rest.           *)
ApFields == {"ssid", "bssid", "band", "standard", "security", "channel_width", "channel", "ap_mld",
             "mlo_link_id", "count", "min_count"}
Numeric(fields) ==
  fields \cap ({"channel", "mlo_link_id"} \cup IF "count" \in fields THEN {"count"} ELSE {"min_count"})
MustBeTrue == {"mlo_connected", "mlo_coverage", "mlo_metadata_complete"}
ExpectOk(e) ==
  /\ e.key = "ap" => e.raw = "mapping" /\ e.fields \subseteq ApFields /\ Numeric(e.fields) \subseteq e.numbers
  /\ e.key \in MustBeTrue => e.raw = "true"
  /\ e.key \notin MustBeTrue \cup {"ap"} => e.valid

Given(amount) == amount # {0}
PolicyOfCheck(check) ==
  [NoPolicy EXCEPT
     !.attempts = Uint(check.attempts, 4), !.repeat = Uint(check.repeat, 0),
     !.delay = check.delay, !.stableFor = check.stableFor, !.interval = check.interval,
     !.eventually = IF check.type.word \in {"ip_status", "wifi_status"} /\ check.eventually = 0
                    THEN check.timeout ELSE check.eventually]

WithDestination(check, o) ==
  LET d == Destination(check)
  IN [o EXCEPT !.host = IF d = <<>> THEN "name" ELSE HostKind(d),
               !.url = IF check.type.word \in {"http", "download"} THEN UrlKind(d) ELSE "https"]
RequestOf(check) ==
  WithDestination(check,
    [Nothing EXCEPT !.count = check.count, !.size = check.size, !.hops = check.hops,
       !.minMtu = check.minMtu, !.maxMtu = check.maxMtu, !.fresh = check.fresh,
       !.timeout = MillisOf(check.timeout), !.band = AsOption(check.band),
       !.family = AsOption(check.family), !.qtype = AsOption(check.record)])

OperationOf(check, t) ==
  LET o == RequestOf(check)
  IN CASE check.type.word = "wifi_status" -> WifiStatusOperation
       [] check.type.word = "wifi_diagnostics" -> WifiDiagnosticsOperation
       [] check.type.word = "wifi_eht" -> WifiEHTOperation(o)
       [] check.type.word = "wifi_capabilities" -> WifiCapabilitiesOperation
       [] check.type.word = "wifi_scan" ->
            IF check.fresh THEN WifiFreshScanOperation(o) ELSE WifiScanOperation(o)
       [] check.type.word = "ip_status" -> IPStatusOperation
       [] check.type.word = "ping" -> PingOperation(o)
       [] check.type.word = "traceroute" -> TracerouteOperation(o)
       [] check.type.word = "path_mtu" -> PathMTUOperation(o)
       [] check.type.word = "dns" -> DNSOperation(o)
       [] check.type.word = "http" ->
            HTTPOperation([o EXCEPT !.status = IF check.url = <<>> /\ check.status = {}
                                               THEN {204} ELSE check.status])
       [] check.type.word = "global_ip" ->
            GlobalIPOperation([o EXCEPT !.family = AsOption(FirstNonEmpty(<<check.family, <<Lit("ipv4")>>>>))])
       [] check.type.word = "download" -> DownloadOperation(o)
       [] check.type.word = "scan_detail" ->
            WifiScanDetailOperation(
              [o EXCEPT !.target = AsWord(FirstNonEmpty(<<check.scanTarget, AddressText(t.bssid), SsidText(t.ssid)>>)),
                        !.band = AsOption(FirstNonEmpty(<<check.band, BandText(t.band)>>))])
       [] OTHER -> Refused

CheckAccepted(check, t) ==
  /\ Given(check.attempts) /\ Given(check.repeat)
  /\ \A e \in check.expect : ExpectOk(e)
  /\ IF check.type.word = "gateway_ping" THEN Given(check.count) /\ Given(check.size)
     ELSE OperationOf(check, t).ok
CompiledCheck(check, t, id) ==
  LET gateway == check.type.word = "gateway_ping"
  IN [Build(IF check.name = <<>> THEN check.type.word ELSE AsWord(check.name),
            IF gateway THEN Refused ELSE OperationOf(check, t))
        EXCEPT !.id = id, !.policy = PolicyOfCheck(check), !.required = check.required,
               !.gateway = IF gateway THEN {RequestOf(check)} ELSE {},
               !.expects = {e.valid : e \in check.expect}]

-----------------------------------------------------------------------------
(* Plan                                                                    *)

Effective(cfg, t) == ApplyConfigVars(ApplyTargetDefaults(t, cfg.defaults), cfg.vars)
Prepared(cfg, i) == Named(NormalizeTargetMacRotation(Effective(cfg, cfg.targets[i])))
VarsOf(t) == ResolveVars(t.vars, TargetBuiltinValues(t))
ValuesOf(t) == [k \in DOMAIN t.vars |-> TrimSpace(VarsOf(t)[k].text)] @@ TargetBuiltinValues(t)
ChecksFor(cfg, i) ==
  LET all == cfg.checks \o cfg.targets[i].checks
      values == ValuesOf(Prepared(cfg, i))
  IN [j \in DOMAIN all |-> ResolveCheckForTarget(all[j], values)]

TargetAccepted(cfg, i) ==
  LET raw == Effective(cfg, cfg.targets[i])
      t == Prepared(cfg, i)
      all == cfg.checks \o t.checks
  IN /\ raw.ssid # ""
     /\ ObserveOk(raw)
     /\ raw.active => raw.observe
     /\ RotationAccepted(raw)
     /\ \A k \in DOMAIN t.vars : VarsOf(t)[k].ok
     /\ ~t.observe => t.netid = {} /\ (t.passphrase = "" \/ t.passphraseEnv = "")
     /\ \A j \in DOMAIN all :
          /\ TemplatesOk(all[j], ValuesOf(t))
          /\ t.active => DestinationOk(ChecksFor(cfg, i)[j])
          /\ CheckAccepted(ChecksFor(cfg, i)[j], t)

PlanOfConfig(cfg) ==
  LET network(i) ==
        LET t == Prepared(cfg, i)
            all == ChecksFor(cfg, i)
            id(j) == IF j <= Len(cfg.checks) THEN <<"check", j>>
                     ELSE <<"target", i, "check", j - Len(cfg.checks)>>
        IN NetworkOf(t, [j \in DOMAIN all |-> CompiledCheck(all[j], t, id(j))])
  IN [networks |-> [i \in DOMAIN cfg.targets |-> network(i)], checks |-> <<>>,
      interval |-> cfg.interval]

Accepted(cfg) ==
  /\ cfg.version \in {0, 1} /\ cfg.targets # <<>> /\ cfg.interval >= 0
  /\ \A i \in DOMAIN cfg.targets : TargetAccepted(cfg, i)

-----------------------------------------------------------------------------
(* Properties.                                                             *)

(* An accepted whole number of milliseconds or days is that long: it did   *)
(* not wrap.                                                               *)
DurationExact(v) ==
  UnmarshalDuration(v).ok =>
    /\ UnmarshalDuration(v).ticks \in (-DurationMax - 1) .. DurationMax
    /\ v.tag = "int" => UnmarshalDuration(v).ticks = The(v.count) * Millisecond
    /\ v.unit = "d" /\ v.tag = "str" => UnmarshalDuration(v).ticks = The(v.count) * Day

(* Variables resolve exactly when none of them leads to itself and each    *)
(* reference is known; a variable then is its text with every reference    *)
(* replaced by the value of what it names, whatever order a map is read in.*)
VariablesResolve(source, builtins) ==
  LET refs(k) == {t.word : t \in {u \in ToSet(source[k]) : u.ref}}
      value == ResolveVars(source, builtins)
      final == [k \in DOMAIN source |-> value[k].text] @@ builtins
      circular == \E S \in SUBSET DOMAIN source : S # {} /\ \A k \in S : refs(k) \cap S # {}
      known == \A k \in DOMAIN source : refs(k) \subseteq DOMAIN final
  IN /\ (\A k \in DOMAIN source : value[k].ok) <=> known /\ ~circular
     /\ (\A k \in DOMAIN source : value[k].ok) =>
          \A k \in DOMAIN source : value[k] = ResolveTargetTemplate(source[k], final)

(* An active observation only goes where the configuration says: missing   *)
(* destinations and the fixed global-IP endpoint are rejected              *)
(* (README.md:338-339).  It is judged of Tidy configurations only: a       *)
(* padded type or a blank host slips through the comparison and            *)
(* contradicts the README.                                                 *)
GoesWhereTold(cfg) ==
  Accepted(cfg) =>
    \A i \in DOMAIN cfg.targets : cfg.targets[i].active =>
      \A j \in DOMAIN ChecksFor(cfg, i) :
        LET check == ChecksFor(cfg, i)[j]
        IN /\ Destination(check) \notin {PublicHost, PublicName, PublicPage, PublicFile}
           /\ check.type.word # "global_ip"

(* A configuration without stray white space: no type has blanks around    *)
(* it, and no host, name or URL has any at its ends.                       *)
Tidy(cfg) ==
  \A i \in DOMAIN cfg.targets : \A check \in ToSet(ChecksFor(cfg, i)) :
    /\ ~check.type.padded
    /\ \A key \in {"host", "query", "url"} : check[key] = TrimSpace(check[key])

(* An accepted target that only observes asks for nothing, defaults        *)
(* included; the engine's cleanup is the one the configuration implies;    *)
(* what runs on the target is bound to it; no literal of a check's text is *)
(* lost; and a reference is left in a check only where the target's own    *)
(* name looks like one.                                                    *)
ConfigKept(cfg, agents) ==
  Accepted(cfg) =>
    LET plan == PlanOfConfig(cfg)
    IN /\ \A net \in ToSet(plan.networks) : net.readOnly => AsksNothing(net)
       /\ \A net \in ToSet(plan.networks) : ~net.readOnly => Rotated(net) = net
       /\ BoundToTarget(Compile(plan, agents))
       /\ \A i \in DOMAIN cfg.targets :
            LET all == cfg.checks \o cfg.targets[i].checks
                resolved == ChecksFor(cfg, i)
            IN \A j \in DOMAIN all, key \in Templated :
                 /\ \A token \in ToSet(all[j][key]) : token.ref \/ token \in ToSet(resolved[j][key])
                 /\ \A token \in ToSet(resolved[j][key]) : token.ref => cfg.targets[i].ssid = "${a}"
=============================================================================

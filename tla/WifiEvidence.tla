----------------------------- MODULE WifiEvidence ----------------------------
(***************************************************************************)
(* The typed expectations about the connection (harness/wifi), about the   *)
(* networks in reach (harness/scan), about multi-link operation            *)
(* (harness/mlo) and about what the device supports                        *)
(* (harness/capabilities).                                                 *)
(*                                                                         *)
(* A status report is a record [payload, radio, enabled, state, conn]; a   *)
(* connection [fields, ssid, bssid, standard, freq, link, tx, rx, rssi,    *)
(* mld, linkId, assoc, aff], where fields is the collector's word on each  *)
(* group and the two last are sequences of links [id, state, band,         *)
(* channel, ap, sta].  NoConn is a report without a connection.            *)
(***************************************************************************)
EXTENDS Matchers, WifiNames, FiniteSets, FiniteSetsExt

NoConn == [fields |-> <<>>]

(* wifi.from: the view needs the payload and a connection.                 *)
From(st) == st.payload /\ st.conn # NoConn

(* stringMetric and intMetric: some metrics ask the collector first.       *)
Known(c, name) ==
  CASE name \in {"ssid", "bssid"} -> Availability(c.fields, "identity")
    [] name = "rssi" -> Availability(c.fields, "rssi")
    [] name \in {"tx", "rx"} -> Availability(c.fields, name)
    [] OTHER -> TRUE

(* Metrics whose zero value is not an observation, with that value.        *)
Zero == [ssid |-> "", bssid |-> NoMac, standard |-> <<>>, freq |-> 0, channel |-> 0,
         band |-> "", mld |-> NoMac]

ValueOf(c, name) ==
  CASE name = "standard" -> NormalizeStandard(c.standard)
    [] name = "channel" -> ChannelFromFrequency(c.freq)
    [] name = "band" -> BandFromFrequency(c.freq)
    [] OTHER -> c[name]

(* The metrics of wifi.go: SSID ... RSSIDbm and APMLDMAC, by name.         *)
ConnectionMetric(st, name) ==
  IF ~From(st) \/ ~Known(st.conn, name) THEN Unobserved
  ELSE Gate(name \in DOMAIN Zero => ValueOf(st.conn, name) # Zero[name],
            ValueOf(st.conn, name))

Enabled(st) == Gate(st.payload /\ Availability(st.radio, "radio"), st.enabled)
State(st) == Gate(From(st) /\ st.state # "", st.state)

ConnectionMloPresent(c) == c.mld # NoMac \/ c.assoc # <<>> \/ c.aff # <<>>

(* MLOPresent: its absence needs the collector's word, its presence not.   *)
MLOPresent(st) ==
  Gate(From(st) /\ (ConnectionMloPresent(st.conn)
                     \/ Availability(st.conn.fields, "mld")),
       From(st) /\ ConnectionMloPresent(st.conn))

APMLOLinkID(st) ==
  Gate(From(st) /\ ConnectionMloPresent(st.conn) /\ st.conn.linkId >= 0,
       IF From(st) THEN st.conn.linkId ELSE 0)

(* AssociatedMLOLinkCount and AffiliatedMLOLinkCount                       *)
LinkCount(st, group) ==
  Gate(From(st) /\ Availability(st.conn.fields, group),
       IF From(st) THEN Len(st.conn[group]) ELSE 0)

(* MLOLinkSelector: sets of at most one element for the optional parts.    *)
LinkMatches(s, link) ==
  /\ \A i \in s.id : link.id = i
  /\ \A v \in s.state : link.state = v
  /\ \A b \in s.band : NormalizeBand(link.band) = NormalizeBand(b)
  /\ \A n \in s.channel : link.channel = n
  /\ \A m \in s.ap : ToLower(TrimSpace(link.ap)) = ToLower(TrimSpace(m))
  /\ \A m \in s.sta : ToLower(TrimSpace(link.sta)) = ToLower(TrimSpace(m))

LinksMatching(st, group, s) ==
  IF From(st) THEN SelectSeq(st.conn[group], LAMBDA l : LinkMatches(s, l)) ELSE <<>>

SelectorCount(st, group, s) == Gate(From(st), Len(LinksMatching(st, group, s)))
SelectorExists(st, group, s) == Judge(From(st), LinksMatching(st, group, s) # <<>>)

RawContains(st, value) == Judge(From(st), value \in st.text)
WifiAssert(st, err) == EvaluateAssert(From(st), err)

-----------------------------------------------------------------------------
(* harness/capabilities.  A report is [payload, fields, errors, supported, *)
(* unsupported], the last two a set of names for each kind of capability.  *)

NormalizeCapability(kind, v) ==
  IF kind = "band" THEN NormalizeBand(v)
  ELSE IF kind = "standard" THEN NormalizeStandard(v) ELSE v

NormalizeAll(kind, values) == {NormalizeCapability(kind, v) : v \in values}

(* supportExpectation: a capability on neither list is unknown.            *)
Support(caps, kind, value, wantSupported) ==
  LET v   == NormalizeCapability(kind, value)
      yes == v \in NormalizeAll(kind, caps.supported[kind])
      no  == v \in NormalizeAll(kind, caps.unsupported[kind])
  IN Judge(caps.payload /\ (yes \/ no), IF wantSupported THEN yes ELSE no)

(* fieldExpectation: the first field with the key decides.                 *)
FieldEq(caps, key, value) ==
  LET hits == {i \in DOMAIN caps.fields : caps.fields[i].key = key}
  IN IF ~caps.payload \/ hits = {} THEN "missing"
     ELSE Judge(TRUE, caps.fields[Min(hits)].value = value)

CapabilityErrors(caps) == Gate(caps.payload, Len(caps.errors))
CapabilitiesFrom(r) == HasView(r, {"wifi_capabilities"})
CapabilitiesAssert(r, err) == EvaluateAssert(CapabilitiesFrom(r), err)

-----------------------------------------------------------------------------
(* harness/scan.  A result is [ssid, bssid, standard, width, band, freq,   *)
(* security, rssi, mld, linkId, aff, caps, age]; age is -1 when the report *)
(* has none.  A selector has a set of at most one element for each part.   *)

(* normalizeResults: the reported band comes before the derived one.       *)
NormalizeResult(r) ==
  [r EXCEPT !.standard = NormalizeStandard(r.standard),
            !.band = NormalizeBand(IF r.band # "" THEN r.band ELSE BandFromFrequency(r.freq))]

ApMLOCapable(ap) == ap.standard = <<"be">> \/ ap.mld # NoMac \/ ap.aff # <<>>
LinkIds(links) == {links[i].id : i \in DOMAIN links} \cap Nat
ApMLOLinkIDs(ap) ==
  LinkIds(ap.aff) \cup (IF ApMLOCapable(ap) THEN {ap.linkId} \cap Nat ELSE {})

(* APSelector: APs(), and its builders, each of which sets one part to a   *)
(* value in the form NormalizeResult gives it; fragments add up, an empty  *)
(* one is no constraint.                                                   *)
APs == [p \in {"ssid", "bssid", "standard", "width", "band", "channel", "security",
               "minRssi", "mloCapable", "mld", "mloLink", "affLink", "minAff",
               "fragments", "maxAge"} |-> {}]

ApWith(s, part, v) ==
  LET form == CASE part = "standard" -> NormalizeStandard(v)
                [] part = "band" -> NormalizeBand(v)
                [] part = "bssid" -> ToLower(v)
                [] part = "mld" -> ToLower(TrimSpace(v))
                [] OTHER -> v
  IN IF part = "fragments"
     THEN [s EXCEPT ![part] = @ \cup (IF v = "" THEN {} ELSE {v})]
     ELSE [s EXCEPT ![part] = {form}]

(* APSelector.validate                                                     *)
ApSelectorValid(s) ==
  /\ \A a \in s.maxAge : a >= 0
  /\ \A m \in s.bssid : ~m.padded
  /\ s.band \subseteq {"all", "2.4ghz", "5ghz", "6ghz", "60ghz"}
  /\ \A n \in s.channel : n > 0
  /\ \A i \in s.mloLink : i \in 0..15

ApMatches(s, ap) ==
  /\ \A v \in s.ssid : ap.ssid = v
  /\ \A m \in s.bssid : ToLower(ap.bssid) = ToLower(m)
  /\ \A v \in s.standard : ap.standard = v
  /\ \A v \in s.width : ap.width = v
  /\ \A b \in s.band : ap.band = b
  /\ \A n \in s.channel : ChannelFromFrequency(ap.freq) = n
  /\ s.security \subseteq ap.security
  /\ \A n \in s.minRssi : ap.rssi >= n
  /\ \A b \in s.mloCapable : ApMLOCapable(ap) = b
  /\ \A m \in s.mld : ToLower(TrimSpace(ap.mld)) = ToLower(TrimSpace(m))
  /\ s.mloLink \subseteq ApMLOLinkIDs(ap)
  /\ s.affLink \subseteq LinkIds(ap.aff)
  /\ \A n \in s.minAff : Len(ap.aff) >= n
  /\ s.fragments \subseteq ap.caps

(* Fault: a missing age reads as the zero of the message.                  *)
MatchesAgeZero(s, results) ==
  LET chosen == SelectSeq(results, LAMBDA r : ApMatches(s, NormalizeResult(r)))
  IN [aps |-> SelectSeq(chosen, LAMBDA r : \A a \in s.maxAge : r.age <= a), unknown |-> FALSE]

(* APSelector.matches: a maximum age neither accepts nor rejects a result  *)
(* without one.                                                            *)
Matches(s, results) ==
  LET chosen == SelectSeq(results, LAMBDA r : ApMatches(s, NormalizeResult(r)))
  IN [aps |-> SelectSeq(chosen, LAMBDA r : \A a \in s.maxAge : r.age >= 0 /\ r.age <= a),
      unknown |-> s.maxAge # {} /\ \E i \in DOMAIN chosen : chosen[i].age < 0]

ApCount(scan, s) ==
  LET m == Matches(s, scan.results) IN Gate(scan.payload /\ ~m.unknown, Len(m.aps))

(* apExists: a match settles it, an unknown age only its absence.          *)
ApExists(scan, s) ==
  LET m == Matches(s, scan.results)
  IN IF ~scan.payload \/ (m.aps = <<>> /\ m.unknown) THEN "missing"
     ELSE Judge(TRUE, m.aps # <<>>)

ResultCount(scan) == Gate(scan.payload, Len(scan.results))
ErrorCount(scan) == Gate(scan.payload, Len(scan.errors))

(* scan.from reads the list and the detail of a scan alike.                *)
ScanFrom(r) == HasView(r, {"wifi_scan", "wifi_scan_detail"})
ScanAssert(r, err) == EvaluateAssert(ScanFrom(r), err)

-----------------------------------------------------------------------------
(* harness/mlo.  A diagnosis is [payload, conn, scan, results]: whether    *)
(* the scan part is there, and its results.                                *)

Candidate(r) == [r EXCEPT !.standard = NormalizeStandard(r.standard)]

(* normalizeScanCandidates                                                 *)
Candidates(d) == SelectSeq([i \in DOMAIN d.results |-> Candidate(d.results[i])], ApMLOCapable)

(* Fault: the key keeps the case Android reported.                         *)
GroupKeyCased(c) ==
  IF c.mld # NoMac THEN <<"mld", TrimSpace(c.mld)>>
  ELSE IF c.bssid # NoMac THEN <<"bssid", TrimSpace(c.bssid)>>
  ELSE <<"ssid", c.ssid>>

GroupKey(c) ==
  IF c.mld # NoMac THEN <<"mld", ToLower(TrimSpace(c.mld))>>
  ELSE IF c.bssid # NoMac THEN <<"bssid", ToLower(TrimSpace(c.bssid))>>
  ELSE <<"ssid", c.ssid>>

(* groupCandidates: one group for each key.                                *)
GroupCandidates(d) ==
  LET cs   == Candidates(d)
      Of(k) == SelectSeq(cs, LAMBDA c : GroupKey(c) = k)
      Group(k) ==
        [key |-> k, results |-> Of(k), mld |-> Of(k)[1].mld,
         ssids |-> {Of(k)[i].ssid : i \in DOMAIN Of(k)} \ {""},
         links |-> UNION {ApMLOLinkIDs(Of(k)[i]) : i \in DOMAIN Of(k)},
         best  |-> Max({-127} \cup {Of(k)[i].rssi : i \in DOMAIN Of(k)})]
  IN {Group(GroupKey(cs[i])) : i \in DOMAIN cs}

GroupMatches(s, g) ==
  /\ s.ssid \subseteq g.ssids
  /\ \A m \in s.mld : ToLower(TrimSpace(g.mld)) = ToLower(TrimSpace(m))

GroupsMatching(d, s) == {g \in GroupCandidates(d) : GroupMatches(s, g)}
GroupExists(d, s) == Judge(d.payload, GroupsMatching(d, s) # {})
GroupCount(d, s) == Gate(d.payload, Cardinality(GroupsMatching(d, s)))
GroupLinkCount(d, s) ==
  Gate(d.payload, Max({0} \cup {Cardinality(g.links) : g \in GroupsMatching(d, s)}))
CandidateCount(d) == Gate(d.payload, Len(Candidates(d)))

Related(d) == d.payload /\ d.conn # NoConn /\ d.scan

ConnectedMLDSeenInScan(d) ==
  LET mld == TrimSpace(d.conn.mld)
  IN mld # NoMac /\ \E i \in DOMAIN Candidates(d) : EqualFold(Candidates(d)[i].mld, mld)

ConnectionAssociatedLinkIDs(c) ==
  LinkIds(c.assoc) \cup (IF ConnectionMloPresent(c) THEN {c.linkId} \cap Nat ELSE {})

AssociatedLinksCoveredByScan(d) ==
  LET mld  == TrimSpace(d.conn.mld)
      want == ConnectionAssociatedLinkIDs(d.conn)
      hits == {i \in DOMAIN Candidates(d) : EqualFold(Candidates(d)[i].mld, mld)}
  IN /\ mld # NoMac /\ want # {}
     /\ want \subseteq UNION {ApMLOLinkIDs(Candidates(d)[i]) : i \in hits}

(* CurrentRelationSelector and MetadataSelector                            *)
SeenRelation(d) == Gate(Related(d), Related(d) /\ ConnectedMLDSeenInScan(d))
CoveredRelation(d) ==
  Gate(Related(d) /\ Availability(d.conn.fields, "assoc"),
       Related(d) /\ AssociatedLinksCoveredByScan(d))

ScanMetadataComplete(cs) ==
  cs # <<>> /\ \A i \in DOMAIN cs : cs[i].mld # NoMac /\ ApMLOLinkIDs(cs[i]) # {}

MetadataComplete(d) ==
  Gate(d.payload /\ d.scan
         /\ \A i \in DOMAIN Candidates(d) : Availability(Candidates(d)[i].fields, "linkId"),
       ScanMetadataComplete(Candidates(d)))

(* ConnectedSelector                                                       *)
ConnectedMlo(d) ==
  LET st == [payload |-> d.payload, conn |-> d.conn]
  IN [present |-> MLOPresent(st), mld |-> ConnectionMetric(st, "mld"),
      linkId |-> APMLOLinkID(st), assoc |-> LinkCount(st, "assoc"), aff |-> LinkCount(st, "aff")]

(* StringField, IntField and boolExpectation: a field is known, or equal   *)
(* to a value; strings are compared without case.                          *)
FieldKnown(obs) == Judge(obs.ok, TRUE)
MldIs(d, mac) ==
  LET mld == ConnectedMlo(d).mld IN Judge(mld.ok, mld.ok /\ EqualFold(mld.value, mac))

MloAssert(d, err) == EvaluateAssert(d.payload, err)

-----------------------------------------------------------------------------
(* An AP whose observation age is unknown is never taken for a fresh one:  *)
(* with a maximum age, a pass names a result that is known to be young     *)
(* enough, and a count is given only when no chosen result could change it *)
(* (README.md: absent age is MISSING, not fresh).                          *)
FreshMeansKnown(scan, s) ==
  LET fresh == {i \in DOMAIN scan.results :
                  /\ ApMatches(s, NormalizeResult(scan.results[i]))
                  /\ \A a \in s.maxAge : scan.results[i].age \in 0..a}
      maybe == {i \in DOMAIN scan.results :
                  /\ ApMatches(s, NormalizeResult(scan.results[i]))
                  /\ \A a \in s.maxAge : scan.results[i].age <= a} IN
  /\ ApExists(scan, s) = "pass" => fresh # {}
  /\ ApExists(scan, s) = "fail" => maybe = {}
  /\ ApCount(scan, s).ok => ApCount(scan, s).value = Cardinality(fresh) /\ fresh = maybe

(* The three ways to look at one multi-link AP agree: groups divide the    *)
(* candidates, links covered by the scan imply that the AP was seen, and   *)
(* an AP that was seen is found by the group selector with all its links,  *)
(* however Android spells its address.                                     *)
MloViewsAgree(d) ==
  LET groups == GroupCandidates(d)
      byMld  == GroupsMatching(d, [ssid |-> {}, mld |-> {d.conn.mld}]) IN
  /\ MapThenSumSet(LAMBDA g : Len(g.results), groups) = Len(Candidates(d))
  /\ AssociatedLinksCoveredByScan(d) =>
       /\ ConnectedMLDSeenInScan(d)
       /\ \E g \in byMld : ConnectionAssociatedLinkIDs(d.conn) \subseteq g.links
  /\ ConnectedMLDSeenInScan(d) => Cardinality(byMld) = 1

(* Selectors that ask whether, how many and which say the same, of the     *)
(* links of a connection and of the groups of a scan, and none of them     *)
(* has a verdict on a report it cannot see; a capability is not reported   *)
(* as present and as absent in one verdict.                                *)
SelectorsCohere(d, s) ==
  LET st == [payload |-> d.payload, conn |-> d.conn]
      any == [part \in {"id", "state", "band", "channel", "ap", "sta"} |-> {}]
      mlo == ConnectedMlo(d) IN
  /\ GroupExists(d, s) = "pass" <=> GroupCount(d, s).ok /\ GroupCount(d, s).value > 0
  /\ GroupLinkCount(d, s).value > 0 => GroupCount(d, s).value > 0
  /\ GroupCount(d, [ssid |-> {}, mld |-> {}]).value <= CandidateCount(d).value
  /\ \A g \in {"assoc", "aff"} :
       /\ LinkCount(st, g).ok => LinkCount(st, g) = SelectorCount(st, g, any)
       /\ \A id \in {{}, {0}, {1}} :
            LET one == [any EXCEPT !.id = id]
            IN SelectorExists(st, g, one) = "pass" <=> SelectorCount(st, g, one).value > 0
  /\ CoveredRelation(d).ok /\ CoveredRelation(d).value => SeenRelation(d).value
  /\ SeenRelation(d).ok /\ SeenRelation(d).value => mlo.present.value /\ MldIs(d, d.conn.mld) = "pass"
  /\ mlo.linkId.ok => mlo.present.ok /\ mlo.present.value
  /\ MetadataComplete(d).ok /\ MetadataComplete(d).value =>
       \A g \in GroupCandidates(d) : g.links # {} /\ g.key[1] = "mld"
  /\ ~d.payload => {GroupExists(d, s), MldIs(d, NoMac), MloAssert(d, "none"), FieldKnown(mlo.mld)} = {"missing"}

(* A capability on both lists of a report supports either answer; on one   *)
(* list it supports one, on neither none.                                  *)
SupportDecides(caps, kind, value) ==
  LET yes == Support(caps, kind, value, TRUE)
      no  == Support(caps, kind, value, FALSE) IN
  /\ yes = "missing" <=> no = "missing"
  /\ {yes, no} = {"pass"} => NormalizeCapability(kind, value) \in
       NormalizeAll(kind, caps.supported[kind]) \cap NormalizeAll(kind, caps.unsupported[kind])
  /\ yes # "missing" => CapabilityErrors(caps).ok
  /\ FieldEq(caps, "a", 1) = "pass" => caps.payload

(* A selector made by the builders is in the form of a normalized result:  *)
(* it finds the result its parts were taken from.                          *)
BuilderFinds(r) ==
  LET ap == NormalizeResult(r)
      s  == ApWith(ApWith(ApWith(ApWith(ApWith(APs, "ssid", r.ssid), "standard", r.standard),
                          "bssid", r.bssid), "mld", r.mld), "band", ap.band) IN
  ApMatches(s, ap) /\ (ApSelectorValid(s) \/ r.bssid.padded \/ ap.band = "")
=============================================================================

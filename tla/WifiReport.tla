------------------------------ MODULE WifiReport -----------------------------
(***************************************************************************)
(* The EHT report of a device (render_wifi_mlo.go, and the readiness and   *)
(* roaming parts of wifi_mlo_inspect.go): how the current connection       *)
(* relates to the access points of a scan, which of them are one           *)
(* multi-link device (MLD), and what the report warns about.               *)
(*                                                                         *)
(* A MAC address is spelled as in WifiNames; "zero" is an address Android  *)
(* uses for none.  An optional value is a sequence of at most one element. *)
(* ie is what BeaconElements reads from the elements of an AP: whether     *)
(* there is a Multi-Link element, the address of the MLD, the link ID and  *)
(* the link IDs.  An age is in seconds.                                    *)
(***************************************************************************)
EXTENDS WifiNames, FiniteSets, Functions

MaxAge == 10

(* wifiMLOKnownBSSID, bssidEqual and wifiMLOKnownSSID                      *)
Known(m) == m.mac \notin {"", "zero"}
BssidEqual(a, b) == Known(a) /\ Known(b) /\ EqualFold(a, b)
KnownSSID(s) == s \notin {"", "<unknown ssid>"}

(* observedValue: whether there is a value is for the metadata to say, and *)
(* never for the value.                                                    *)
Observed(state, value) == IF state = "available" THEN <<value>> ELSE <<"?", state>>

-----------------------------------------------------------------------------
(* The filter: an SSID, or else a BSSID.                                   *)

Active(f) == f.ssid # "" \/ f.bssid # NoMac
OfLinks(links, m) == \E i \in DOMAIN links : BssidEqual(links[i].ap, m)

MatchesScan(f, r) ==
  IF f.ssid # "" THEN r.ssid = f.ssid
  ELSE f.bssid # NoMac /\ (BssidEqual(r.bssid, f.bssid) \/ OfLinks(r.aff, f.bssid))

MatchesConnection(f, c) ==
  IF f.ssid # "" THEN c.ssid = f.ssid
  ELSE f.bssid # NoMac /\ (BssidEqual(c.bssid, f.bssid) \/ OfLinks(c.assoc \o c.aff, f.bssid))

FilterScan(f, results) == SelectSeq(results, LAMBDA r : ~Active(f) \/ MatchesScan(f, r))
FilterConnection(f, c) == SelectSeq(c, LAMBDA x : ~Active(f) \/ MatchesConnection(f, x))

-----------------------------------------------------------------------------
(* The connection and the results                                          *)

HasMLO(c) == c.mld # NoMac \/ c.aff # <<>> \/ c.assoc # <<>> \/ c.ie.has

ActiveConnection(c) ==
  KnownSSID(c.ssid) \/ Known(c.bssid) \/ c.ip \/ HasMLO(c) \/ (c.networkId >= 0 /\ c.connected)
CurrentConnection(status) ==
  FlattenSeq([i \in DOMAIN status |-> SelectSeq(status[i].conn, ActiveConnection)])

MLDMAC(x) == IF x.mld # NoMac THEN x.mld ELSE x.ie.mld
SameMLD(c, r) ==
  \/ TrimSpace(MLDMAC(c)) # NoMac /\ EqualFold(TrimSpace(MLDMAC(c)), TrimSpace(MLDMAC(r)))
  \/ BssidEqual(c.bssid, r.bssid)

(* Link IDs count only where they were observed.                           *)
OwnLink(x) == IF x.linkState = "available" /\ x.link >= 0 THEN {x.link} ELSE {}
LinkIDs(links) == {links[i].id : i \in {k \in DOMAIN links : links[k].state = "available" /\ links[k].id >= 0}}
ScanLinkIDs(r) == OwnLink(r) \cup LinkIDs(r.aff) \cup r.ie.links
AssociatedLinkIDSet(c) == OwnLink(c) \cup LinkIDs(c.assoc)

(* wifiMLOConnectionLinkID and scanMLOLinkID                               *)
ShownLinkID(x) ==
  IF x.linkState # "" THEN Observed(x.linkState, x.link)
  ELSE IF x.ie.link # <<>> THEN x.ie.link ELSE <<"?", "">>

HasMetadata(r) == OwnLink(r) # {} \/ r.mld # NoMac \/ r.aff # <<>> \/ r.ie.has
Capable(r) == HasMetadata(r) \/ r.standard = "802.11be"
Candidates(results) == SelectSeq(results, Capable)

-----------------------------------------------------------------------------
(* The relation of the connection to the scan                              *)

Stale(r) == r.age = <<>> \/ r.age[1] > MaxAge

Comparison(c, scan, candidates) ==
  IF c.mldState # "available" \/ c.assocState # "available" \/ ~Known(c.mld) THEN "unknown_connection_identity"
  ELSE IF ~scan.updated \/ scan.errors # {} THEN "unknown_scan_update"
  ELSE IF \E r \in Range(candidates) : SameMLD(c, r) /\ Stale(r) THEN "unknown_scan_age"
  ELSE "updated_scan_age_le_10s"
Comparable(c, scan, candidates) == Comparison(c, scan, candidates) = "updated_scan_age_le_10s"

OfCurrent(c, candidates) == {i \in DOMAIN candidates : SameMLD(c, candidates[i])}
VisibleLinks(c, candidates) == UNION {ScanLinkIDs(candidates[i]) : i \in OfCurrent(c, candidates)}
MissingLinks(c, candidates) == AssociatedLinkIDSet(c) \ VisibleLinks(c, candidates)

Relation(c, scan, candidates) ==
  [mld |-> MLDMAC(c), link |-> ShownLinkID(c),
   bssidSeen |-> \E r \in Range(candidates) : BssidEqual(r.bssid, c.bssid),
   sameMld |-> Cardinality(OfCurrent(c, candidates)),
   visible |-> VisibleLinks(c, candidates), associated |-> AssociatedLinkIDSet(c),
   comparison |-> Comparison(c, scan, candidates),
   missing |-> IF Comparable(c, scan, candidates) THEN <<MissingLinks(c, candidates)>> ELSE <<>>]

-----------------------------------------------------------------------------
(* Groups: the results of one MLD, or of one BSSID.                        *)

GroupKey(r) ==
  LET mld == ToLower(TrimSpace(MLDMAC(r)))
      bssid == ToLower(TrimSpace(r.bssid))
  IN IF mld # NoMac THEN <<"mld", mld>> ELSE IF bssid # NoMac THEN <<"bssid", bssid>>
     ELSE <<"unknown", r.ssid, r.freq>>

BandOf(r) == IF r.band # "" THEN r.band ELSE BandFromFrequency(r.freq)
ScanSecurity(r) == IF r.types # <<>> THEN r.types ELSE r.capabilities
Strongest(results) == CHOOSE v \in {r.rssi : r \in Range(results)} : \A r \in Range(results) : v >= r.rssi

NewGroup(results) ==
  LET named == SelectSeq(results, LAMBDA r : MLDMAC(r) # NoMac)
  IN [results |-> results, display |-> IF named = <<>> THEN NoMac ELSE MLDMAC(named[1]), best |-> Strongest(results),
      bands |-> ({BandOf(r) : r \in Range(results)} \cup UNION {{l.band : l \in Range(r.aff)} : r \in Range(results)}) \ {""},
      security |-> {ScanSecurity(r) : r \in Range(results)} \ {<<>>},
      standards |-> {r.standard : r \in Range(results)} \ {""}]

(* The best signal first; the order of equal ones is left open.            *)
Groups(results) ==
  LET keys == {GroupKey(r) : r \in Range(results)}
      groups == {NewGroup(SelectSeq(results, LAMBDA r : GroupKey(r) = k)) : k \in keys}
  IN SetToSortSeq(groups, LAMBDA g, h : g.best > h.best)

IsCurrent(c, m) == c.identity = "available" /\ BssidEqual(m, c.bssid)

(* "*" the AP of the connection, "+" another of its group, "-" any other.  *)
MarkOf(group, m, current, otherwise) ==
  IF current = <<>> THEN otherwise
  ELSE IF IsCurrent(current[1], m) THEN "*"
  ELSE IF OfCurrent(current[1], group.results) # {} THEN "+" ELSE otherwise
ResultMark(group, r, current) == MarkOf(group, r.bssid, current, IF HasMetadata(r) THEN "-" ELSE "")
LinkMark(group, l, current) == MarkOf(group, l.ap, current, "-")

-----------------------------------------------------------------------------
(* What is shown of an AP.  op is its EHT operation: info whether it has   *)
(* the operation information, width, and the disabled subchannels: whether *)
(* the bitmap is there, whether it is not 0, and the subchannels.          *)

OperationWidth(op) == IF op = <<>> THEN "" ELSE IF ~op[1].info THEN "<unknown>" ELSE op[1].width
Puncturing(op) ==
  IF op = <<>> \/ (~op[1].bitmapPresent /\ op[1].bitmap = {}) THEN <<>> ELSE <<op[1].bitmap>>

(* wifiMLORoamingSummaryLines and wifiMLOFTAKMS                            *)
FTAKMS(details) == IF details = <<>> THEN {} ELSE details[1].akm \cap {"ft_sae", "ft_psk", "ft_sae_gdh"}
Roaming(flags, details) ==
  LET transition == details # <<>> /\ "bss_transition" \in details[1].extended
      all == flags \cup (IF transition THEN {"11v_bss_transition"} ELSE {})
  IN IF all = {} /\ FTAKMS(details) = {} THEN <<>>
     ELSE <<[k |-> "11k" \in all, v |-> "11v_bss_transition" \in all,
             r |-> all \cap {"11r", "fast_bss_transition"} # {} \/ FTAKMS(details) # {},
             akm |-> FTAKMS(details), rnr |-> "reduced_neighbor_report" \in all, flags |-> all]>>

(* A section is shown of an AP that has one of the parts it is about.      *)
SectionParts ==
  [he |-> {"heCapabilities", "heOperation", "uora", "muEdca"}, he6 |-> {"he6"},
   coloring |-> {"heOperation", "spatialReuse"}, eht |-> {"ehtCapabilities", "ehtOperation"},
   puncturing |-> {"heCapabilities", "ehtOperation"}]
Sections(x) ==
  {s \in DOMAIN SectionParts : SectionParts[s] \cap x.parts # {}}
  \cup (IF x.details # <<>> THEN {"security"} ELSE {})
  \cup (IF Roaming(x.flags, x.details) # <<>> THEN {"roaming"} ELSE {})
  \cup (IF x.ie.has THEN {"multi-link"} ELSE {})

(* The sections of a report list the APs they are shown of.                *)
Listed(groups, section) ==
  SelectSeq(FlattenSeq([i \in DOMAIN groups |-> groups[i].results]), LAMBDA r : section \in Sections(r))
SecurityListed(groups) == Listed(groups, "security")
RoamingListed(groups) == Listed(groups, "roaming")
HEListed(groups) == Listed(groups, "he")
HE6GHzListed(groups) == Listed(groups, "he6")
ColoringListed(groups) == Listed(groups, "coloring")
MultiLinkListed(groups) == Listed(groups, "multi-link")
PuncturingListed(groups) == Listed(groups, "puncturing")
EHTListed(groups) == Listed(groups, "eht")

Block(group, r, current) ==
  [ssid |-> r.ssid, bssid |-> r.bssid, mark |-> ResultMark(group, r, current), mld |-> group.display,
   link |-> ShownLinkID(r), band |-> BandOf(r), channel |-> ChannelFromFrequency(r.freq),
   width |-> OperationWidth(r.op), punctured |-> Puncturing(r.op),
   links |-> [i \in DOMAIN r.aff |->
                [id |-> r.aff[i].id, ap |-> r.aff[i].ap, mark |-> LinkMark(group, r.aff[i], current)]],
   sections |-> Sections(r)]
Blocks(group, current) == [i \in DOMAIN group.results |-> Block(group, group.results[i], current)]

-----------------------------------------------------------------------------
(* Networks, the summary of the scan, readiness and warnings               *)

ShownNetworks(networks, f) ==
  SelectSeq(networks, LAMBDA c : HasMLO(c) /\ (~Active(f) \/ MatchesConnection(f, c)))

ScanSource(scan) == IF scan.source # "" THEN scan.source ELSE IF scan.fresh THEN "fresh" ELSE "diagnostics"
ScanSummary(scan, candidates, f) ==
  [source |-> ScanSource(scan), candidates |-> Len(candidates), errors |-> Cardinality(scan.errors),
   results |-> IF scan.count # <<>> THEN scan.count[1] ELSE Len(scan.results),
   filtered |-> IF Active(f) THEN <<Len(FilterScan(f, scan.results))>> ELSE <<>>]

CapabilityState(caps, name) ==
  IF name \in caps.supported THEN "supported" ELSE IF name \in caps.unsupported THEN "unsupported" ELSE "unknown"
ReadinessNames ==
  {"6GHz", "802.11be", "wpa3_sae", "wpa3_sae_h2e", "wpa3_sae_public_key", "owe", "tid_to_link_mapping_negotiation",
   "dual_band_simultaneous", "sta_concurrency_multi_internet"}
Readiness(caps) ==
  IF caps = <<>> THEN <<>> ELSE <<[n \in ReadinessNames |-> CapabilityState(caps[1], n)]>>

When(condition, warning) == IF condition THEN {warning} ELSE {}

(* wifiMLOMetadataWarnings: only of results of the standard.               *)
MetadataWarnings(candidates) ==
  LET be == {r \in Range(candidates) : r.standard = "802.11be"}
      mldSeen == \E r \in be : MLDMAC(r) # NoMac
      linkSeen == \E r \in be : OwnLink(r) # {} \/ r.ie.link # <<>>
  IN IF be = {} THEN {}
     ELSE IF ~mldSeen /\ ~linkSeen THEN {"scan_mlo_metadata_unavailable"}
     ELSE When(\E r \in be : ~HasMetadata(r), "scan_mlo_metadata_partial")

StatusWarnings(status) ==
  IF status = <<>> THEN {"wifi_status_unavailable"}
  ELSE When(~status[1].enabled, "wifi_disabled") \cup When(status[1].state \notin {"", "enabled"}, "wifi_state")
       \cup When(status[1].denied, "permission")
CapabilityWarnings(caps) ==
  IF caps = <<>> THEN {}
  ELSE When("802.11be" \in caps[1].unsupported, "wifi_7_standard_unsupported")
       \cup When("tid_to_link_mapping_negotiation" \in caps[1].unsupported,
                 "tid_to_link_mapping_negotiation_unsupported")

(* renderWifiMLODiagnostics looks for the links of the connection itself.  *)
Diagnostics(status, caps, scan, current, candidates) ==
  LET compared == current # <<>> /\ Comparable(current[1], scan, candidates)
      seen == \E r \in Range(candidates) : SameMLD(current[1], r)
      visible == {id \in 0 .. 15 : \E r \in Range(candidates) : SameMLD(current[1], r) /\ id \in ScanLinkIDs(r)}
  IN StatusWarnings(status) \cup CapabilityWarnings(caps) \cup When(scan.errors # {}, "scan_error")
     \cup When(current # <<>> /\ ~HasMLO(current[1]), "connected_mlo_present=false")
     \cup When(candidates = <<>>, "eht_scan_results=0")
     \cup When(compared /\ ~seen, "connected_ap_mld_not_seen_in_scan")
     \cup MetadataWarnings(candidates)
     \cup When(compared /\ ~(AssociatedLinkIDSet(current[1]) \subseteq visible), "associated_link_missing_from_scan")

RenderWifiMLO(d, f) ==
  LET candidates == Candidates(FilterScan(f, d.scan.results))
      current == FilterConnection(f, CurrentConnection(d.status))
      groups == Groups(candidates)
  IN [relation |-> [i \in DOMAIN current |-> Relation(current[i], d.scan, candidates)],
      connected |-> [i \in DOMAIN current |-> Sections(current[i])],
      networks |-> ShownNetworks(d.networks, f), summary |-> ScanSummary(d.scan, candidates, f),
      listed |-> SecurityListed(groups) \o RoamingListed(groups) \o HEListed(groups) \o HE6GHzListed(groups)
                   \o ColoringListed(groups) \o MultiLinkListed(groups) \o PuncturingListed(groups)
                   \o EHTListed(groups),
      groups |-> groups, blocks |-> [i \in DOMAIN groups |-> Blocks(groups[i], current)],
      readiness |-> Readiness(d.caps),
      warnings |-> Diagnostics(d.status, d.caps, d.scan, current, candidates)]

-----------------------------------------------------------------------------
(* Properties                                                              *)

AllBlocks(report) == FlattenSeq(report.blocks)

(* The report agrees with itself: the warnings, the relation and the marks *)
(* of the blocks are computed apart.  A link is called missing only of a   *)
(* scan that is recent as to the APs of the connection, and never when it  *)
(* is the link shown of one of them.                                       *)
ReportAgrees(d, f) ==
  LET report == RenderWifiMLO(d, f)
      marks == {b.mark : b \in Range(AllBlocks(report))}
      relation == report.relation[1]
      missing == relation.missing[1]
      own == {i \in DOMAIN report.groups : report.blocks[i][1].mark \in {"*", "+"}}
  IN IF report.relation = <<>>
     THEN /\ marks \cap {"*", "+"} = {}
          /\ report.warnings \cap {"connected_ap_mld_not_seen_in_scan", "associated_link_missing_from_scan"} = {}
     ELSE /\ (relation.sameMld > 0) <=> (own # {})
          /\ "*" \in marks => relation.bssidSeen
          /\ relation.missing # <<>> =>
               /\ "scan_error" \notin report.warnings
               /\ missing # {} <=> "associated_link_missing_from_scan" \in report.warnings
               /\ relation.sameMld = 0 <=> "connected_ap_mld_not_seen_in_scan" \in report.warnings
               /\ \A i \in own : \A k \in DOMAIN report.blocks[i] :
                    LET r == report.groups[i].results[k] IN
                    report.blocks[i][k].mark = "*" =>
                      r.age # <<>> /\ r.age[1] <= 10 /\ (OwnLink(r) \cup Range(r.ie.link)) \cap missing = {}
          /\ relation.missing = <<>> => "associated_link_missing_from_scan" \notin report.warnings

(* Every candidate that passes the filter is shown once, and in each of    *)
(* its sections; one MLD, however its address is spelled, is in one group. *)
BlocksFaithful(d, f) ==
  LET report == RenderWifiMLO(d, f)
      candidates == Candidates(FilterScan(f, d.scan.results))
      Seen(bssid, ssid) == Cardinality({i \in DOMAIN candidates : candidates[i].bssid = bssid /\ candidates[i].ssid = ssid})
      blocks == AllBlocks(report)
  IN /\ Len(report.listed) = FoldLeft(LAMBDA n, b : n + Cardinality(b.sections), 0, blocks)
     /\ \A b \in Range(blocks) :
          Cardinality({i \in DOMAIN blocks : blocks[i].bssid = b.bssid /\ blocks[i].ssid = b.ssid}) = Seen(b.bssid, b.ssid)
     /\ Len(blocks) = report.summary.candidates
     /\ \A i, j \in DOMAIN report.groups :
          i < j => /\ report.groups[i].best >= report.groups[j].best
                   /\ report.groups[i].display # NoMac =>
                        ~EqualFold(TrimSpace(report.groups[i].display), TrimSpace(report.groups[j].display))

(* A value that was not observed changes nothing: no relation, no mark, no *)
(* group and no warning.                                                   *)
Blank(x) == IF x.linkState = "available" THEN x ELSE [x EXCEPT !.link = 99]
BlankLinks(links) == [i \in DOMAIN links |-> IF links[i].state = "available" THEN links[i] ELSE [links[i] EXCEPT !.id = 99]]
Blanked(d) ==
  [d EXCEPT !.scan.results = [i \in DOMAIN @ |-> Blank([@[i] EXCEPT !.aff = BlankLinks(@)])],
            !.status = [i \in DOMAIN @ |->
                          [@[i] EXCEPT !.conn = [k \in DOMAIN @ |-> Blank([@[k] EXCEPT !.assoc = BlankLinks(@)])]]]]
UnobservedIgnored(d, f) ==
  LET report == RenderWifiMLO(d, f)
      blank == RenderWifiMLO(Blanked(d), f)
      Facts(r) == [relation |-> r.relation, warnings |-> r.warnings, connected |-> r.connected,
                   marks |-> [i \in DOMAIN AllBlocks(r) |->
                                [mark |-> AllBlocks(r)[i].mark, link |-> AllBlocks(r)[i].link, bssid |-> AllBlocks(r)[i].bssid]]]
  IN Facts(report) = Facts(blank)

ReportHolds(d, f) == ReportAgrees(d, f) /\ BlocksFaithful(d, f) /\ UnobservedIgnored(d, f)
=============================================================================

---------------------------- MODULE BeaconElements ---------------------------
(***************************************************************************)
(* The decoders of the information elements of an access point: the EHT    *)
(* Multi-Link element with its per-station profiles (eht_multi_link.go),   *)
(* the reduced neighbor report, the multiple-BSSID element and the RSN     *)
(* elements (wifi_mlo_inspect.go).                                         *)
(*                                                                         *)
(* Bytes are sequences of 0..255; hex strings are the bytes they spell.    *)
(* An optional value is a sequence of at most one element, and a field the *)
(* decoder did not find is <<>>.  An element of a scan is [id, ext, body]. *)
(***************************************************************************)
EXTENDS Integers, Sequences, FiniteSets, SequencesExt, FiniteSetsExt, Functions, TLC

Extension == 255
MultiLinkExt == 107
NonInheritanceExt == 56
RnrId == 201
MultipleBssidId == 71
PerStaProfile == 0
FragmentIds == {254, 1}
VendorIds == {221, 2}

HasBit(value, bit) == (value \div 2^bit) % 2 = 1
Bits(value, low, width) == (value \div 2^low) % 2^width
U16le(bytes, offset) == bytes[offset + 1] + 256 * bytes[offset + 2]
Slice(bytes, from, to) == SubSeq(bytes, from + 1, Min({to, Len(bytes)}))

-----------------------------------------------------------------------------
(* Lists of (id, length, data): the subelements of a Multi-Link element,   *)
(* the elements of a profile, the profiles of a multiple-BSSID element.    *)

Item(bytes, o) ==
  LET data == Slice(bytes, o + 2, o + 2 + bytes[o + 2])
  IN [id |-> bytes[o + 1], declared |-> bytes[o + 2], data |-> data,
      truncated |-> Len(data) # bytes[o + 2]]

(* The items from an offset on; the first that ends early is the last.     *)
Items(bytes, start) ==
  LET rest[o \in 0 .. Len(bytes)] ==
        CASE o = Len(bytes) -> [items |-> <<>>, truncated |-> FALSE]
          [] o = Len(bytes) - 1 -> [items |-> <<>>, truncated |-> TRUE]
          [] OTHER ->
               LET item == Item(bytes, o)
                   tail == IF item.truncated THEN [items |-> <<>>, truncated |-> TRUE]
                           ELSE rest[Min({o + 2 + item.declared, Len(bytes)})]
               IN [items |-> <<item>> \o tail.items, truncated |-> tail.truncated]
  IN rest[Min({start, Len(bytes)})]

(* Optional fields in a fixed order: layout is a sequence of [name, bit,   *)
(* size], bit -1 for a field that is always there.  A field beyond the     *)
(* limit is missing, and takes its place all the same.                     *)
Fields(layout, control, bytes, start, limit) ==
  LET there(i) == layout[i].bit < 0 \/ HasBit(control, layout[i].bit)
      size(i) == IF there(i) THEN layout[i].size ELSE 0
      from(i) == start + FoldFunctionOnSet(+, 0, [k \in DOMAIN layout |-> size(k)], 1 .. i - 1)
      found(i) == there(i) /\ from(i) + size(i) <= Min({limit, Len(bytes)})
      names == {layout[i].name : i \in DOMAIN layout}
      at(n) == CHOOSE i \in DOMAIN layout : layout[i].name = n
  IN [values |-> [n \in names |->
                    IF found(at(n)) THEN Slice(bytes, from(at(n)), from(at(n)) + size(at(n))) ELSE <<>>],
      truncated |-> \E i \in DOMAIN layout : there(i) /\ ~found(i)]

Field(name, bit, size) == [name |-> name, bit |-> bit, size |-> size]

-----------------------------------------------------------------------------
(* The elements of a per-station profile                                   *)

ProfileElement(item) ==
  item @@ [ext |-> IF item.id = Extension THEN Slice(item.data, 0, 1) ELSE <<>>]

ParseProfileInformationElements(data) ==
  LET found == Items(data, 0)
  IN [elements |-> [i \in DOMAIN found.items |-> ProfileElement(found.items[i])],
      truncated |-> found.truncated]

(* profileElementsAsWifiInformationElements: an extension loses its first  *)
(* byte, which is its extended ID.                                         *)
AsInformationElement(e) ==
  IF e.ext # <<>> THEN [id |-> e.id, ext |-> e.ext[1], body |-> Tail(e.data)]
  ELSE [id |-> e.id, ext |-> 0, body |-> e.data]

-----------------------------------------------------------------------------
(* The EHT Multi-Link element                                              *)

CommonLayout ==
  <<Field("mld", -1, 6), Field("linkId", 4, 1), Field("bssChanges", 5, 1), Field("mediumSync", 6, 2),
    Field("eml", 7, 2), Field("mldCaps", 8, 2), Field("apMldId", 9, 1), Field("extCaps", 10, 2)>>

(* basicMultiLinkPresence, also of an element that is not a basic one.     *)
Presence(control) ==
  {CommonLayout[i].name : i \in {k \in DOMAIN CommonLayout : k > 1 /\ HasBit(control, CommonLayout[k].bit)}}

ParseBasicCommonInfo(bytes, start, end, control) ==
  LET f == Fields(CommonLayout, control, bytes, start + 1, end)
  IN [f EXCEPT !.values.linkId = IF @ = <<>> THEN @ ELSE <<@[1] % 16>>]

(* parsePerSTAProfile: of the station's fields one is 1 or 2 bytes long.   *)
StaLayout(control) ==
  <<Field("mac", 5, 6), Field("beaconInterval", 6, 2), Field("tsfOffset", 7, 8), Field("dtimCount", 8, 1),
    Field("dtimPeriod", 8, 1), Field("nstr", 9, IF HasBit(control, 10) THEN 2 ELSE 1),
    Field("bssChanges", 11, 1)>>

(* perSTAProfileFlags                                                      *)
StaFlags(control) == {b \in 4 .. 11 : HasBit(control, b)}

ParsePerSTAProfile(data, already) ==
  IF Len(data) < 3 THEN <<>>
  ELSE LET control == U16le(data, 0)
           length == data[3]
           end == Min({2 + length, Len(data)})
           f == Fields(StaLayout(control), control, data, 3, end)
           profile == ParseProfileInformationElements(Slice(data, end, Len(data)))
       IN <<[control |-> control, linkId |-> control % 16, complete |-> HasBit(control, 4),
             flags |-> StaFlags(control), values |-> f.values, elements |-> profile.elements,
             elementsTruncated |-> profile.truncated,
             truncated |-> already \/ length = 0 \/ 2 + length > Len(data) \/ f.truncated]>>

ParseVendorSpecificSubelement(data) ==
  [oui |-> IF Len(data) >= 3 THEN Slice(data, 0, 3) ELSE <<>>,
   type |-> Slice(data, 3, 4), payload |-> Slice(data, 4, Len(data))]

(* The subelement a fragment belongs to: the last one before it that is    *)
(* none.                                                                   *)
Anchor(raw, i) == Max({0} \cup {k \in 1 .. i - 1 : raw[k].id \notin FragmentIds})
FragmentsOf(raw, i) ==
  SetToSortSeq({k \in DOMAIN raw : raw[k].id \in FragmentIds /\ Anchor(raw, k) = i}, <)

(* Fault: a profile is read from the first piece only.                     *)
ReassembledFirst(raw, i) == raw[i].data

Reassembled(raw, i) ==
  raw[i].data \o FlattenSeq([k \in DOMAIN FragmentsOf(raw, i) |-> raw[FragmentsOf(raw, i)[k]].data])

(* parseEHTMultiLinkSubelements                                            *)
ParseSubelements(raw) ==
  [i \in DOMAIN raw |->
     raw[i] @@
     [fragments |-> Len(FragmentsOf(raw, i)),
      target |-> IF raw[i].id \in FragmentIds /\ Anchor(raw, i) > 0 THEN <<raw[Anchor(raw, i)].id>> ELSE <<>>,
      profile |-> IF raw[i].id = PerStaProfile
                  THEN ParsePerSTAProfile(Reassembled(raw, i), raw[i].truncated) ELSE <<>>,
      vendor |-> IF raw[i].id \in VendorIds THEN <<ParseVendorSpecificSubelement(raw[i].data)>> ELSE <<>>]]

(* The common info of a basic element, its length only of any other.       *)
CommonInfo(bytes, control, end) ==
  IF control % 8 # 0 THEN [values |-> <<>>, truncated |-> FALSE]
  ELSE ParseBasicCommonInfo(bytes, 2, end, control)

ParseMultiLinkElement(bytes) ==
  IF Len(bytes) < 2 THEN <<>>
  ELSE LET control == U16le(bytes, 0)
           has == Len(bytes) > 2
           length == IF has THEN bytes[3] ELSE 0
           end == Min({2 + length, Len(bytes)})
           common == IF has THEN <<CommonInfo(bytes, control, end)>> ELSE <<>>
           raw == Items(bytes, end)
       IN <<[control |-> control, type |-> control % 8, presence |-> Presence(control),
             common |-> common, subelements |-> ParseSubelements(raw.items),
             truncated |-> \/ has /\ (length = 0 \/ 2 + length > Len(bytes) \/ common[1].truncated)
                           \/ raw.truncated]>>

ParseMultiLinkElements(elements) ==
  FlattenSeq([i \in DOMAIN elements |->
                IF elements[i].id = Extension /\ elements[i].ext = MultiLinkExt
                THEN ParseMultiLinkElement(elements[i].body) ELSE <<>>])

(* What the report takes from the elements: the first address of an MLD,   *)
(* the first link ID of a common info, and every link ID.                  *)
MldOf(mle) == IF mle.common = <<>> \/ mle.type # 0 THEN <<>> ELSE mle.common[1].values.mld
LinkOfMle(mle) == IF mle.common = <<>> \/ mle.type # 0 THEN <<>> ELSE mle.common[1].values.linkId
ProfilesOf(mle) == FlattenSeq([i \in DOMAIN mle.subelements |-> mle.subelements[i].profile])
FirstOf(seqs) == LET hit == {i \in DOMAIN seqs : seqs[i] # <<>>} IN IF hit = {} THEN <<>> ELSE seqs[Min(hit)]
MLDMACFromElements(elements) ==
  LET mles == ParseMultiLinkElements(elements) IN FirstOf([i \in DOMAIN mles |-> MldOf(mles[i])])
CurrentLinkIDFromElements(elements) ==
  LET mles == ParseMultiLinkElements(elements) IN FirstOf([i \in DOMAIN mles |-> LinkOfMle(mles[i])])
LinkIDsFromElements(elements) ==
  LET mles == ParseMultiLinkElements(elements)
  IN UNION {Range(LinkOfMle(mles[i])) \cup {p.linkId : p \in Range(ProfilesOf(mles[i]))} : i \in DOMAIN mles}

(* multiLinkCommonCapabilityLines: the bit fields of the capabilities that *)
(* are there.                                                              *)
CapabilityFields ==
  [mediumSync |-> [duration |-> <<0, 8>>, threshold |-> <<8, 4>>, maxTxop |-> <<12, 4>>],
   eml |-> [emlsr |-> <<0, 1>>, padding |-> <<1, 3>>, transition |-> <<4, 3>>, emlmr |-> <<7, 1>>,
            reservedLow |-> <<8, 3>>, timeout |-> <<11, 4>>, reservedHigh |-> <<15, 1>>],
   mldCaps |-> [maxLinks |-> <<0, 4>>, srs |-> <<4, 1>>, tidAll |-> <<5, 1>>, tidOne |-> <<6, 1>>,
                apType |-> <<7, 1>>, freqSep |-> <<7, 5>>, aar |-> <<12, 1>>, reconfig |-> <<13, 1>>, twt |-> <<14, 1>>,
                reserved |-> <<15, 1>>],
   extCaps |-> [opUpdate |-> <<0, 1>>, maxLinks |-> <<1, 4>>, nstrUpdate |-> <<5, 1>>, oneLink |-> <<6, 1>>,
                btm |-> <<7, 1>>, reserved |-> <<8, 8>>]]
CapabilityValues(values) ==
  [c \in {k \in DOMAIN CapabilityFields : values[k] # <<>>} |->
     [f \in DOMAIN CapabilityFields[c] |->
        Bits(U16le(values[c], 0), CapabilityFields[c][f][1], CapabilityFields[c][f][2])]]

-----------------------------------------------------------------------------
(* The HE and EHT elements of a profile (profile...Lines): a body that is  *)
(* too short gives a warning instead of values.  A body includes the       *)
(* extended ID.                                                            *)

TooShort == [warning |-> TRUE]
Payload(body) == IF body = <<>> THEN <<>> ELSE Tail(body)

(* The bits a report names: heOperationFlagNames, ehtOperationFlagNames    *)
(* and heSpatialReuseFlagNames.                                            *)
HeFlags(parameters) == {b \in {3, 14, 15, 16, 17} : HasBit(parameters, b)}
EhtFlags(parameters) == {b \in {0, 1, 2, 3, 6} : HasBit(parameters, b)}
SpatialReuseFlags(control) == {b \in 0 .. 4 : HasBit(control, b)}

(* maxMPDULengthBytes and maxAMPDULengthBytes                              *)
MaxMPDULength(code) == CASE code = 0 -> 3895 [] code = 1 -> 7991 [] code = 2 -> 11454 [] OTHER -> 0
MaxAMPDULength(exponent) == 2^(13 + exponent) - 1

(* profileHEOperationLines: an optional 3 and an optional 1 byte come      *)
(* before the 6 GHz part.                                                  *)
HEOperation(body) ==
  LET b == Payload(body)
      parameters == U16le(b, 0) + 65536 * b[3]
      color == b[4]
      offset == 6 + (IF HasBit(parameters, 14) THEN 3 ELSE 0) + (IF HasBit(parameters, 15) THEN 1 ELSE 0)
  IN IF Len(b) < 6 THEN TooShort
     ELSE [warning |-> HasBit(parameters, 17) /\ Len(b) < offset + 5, color |-> color % 64,
           disabled |-> HasBit(color, 7), flags |-> HeFlags(parameters),
           six |-> IF HasBit(parameters, 17) /\ Len(b) >= offset + 5
                   THEN <<[primary |-> b[offset + 1], width |-> b[offset + 2] % 4,
                           ccfs |-> Slice(b, offset + 2, offset + 4)]>> ELSE <<>>]

HESpatialReuse(body) ==
  IF Payload(body) = <<>> THEN TooShort
  ELSE [warning |-> FALSE, flags |-> SpatialReuseFlags(Payload(body)[1])]

HE6GHz(body) ==
  LET b == Payload(body) IN
  IF Len(b) < 2 THEN TooShort
  ELSE [warning |-> FALSE, mpdu |-> MaxMPDULength(Bits(U16le(b, 0), 6, 2)),
        ampdu |-> MaxAMPDULength(Bits(U16le(b, 0), 3, 3)),
        smps |-> Bits(U16le(b, 0), 9, 2)]

(* profileEHTOperationLines: the width needs the operation information,    *)
(* the punctured subchannels its bitmap after it.                          *)
EHTOperation(body) ==
  LET b == Payload(body)
      info == HasBit(b[1], 0) /\ Len(b) >= 8
  IN IF Len(b) < 5 THEN TooShort
     ELSE [warning |-> FALSE, flags |-> EhtFlags(b[1]), width |-> IF info THEN <<b[6] % 8>> ELSE <<>>,
           punctured |-> IF info /\ HasBit(b[1], 1) /\ Len(b) >= 10
                         THEN <<{i \in 0 .. 15 : HasBit(U16le(b, 8), i)}>> ELSE <<>>]

(* profileEHTCapabilitiesLines: the bits (byte, bit) that are features.    *)
EHTCapabilities(body) ==
  LET b == Payload(body) IN
  IF Len(b) < 11 THEN TooShort
  ELSE [warning |-> FALSE,
        features |-> {x \in {<<0, 1>>, <<0, 4>>, <<2, 1>>, <<6, 1>>, <<8, 7>>, <<10, 1>>} : HasBit(b[x[1] + 1], x[2])}]

(* wifiMLOProfileDecodeLines                                               *)
ProfileDecode(elements) ==
  LET Of(ext) == SelectSeq(elements, LAMBDA e : e.ext = <<ext>>)
      Each(ext, Read(_)) == [i \in DOMAIN Of(ext) |-> Read(Of(ext)[i].data)]
      converted == [i \in DOMAIN elements |-> AsInformationElement(elements[i])]
  IN [heOperation |-> Each(36, HEOperation), spatialReuse |-> Each(39, HESpatialReuse), he6 |-> Each(59, HE6GHz),
      ehtOperation |-> Each(106, EHTOperation), ehtCapabilities |-> Each(108, EHTCapabilities),
      mld |-> MLDMACFromElements(converted), links |-> LinkIDsFromElements(converted)]

-----------------------------------------------------------------------------
(* The reduced neighbor report                                             *)

(* parseWifiMLORNRtbtt: which fields there are depends on the length.      *)
ParseTbtt(field, declared) ==
  LET Has(n) == declared >= n /\ Len(field) >= n
      raw == U16le(field, 14)
  IN [offset |-> IF field = <<>> THEN 0 ELSE field[1],
      bssid |-> IF Has(7) THEN Slice(field, 1, 7) ELSE <<>>,
      shortSsid |-> IF Has(11) THEN Slice(field, 7, 11) ELSE <<>>,
      bssParameters |-> IF Has(12) THEN Slice(field, 11, 12) ELSE <<>>,
      psd |-> IF Has(13) THEN Slice(field, 12, 13) ELSE <<>>,
      mld |-> IF Has(16) THEN <<[apMldId |-> field[14], linkId |-> raw % 16, changes |-> Bits(raw, 4, 8),
                                 updates |-> HasBit(raw, 12), disabled |-> HasBit(raw, 13)]>> ELSE <<>>,
      truncated |-> field = <<>> \/ Len(field) # declared]

(* One neighbor: the header, and as many of its entries as there are.      *)
Neighbor(bytes, o) ==
  LET header == U16le(bytes, o)
      count == Bits(header, 4, 4) + 1
      info == Bits(header, 8, 8)
      start(k) == o + 4 + (k - 1) * info
      n == Cardinality({k \in 1 .. count : start(k) < Len(bytes)})
  IN [type |-> header % 4, filtered |-> HasBit(header, 2), count |-> count, info |-> info,
      class |-> bytes[o + 3], channel |-> bytes[o + 4],
      tbtts |-> IF info = 0 THEN <<>>
                ELSE [k \in 1 .. n |-> ParseTbtt(Slice(bytes, start(k), start(k) + info), info)],
      truncated |-> info = 0 \/ start(count + 1) > Len(bytes)]

(* parseWifiMLORNRBytes.  An entry that ends early ends its neighbor, but  *)
(* the bytes of the entry are read as the next neighbor then.              *)
ParseRnr(bytes) ==
  LET next(o) ==
        LET n == Neighbor(bytes, o)
            end == o + 4 + n.count * n.info
        IN IF n.info = 0 THEN Len(bytes)
           ELSE IF end <= Len(bytes) THEN end
           ELSE o + 4 + n.info * ((Len(bytes) - o - 4) \div n.info)
      rest[o \in 0 .. Len(bytes)] ==
        IF Len(bytes) - o < 4 THEN <<>> ELSE <<Neighbor(bytes, o)>> \o rest[next(o)]
      ends[o \in 0 .. Len(bytes)] == IF Len(bytes) - o < 4 THEN o ELSE ends[next(o)]
      found == rest[0]
  IN IF found # <<>> /\ ends[0] < Len(bytes) THEN [found EXCEPT ![Len(found)].truncated = TRUE] ELSE found

RnrNeighbors(elements) ==
  FlattenSeq([i \in DOMAIN elements |-> IF elements[i].id = RnrId THEN ParseRnr(elements[i].body) ELSE <<>>])

(* wifiMLORNRFieldFlags: the fields an entry of a length should have.      *)
TbttFlags(info) == {n \in {7, 11, 12, 13, 16} : info >= n}

(* wifiMLORNROperatingClassLabel (80+80 counts as 160) and                 *)
(* wifiMLORNRFrequencyMHz                                                  *)
OperatingClass(class) ==
  LET width ==
        CASE class \in {81, 82, 115, 118, 121, 124, 125, 131, 136} -> 20
          [] class \in {83, 84, 116, 117, 119, 120, 122, 123, 126, 127, 132} -> 40
          [] class \in {128, 133} -> 80 [] class \in {129, 130, 134, 135} -> 160 [] class = 137 -> 320
          [] class \in 180 .. 183 -> 2160 * (class - 179) [] OTHER -> 0
  IN CASE class \in 81 .. 84 -> [band |-> "2.4ghz", width |-> width]
       [] class \in 115 .. 130 -> [band |-> "5ghz", width |-> width]
       [] class \in 131 .. 137 -> [band |-> "6ghz", width |-> width]
       [] class \in 180 .. 183 -> [band |-> "60ghz", width |-> width]
       [] OTHER -> [band |-> "<unknown>", width |-> width]
FrequencyMHz(class, channel) ==
  CASE class \in 81 .. 84 -> IF channel = 14 THEN 2484 ELSE IF channel \in 1 .. 13 THEN 2407 + channel * 5 ELSE 0
    [] class \in 115 .. 130 -> IF channel \in 1 .. 200 THEN 5000 + channel * 5 ELSE 0
    [] class = 136 -> IF channel = 2 THEN 5935 ELSE 0
    [] class \in 131 .. 137 \ {136} -> IF channel \in 1 .. 233 THEN 5950 + channel * 5 ELSE 0
    [] class \in 180 .. 183 -> IF channel \in 1 .. 27 THEN 56160 + channel * 2160 ELSE 0
    [] OTHER -> 0

-----------------------------------------------------------------------------
(* RSN, RSNXE and extended capabilities                                    *)

InformationElementBit(bytes, bit) == bit \div 8 < Len(bytes) /\ HasBit(bytes[bit \div 8 + 1], bit % 8)

RsnxeNames ==
  4 :> "protected_twt" @@ 5 :> "sae_h2e" @@ 6 :> "sae_pk" @@ 8 :> "secure_ltf" @@ 9 :> "secure_rtt"
  @@ 10 :> "urnm_mfpr_x20" @@ 14 :> "spp_a_msdu" @@ 15 :> "urnm_mfpr" @@ 18 :> "kek_in_pasn"
  @@ 21 :> "ssid_protection" @@ 27 :> "assoc_frame_encryption" @@ 28 :> "8021x_in_auth_frames"
  @@ 29 :> "pmksa_caching_privacy" @@ 34 :> "sae_pw_id_change" @@ 36 :> "unauth_eppke"
ExtendedNames ==
  19 :> "bss_transition" @@ 72 :> "fils" @@ 80 :> "complete_non_tx_bssid_profile"
  @@ 81 :> "sae_password_identifier" @@ 82 :> "sae_password_identifier_exclusively"
  @@ 84 :> "beacon_protection" @@ 88 :> "sae_pk_exclusively" @@ 102 :> "known_sta_identification"
NamesOf(table, bytes) == {table[b] : b \in {k \in DOMAIN table : InformationElementBit(bytes, k)}}

(* A suite by its four bytes; only those that something depends on have a  *)
(* name.                                                                   *)
Suite(bytes, offset) ==
  LET s == Slice(bytes, offset, offset + 4)
  IN IF Len(s) < 4 THEN "<truncated>" ELSE IF SubSeq(s, 1, 3) # <<0, 15, 172>> THEN "other" ELSE ToString(s[4])
CipherSuiteName(bytes, offset) == IF Suite(bytes, offset) = "9" THEN "gcmp_256" ELSE Suite(bytes, offset)
AKMSuiteName(bytes, offset) ==
  LET s == Suite(bytes, offset)
  IN CASE s = "24" -> "sae_gdh" [] s = "25" -> "ft_sae_gdh" [] s = "8" -> "sae" [] OTHER -> s

(* A counted list of suites at an offset: as many as are there.            *)
SuiteList(bytes, offset) ==
  LET count == U16le(bytes, offset)
      n == IF Len(bytes) < offset + 2 THEN 0 ELSE Min({count, (Len(bytes) - offset - 2) \div 4})
  IN [offsets |-> [i \in 1 .. n |-> offset + 2 + 4 * (i - 1)],
      end |-> offset + 2 + 4 * n, complete |-> Len(bytes) >= offset + 2 /\ n = count]

(* parseWifiRSNBytes.  A field that is missing in front of the             *)
(* capabilities gives a warning, the capabilities and the PMKID count may  *)
(* be left out.                                                            *)
NoRsn == [group |-> <<>>, pairwise |-> <<>>, akm |-> <<>>, required |-> FALSE, capable |-> FALSE,
          management |-> <<>>, warned |-> FALSE]
ParseRSN(bytes) ==
  LET group == IF Len(bytes) >= 6 THEN <<CipherSuiteName(bytes, 2)>> ELSE <<>>
      pairs == IF group = <<>> THEN [offsets |-> <<>>, end |-> 0, complete |-> FALSE] ELSE SuiteList(bytes, 6)
      akms == IF pairs.complete THEN SuiteList(bytes, pairs.end)
              ELSE [offsets |-> <<>>, end |-> 0, complete |-> FALSE]
      caps == akms.complete /\ Len(bytes) >= akms.end + 2
      value == IF caps THEN U16le(bytes, akms.end) ELSE 0
      ids == caps /\ Len(bytes) >= akms.end + 4
      after == akms.end + 4 + (IF ids THEN 16 * U16le(bytes, akms.end + 2) ELSE 0)
  IN [group |-> group,
      pairwise |-> [i \in DOMAIN pairs.offsets |-> CipherSuiteName(bytes, pairs.offsets[i])],
      akm |-> [i \in DOMAIN akms.offsets |-> AKMSuiteName(bytes, akms.offsets[i])],
      required |-> HasBit(value, 6), capable |-> HasBit(value, 7),
      management |-> IF ids /\ Len(bytes) >= after + 4 THEN <<CipherSuiteName(bytes, after)>> ELSE <<>>,
      warned |-> ~akms.complete \/ (ids /\ Len(bytes) < after)
                   \/ (ids /\ Len(bytes) \in after + 1 .. after + 3)]

(* parseWifiSecurityDetailsFromBytes of optional elements.                 *)
SecurityDetails(rsn, rsnxe, extended) ==
  LET r == IF rsn = <<>> THEN NoRsn ELSE ParseRSN(rsn[1])
      gcmp == "gcmp_256" \in Range(r.group) \cup Range(r.pairwise)
      gdh == {"sae_gdh", "ft_sae_gdh"} \cap Range(r.akm) # {}
      beacon == extended # <<>> /\ InformationElementBit(extended[1], 84)
  IN [rsn |-> r, gcmp256 |-> gcmp, saeGdh |-> gdh, beaconProtection |-> beacon,
      rsnxe |-> IF rsnxe = <<>> THEN {} ELSE NamesOf(RsnxeNames, rsnxe[1]),
      extended |-> IF extended = <<>> THEN {} ELSE NamesOf(ExtendedNames, extended[1]),
      wifi7PersonalReady |-> r.required /\ gcmp /\ gdh /\ beacon]

(* The last element of an ID counts; without any there are no details.     *)
SecurityFromElements(elements) ==
  LET Newest(id) == LET s == SelectSeq(elements, LAMBDA e : e.id = id)
                  IN IF s = <<>> THEN <<>> ELSE <<s[Len(s)].data>>
  IN IF Newest(48) \o Newest(244) \o Newest(127) = <<>> THEN <<>>
     ELSE <<SecurityDetails(Newest(48), Newest(244), Newest(127))>>

-----------------------------------------------------------------------------
(* The multiple-BSSID element                                              *)

(* parseWifiMLONonInheritance: two counted lists of bytes.                 *)
NonInheritance(body) ==
  LET ids == IF Len(body) < 2 THEN <<>> ELSE Slice(body, 2, 2 + body[2])
      at == 2 + Len(ids)
  IN [ids |-> ids, exts |-> IF Len(body) <= at THEN <<>> ELSE Slice(body, at + 1, at + 1 + body[at + 1])]

ParseBssidProfile(item) ==
  LET found == ParseProfileInformationElements(item.data)
      Latest(es) == IF es = <<>> THEN <<>> ELSE es[Len(es)].data
      OfLength(id, n) == Latest(SelectSeq(found.elements, LAMBDA e : e.id = id /\ Len(e.data) >= n))
  IN [ssid |-> OfLength(0, 0), index |-> Slice(OfLength(85, 1), 0, 1), dtim |-> Slice(OfLength(85, 2), 1, 2),
      capability |-> Slice(OfLength(83, 2), 0, 2),
      inherit |-> NonInheritance(Latest(SelectSeq(found.elements, LAMBDA e : e.ext = <<NonInheritanceExt>>))),
      elements |-> found.elements, security |-> SecurityFromElements(found.elements),
      truncated |-> item.truncated \/ found.truncated]

(* parseWifiMLOMultipleBSSIDBytes: the profiles among the subelements.     *)
ParseMultipleBSSIDBytes(bytes) ==
  LET found == Items(bytes, 1)
      profiles == SelectSeq(found.items, LAMBDA t : t.id = 0)
  IN [indicator |-> bytes[1], profiles |-> [i \in DOMAIN profiles |-> ParseBssidProfile(profiles[i])],
      truncated |-> found.truncated]

MultipleBSSIDs(elements) ==
  FlattenSeq([i \in DOMAIN elements |->
                IF elements[i].id = MultipleBssidId /\ elements[i].body # <<>>
                THEN <<ParseMultipleBSSIDBytes(elements[i].body)>> ELSE <<>>])

-----------------------------------------------------------------------------
(* What the report shows                                                   *)

(* formatEHTMultiLinkElements: a missing field has no place in a line, a   *)
(* profile of elements none of which could be read is shown as bytes.      *)
ShownMultiLink(mle) ==
  [type |-> mle.type, presence |-> mle.presence, truncated |-> mle.truncated,
   common |-> IF mle.common = <<>> \/ mle.type # 0 THEN {}
              ELSE {<<n, mle.common[1].values[n]>> :
                      n \in {k \in DOMAIN mle.common[1].values : mle.common[1].values[k] # <<>>}},
   capabilities |-> IF mle.common = <<>> \/ mle.type # 0 THEN <<>> ELSE CapabilityValues(mle.common[1].values),
   subelements |->
     [i \in DOMAIN mle.subelements |->
        LET sub == mle.subelements[i] IN
        [id |-> sub.id, truncated |-> sub.truncated, fragments |-> sub.fragments, target |-> sub.target,
         station |-> [k \in DOMAIN sub.profile |->
                        [link |-> sub.profile[k].linkId, truncated |-> sub.profile[k].truncated,
                         elements |-> [e \in DOMAIN sub.profile[k].elements |-> sub.profile[k].elements[e].id],
                         unparsed |-> sub.profile[k].elementsTruncated /\ sub.profile[k].elements = <<>>,
                         security |-> SecurityFromElements(sub.profile[k].elements),
                         decoded |-> ProfileDecode(sub.profile[k].elements)]]]]]

(* formatWifiMLORNRDetails                                                 *)
ShownNeighbor(n) ==
  [class |-> OperatingClass(n.class), frequency |-> FrequencyMHz(n.class, n.channel), flags |-> TbttFlags(n.info),
   tbtts |-> n.tbtts, truncated |-> n.truncated]

(* formatWifiMLOMultipleBSSIDDetails                                       *)
ShownProfile(p) ==
  [ssid |-> p.ssid, index |-> p.index, noninherit |-> p.inherit.ids # <<>> \/ p.inherit.exts # <<>>,
   truncated |-> p.truncated, elements |-> [e \in DOMAIN p.elements |-> p.elements[e].id],
   security |-> p.security, decoded |-> ProfileDecode(p.elements)]

-----------------------------------------------------------------------------
(* Properties                                                              *)

(* The bytes of a list of (id, data), of the fields of a layout whose bits *)
(* are set, and of a Multi-Link element with its stations.                 *)
EncodeItems(items) == FlattenSeq([i \in DOMAIN items |-> <<items[i][1], Len(items[i][2])>> \o items[i][2]])
FieldBytes(layout, bits, i) ==
  IF layout[i].bit < 0 \/ layout[i].bit \in bits THEN [k \in 1 .. layout[i].size |-> (i + k) % 16] ELSE <<>>
EncodeFields(layout, bits) == FlattenSeq([i \in DOMAIN layout |-> FieldBytes(layout, bits, i)])
Word(low, bits) == LET value == low + SumSet({2^b : b \in bits}) IN <<value % 256, value \div 256>>
EncodeStation(st) ==
  LET fields == EncodeFields(StaLayout(SumSet({2^b : b \in st.bits})), st.bits)
  IN Word(st.link, st.bits) \o <<Len(fields) + 1>> \o fields \o EncodeItems(st.elements)
EncodeCommon(bits) ==
  LET fields == EncodeFields(CommonLayout, bits) IN Word(0, bits) \o <<Len(fields) + 1>> \o fields
EncodeMle(bits, stations) ==
  EncodeCommon(bits) \o EncodeItems([i \in DOMAIN stations |-> <<PerStaProfile, EncodeStation(stations[i])>>])

(* A complete element is read as it was sent: every field that its bits    *)
(* announce, and of every station its link, fields and elements.           *)
MultiLinkReadsBack(bits, stations) ==
  LET mle == ParseMultiLinkElement(EncodeMle(bits, stations))[1]
      profiles == ProfilesOf(mle)
      Agrees(layout, present, values) ==
        \A i \in DOMAIN layout : values[layout[i].name] = FieldBytes(layout, present, i)
      element == <<[id |-> Extension, ext |-> MultiLinkExt, body |-> EncodeMle(bits, stations)]>>
  IN /\ ~mle.truncated /\ mle.type = 0
     /\ Agrees(CommonLayout, bits, mle.common[1].values)
     /\ Len(profiles) = Len(stations)
     /\ \A k \in DOMAIN stations :
          /\ ~profiles[k].truncated /\ ~profiles[k].elementsTruncated
          /\ profiles[k].linkId = stations[k].link /\ profiles[k].flags = stations[k].bits
          /\ Agrees(StaLayout(profiles[k].control), stations[k].bits, profiles[k].values)
          /\ [e \in DOMAIN profiles[k].elements |-> <<profiles[k].elements[e].id, profiles[k].elements[e].data>>]
               = stations[k].elements
     /\ CurrentLinkIDFromElements(element) = mle.common[1].values.linkId
     /\ LinkIDsFromElements(element) = Range(mle.common[1].values.linkId) \cup {st.link : st \in Range(stations)}

(* A station split into fragments, at any place, is read as the whole; the *)
(* fragments name what they belong to.                                     *)
FragmentsRejoin(bits, station) ==
  LET data == EncodeStation(station)
      whole == ParseMultiLinkElement(EncodeMle(bits, <<station>>))[1]
      Split(k, id) == EncodeCommon(bits)
                        \o EncodeItems(<<<<PerStaProfile, SubSeq(data, 1, k)>>, <<id, SubSeq(data, k + 1, Len(data))>>>>)
  IN \A k \in 1 .. Len(data) - 1, id \in FragmentIds :
       LET mle == ParseMultiLinkElement(Split(k, id))[1]
       IN ProfilesOf(mle) = ProfilesOf(whole) /\ mle.subelements[2].target = <<PerStaProfile>> /\ ~mle.truncated

(* Whatever of an element is lost at its end, the report shows no value    *)
(* that was not sent, and says that something is missing unless it was cut *)
(* between two subelements.                                                *)
MultiLinkCutShows(bits, stations) ==
  LET bytes == EncodeMle(bits, stations)
      whole == ShownMultiLink(ParseMultiLinkElement(bytes)[1])
      Cut(n) == ParseMultiLinkElement(SubSeq(bytes, 1, n))
  IN \A n \in 0 .. Len(bytes) - 1 :
       IF Cut(n) = <<>> THEN n < 2
       ELSE LET shown == ShownMultiLink(Cut(n)[1]) IN
            /\ shown.common \subseteq whole.common
            /\ \A c \in DOMAIN shown.capabilities : shown.capabilities[c] = whole.capabilities[c]
            /\ Len(shown.subelements) <= Len(whole.subelements)
            /\ n > 2 => shown.truncated \/ (shown.common = whole.common /\ IsPrefix(shown.subelements, whole.subelements))
            /\ \A i \in DOMAIN shown.subelements :
                 \/ shown.subelements[i] = whole.subelements[i]
                 \/ /\ i = Len(shown.subelements) /\ shown.subelements[i].truncated
                    /\ \A k \in DOMAIN shown.subelements[i].station :
                         /\ shown.subelements[i].station[k].link = whole.subelements[i].station[k].link
                         /\ IsPrefix(shown.subelements[i].station[k].elements, whole.subelements[i].station[k].elements)

(* A body of an element that lost its end warns or shows a part of what    *)
(* the whole shows.                                                        *)
BodyCutShows(body) ==
  LET Fits(short, whole) ==
        \/ short.warning
        \/ /\ DOMAIN short = DOMAIN whole
           /\ \A f \in DOMAIN short \ {"warning"} :
                short[f] = whole[f] \/ (f \in {"six", "width", "punctured"} /\ short[f] = <<>>)
      all == [he |-> HEOperation(body), sr |-> HESpatialReuse(body), six |-> HE6GHz(body),
              eht |-> EHTOperation(body), caps |-> EHTCapabilities(body)]
  IN \A n \in 1 .. Len(body) - 1 :
       LET b == SubSeq(body, 1, n) IN
       /\ Fits(HEOperation(b), all.he) /\ Fits(HESpatialReuse(b), all.sr) /\ Fits(HE6GHz(b), all.six)
       /\ Fits(EHTOperation(b), all.eht) /\ Fits(EHTCapabilities(b), all.caps)

(* A neighbor report: its neighbors are read back, and of a report that    *)
(* lost its end those before the first one marked truncated are the same.  *)
EncodeNeighbor(n) ==
  <<(n.count - 1) * 16, n.info, n.class, n.channel>> \o [k \in 1 .. n.count * n.info |-> (k * 7) % 256]
NeighborsReadBack(neighbors) ==
  LET bytes == FlattenSeq([i \in DOMAIN neighbors |-> EncodeNeighbor(neighbors[i])])
      whole == RnrNeighbors(<<[id |-> RnrId, ext |-> 0, body |-> bytes]>>)
  IN /\ [i \in DOMAIN whole |-> <<whole[i].count, whole[i].info, whole[i].class, whole[i].channel>>]
          = [i \in DOMAIN neighbors |->
               <<neighbors[i].count, neighbors[i].info, neighbors[i].class, neighbors[i].channel>>]
     /\ \A i \in DOMAIN whole : ~whole[i].truncated /\ Len(whole[i].tbtts) = whole[i].count
     /\ \A n \in 0 .. Len(bytes) - 1 :
          LET cut == ParseRnr(SubSeq(bytes, 1, n))
              sound == Min({i \in DOMAIN cut : cut[i].truncated} \cup {Len(cut) + 1})
          IN /\ \A i \in 1 .. sound - 1 : ShownNeighbor(cut[i]) = ShownNeighbor(whole[i])
             /\ sound <= Len(cut) => ShownNeighbor(cut[sound]).class = ShownNeighbor(whole[sound]).class
             /\ sound > Len(cut) => Len(FlattenSeq([i \in DOMAIN cut |-> EncodeNeighbor(neighbors[i])])) \in {n, n - 1, n - 2, n - 3}

(* A channel with a frequency lies in the band of its operating class.     *)
FrequencyInBand(class) ==
  \A channel \in 0 .. 255 :
    LET f == FrequencyMHz(class, channel) IN
    f > 0 => CASE OperatingClass(class).band = "2.4ghz" -> f \in 2412 .. 2484
               [] OperatingClass(class).band = "5ghz" -> f \in 5005 .. 6000
               [] OperatingClass(class).band = "6ghz" -> f \in 5935 .. 7115
               [] OTHER -> OperatingClass(class).band = "60ghz" /\ OperatingClass(class).width > 0

(* RSN bytes that lost their end show fewer suites and no protection that  *)
(* the whole does not have, and the lost suites are warned about.          *)
EncodeRsn(group, pairs, akms, flags) ==
  LET Suites(types) == FlattenSeq([i \in DOMAIN types |-> <<0, 15, 172, types[i]>>])
  IN <<1, 0>> \o Suites(<<group>>) \o <<Len(pairs), 0>> \o Suites(pairs) \o <<Len(akms), 0>> \o Suites(akms)
       \o <<flags, 0, 0, 0>> \o Suites(<<6>>)
RsnCutShows(group, pairs, akms, flags, extended) ==
  LET bytes == EncodeRsn(group, pairs, akms, flags)
      whole == SecurityDetails(<<bytes>>, <<>>, <<extended>>)
  IN /\ ~whole.rsn.warned /\ Len(whole.rsn.pairwise) = Len(pairs) /\ Len(whole.rsn.akm) = Len(akms)
     /\ whole.rsn.management = <<"6">>
     /\ \A n \in 0 .. Len(bytes) - 1 :
          LET cut == SecurityDetails(<<SubSeq(bytes, 1, n)>>, <<>>, <<extended>>) IN
          /\ IsPrefix(cut.rsn.pairwise, whole.rsn.pairwise) /\ IsPrefix(cut.rsn.akm, whole.rsn.akm)
          /\ cut.rsn.required => whole.rsn.required
          /\ cut.wifi7PersonalReady => whole.wifi7PersonalReady
          /\ cut.rsn.pairwise # whole.rsn.pairwise \/ cut.rsn.akm # whole.rsn.akm => cut.rsn.warned
          /\ ~cut.rsn.warned => n \in Len(bytes) - 8 .. Len(bytes) - 4

(* The profiles of a multiple-BSSID element are read back, and a cut one   *)
(* is marked.                                                              *)
ProfilesReadBack(profiles) ==
  LET bytes == <<3>> \o EncodeItems([i \in DOMAIN profiles |-> <<0, EncodeItems(profiles[i])>>])
      Shown(b) == LET m == MultipleBSSIDs(<<[id |-> MultipleBssidId, ext |-> 0, body |-> b]>>)
                  IN IF m = <<>> THEN <<>> ELSE [i \in DOMAIN m[1].profiles |-> ShownProfile(m[1].profiles[i])]
      whole == Shown(bytes)
      IdsOf(items) == [i \in DOMAIN items |-> items[i][1]]
  IN /\ [i \in DOMAIN whole |-> whole[i].elements] = [i \in DOMAIN profiles |-> IdsOf(profiles[i])]
     /\ \A i \in DOMAIN whole :
          /\ ~whole[i].truncated
          /\ (whole[i].security # <<>>) <=> (Range(IdsOf(profiles[i])) \cap {48, 127, 244} # {})
     /\ \A n \in 1 .. Len(bytes) - 1 :
          LET cut == Shown(SubSeq(bytes, 1, n)) IN
          \A i \in DOMAIN cut :
            cut[i] = whole[i] \/ (i = Len(cut) /\ cut[i].truncated /\ IsPrefix(cut[i].elements, whole[i].elements))
=============================================================================

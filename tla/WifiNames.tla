------------------------------- MODULE WifiNames -----------------------------
(***************************************************************************)
(* How the expectations read names that Android spells in several ways:    *)
(* Wi-Fi standards, bands, MAC addresses and the band and channel of a     *)
(* frequency (harness/wifi, harness/scan, harness/mlo and                  *)
(* harness/metrics.go each have their copy).                               *)
(*                                                                         *)
(* A standard is spelled as a sequence of pieces, for example              *)
(* <<"wifi_standard_", "11", "be">>.  A MAC address is spelled             *)
(* [mac, upper, padded]: which address it is, in which case, and whether   *)
(* with blanks around it; NoMac is the empty string.                       *)
(***************************************************************************)
EXTENDS Integers, Sequences, SequencesExt

TrimPrefix(pieces, p) == IF pieces # <<>> /\ Head(pieces) = p THEN Tail(pieces) ELSE pieces

StandardPrefixes ==
  <<"wifi_standard_", "standard_", "ieee80211", "ieee802.11", "802.11", "11", "wifi ", "wi-fi ">>

(* normalizeStandard: each prefix is tried once, in this order.            *)
NormalizeStandard(pieces) ==
  LET rest == FoldLeft(TrimPrefix, pieces, StandardPrefixes)
  IN IF rest \in {<<"6">>, <<"6e">>, <<"he">>} THEN <<"ax">>
     ELSE IF rest \in {<<"7">>, <<"eht">>} THEN <<"be">> ELSE rest

(* normalizeWifiScanStandard of metrics.go knows fewer spellings.          *)
NormalizeScanStandard(pieces) ==
  LET rest == FoldLeft(TrimPrefix, pieces, <<"wifi_standard_", "standard_", "ieee80211", ".">>)
  IN IF pieces \in {<<>>, <<"<unknown>">>, <<"-">>, <<"?">>} THEN <<>>
     ELSE IF pieces = <<"802.11", "be">> THEN <<"be">>
     ELSE IF rest \in {<<"be">>, <<"11", "be">>} THEN <<"be">> ELSE rest

(* normalizeBand and normalizeBandToken                                    *)
NormalizeBand(s) ==
  CASE s \in {"2.4", "24", "2.4g", "24g", "2.4ghz", "24ghz"} -> "2.4ghz"
    [] s \in {"5", "5g", "5ghz"} -> "5ghz"
    [] s \in {"6", "6g", "6ghz"} -> "6ghz"
    [] s \in {"60", "60g", "60ghz"} -> "60ghz"
    [] OTHER -> s

ChannelFromFrequency(f) ==
  CASE f = 2484 -> 14
    [] f \in 2412..2472 -> (f - 2407) \div 5
    [] f \in 5000..5895 -> (f - 5000) \div 5
    [] f \in 5955..7115 -> (f - 5950) \div 5
    [] OTHER -> 0

BandFromFrequency(f) ==
  CASE f \in 2400..2499 -> "2.4ghz"
    [] f \in 4900..5899 -> "5ghz"
    [] f \in 5925..7124 -> "6ghz"
    [] f \in 57000..70999 -> "60ghz"
    [] OTHER -> ""

NoMac == [mac |-> "", upper |-> FALSE, padded |-> FALSE]
TrimSpace(m) == [m EXCEPT !.padded = FALSE]
ToLower(m) == [m EXCEPT !.upper = FALSE]
EqualFold(a, b) == ToLower(a) = ToLower(b)

-----------------------------------------------------------------------------
(* A channel that an expectation can name belongs to one band: where a     *)
(* frequency has a channel it has a band, and two frequencies 5 MHz grid   *)
(* steps apart never share both, so band and channel select one AP radio.  *)
ChannelsDistinct(f, g) ==
  /\ ChannelFromFrequency(f) # 0 => BandFromFrequency(f) # ""
  /\ /\ ChannelFromFrequency(f) # 0
     /\ ChannelFromFrequency(f) = ChannelFromFrequency(g)
     /\ BandFromFrequency(f) = BandFromFrequency(g)
     => \/ f - g \in -4..4
        \/ 2484 \in {f, g}
=============================================================================

------------------------------ MODULE Commands -------------------------------
(***************************************************************************)
(* Operations and the deadline of each (controller/internal/command): the  *)
(* typed builders, the validation before dispatch and TimeoutFor, with the *)
(* time the agent may spend on the same command.                           *)
(*                                                                         *)
(* What the user left out is the empty set, what he gave a set of one      *)
(* element: a number (0 stands for text that is no positive number), a     *)
(* token [word, cased], a hardware address [addr, form].  A request is a   *)
(* record of all of them, Nothing with some fields set.  Times are         *)
(* milliseconds.                                                           *)
(***************************************************************************)
EXTENDS Integers, FiniteSets, Sequences

CONSTANTS IntMax,   \* the largest value of Java's Int, 2^31 - 1 in the code
          UintMax   \* the largest value of a uint32, 2 * IntMax + 1

Nothing ==
  [ssid |-> "", bssid |-> {}, netid |-> {}, target |-> "", psk |-> FALSE, host |-> "name",
   url |-> "https", fresh |-> FALSE, brief |-> FALSE, mlo |-> FALSE, forget |-> FALSE,
   ping |-> FALSE, http |-> "", timeout |-> {}, count |-> {}, pause |-> {}, size |-> {},
   hops |-> {}, minMtu |-> {}, maxMtu |-> {}, interval |-> {}, status |-> {}, band |-> {},
   security |-> {}, mac |-> {}, family |-> {}, qtype |-> {}]

Refused == [ok |-> FALSE]
NoSelector == [ssid |-> "", bssid |-> {}, netid |-> {}]

(* NewOperation: the command and the options the controller keeps.         *)
NewOperation(name, kind, o, fields) ==
  [ok |-> TRUE, name |-> name, kind |-> kind, o |-> o, f |-> fields, sel |-> NoSelector,
   freshScan |-> {}]

The(set) == CHOOSE x \in set : TRUE

(* parseUint32 with parseOptionalUint32                                    *)
UintOk(v) == v \subseteq 1..UintMax
Uint(v, fallback) == IF v = {} THEN fallback ELSE The(v)

(* parseSecurity, parseWifiBand, parseMacRandomization, parseQTypes and    *)
(* parseIPFamily fold the case; parseOptionalProbeFamily reads "auto" only *)
(* as it is written.                                                       *)
WifiBands == {"all", "2.4ghz", "5ghz", "6ghz", "60ghz"}
Securities == {"auto", "wpa2", "wpa3", "transition"}
MacModes == {"auto", "none", "persistent", "non-persistent"}
Families == {"all", "ipv4", "ipv6"}
WordOk(v, words) == \A t \in v : t.word \in words
ProbeFamilyOk(v) ==
  \A t \in v : t.word \in Families \/ t = [word |-> "auto", cased |-> FALSE]
Word(v, fallback) == IF v = {} THEN fallback ELSE The(v).word

(* A builder answers with its operation unless one of its inputs is bad.   *)
If(ok, op) == IF ok THEN op ELSE Refused

-----------------------------------------------------------------------------
(* The builders.                                                           *)

WifiStatusOperation == NewOperation("wifi.status", "wifi_status", Nothing, <<>>)
WifiDiagnosticsOperation == NewOperation("wifi.diagnostics", "wifi_diagnostics", Nothing, <<>>)
WifiCapabilitiesOperation == NewOperation("wifi.capabilities", "wifi_capabilities", Nothing, <<>>)
WifiDisconnectOperation == NewOperation("wifi.disconnect", "disconnect", Nothing, <<>>)
WifiForgetOperation(o) == NewOperation("wifi.forget", "forget", o, <<>>)
IPStatusOperation == NewOperation("ip.status", "ip_status", Nothing, <<>>)

WifiEHTOperation(o) ==
  If(/\ o.ssid = "" \/ o.bssid = {}
     /\ UintOk(o.timeout) /\ (o.fresh \/ o.timeout = {}),
     [NewOperation("wifi.eht", "wifi_diagnostics", o, <<>>)
        EXCEPT !.freshScan = IF o.fresh THEN {Uint(o.timeout, 10000)} ELSE {}])

WifiScanOperation(o) ==
  If((o.mlo => o.brief) /\ WordOk(o.band, WifiBands),
     NewOperation("wifi.scan", "wifi_scan", o, <<>>))

WifiFreshScanOperation(o) ==
  If((o.mlo => o.brief) /\ WordOk(o.band, WifiBands) /\ UintOk(o.timeout),
     NewOperation("wifi.scan.fresh", "fresh_scan", o, [timeout |-> Uint(o.timeout, 10000)]))

WifiScanDetailOperation(o) ==
  If(WordOk(o.band, WifiBands), NewOperation("wifi.scan.detail", "scan_detail", o, <<>>))

ConnectOk(o) ==
  WordOk(o.security, Securities) /\ WordOk(o.band, WifiBands) /\ WordOk(o.mac, MacModes)
    /\ UintOk(o.timeout)

WifiConnectOperation(o) ==
  If(ConnectOk(o),
     NewOperation("wifi.connect", "connect", o, [timeout |-> Uint(o.timeout, 45000)]))

WifiCycleOperation(o) ==
  If(ConnectOk(o) /\ UintOk(o.count) /\ UintOk(o.pause),
     NewOperation("wifi.cycle", "cycle", o,
                  [timeout |-> Uint(o.timeout, 45000), count |-> Uint(o.count, 3),
                   pause |-> Uint(o.pause, 1000)]))

WifiWaitConnectedOperation(o) ==
  If(WordOk(o.security, Securities) /\ WordOk(o.band, WifiBands) /\ UintOk(o.timeout),
     NewOperation("wifi.wait", "wait", o, [timeout |-> Uint(o.timeout, 30000)]))

WifiAssertOperation(o) ==
  If(WordOk(o.security, Securities) /\ WordOk(o.band, WifiBands) /\ UintOk(o.timeout),
     NewOperation("wifi.assert", "assert", o, [timeout |-> Uint(o.timeout, 0)]))

WifiMonitorOperation(o) ==
  If(UintOk(o.timeout) /\ UintOk(o.interval),
     NewOperation("wifi.monitor", "monitor", o,
                  [timeout |-> Uint(o.timeout, 10000), interval |-> Uint(o.interval, 1000)]))

WifiReconnectOperation(o) ==
  If(UintOk(o.timeout),
     NewOperation("wifi.reconnect", "reconnect", o, [timeout |-> Uint(o.timeout, 30000)]))

(* Fault: the derived timeout is computed in 32 bits without a check.      *)
PingUnchecked(o) ==
  LET count == Uint(o.count, 3)
  IN If(UintOk(o.count) /\ UintOk(o.size) /\ UintOk(o.timeout) /\ ProbeFamilyOk(o.family),
        NewOperation("ping", "ping", o,
          [count |-> count, size |-> Uint(o.size, 0),
           timeout |-> Uint(o.timeout, (count * 2000 + 3000) % (UintMax + 1))]))

(* PingOperation: without a timeout, one is derived from the count.        *)
PingOperation(o) ==
  LET count == Uint(o.count, 3)
  IN If(/\ UintOk(o.count) /\ UintOk(o.size) /\ UintOk(o.timeout) /\ ProbeFamilyOk(o.family)
        /\ o.timeout = {} => count <= (UintMax - 3000) \div 2000,
        NewOperation("ping", "ping", o,
          [count |-> count, size |-> Uint(o.size, 0),
           timeout |-> Uint(o.timeout, count * 2000 + 3000)]))

TracerouteOperation(o) ==
  If(UintOk(o.hops) /\ UintOk(o.size) /\ UintOk(o.timeout) /\ ProbeFamilyOk(o.family),
     NewOperation("traceroute", "traceroute", o,
       [hops |-> Uint(o.hops, 30), size |-> Uint(o.size, 0), timeout |-> Uint(o.timeout, 60000)]))

MtuOrdered(o) == o.minMtu # {} /\ o.maxMtu # {} => The(o.minMtu) <= The(o.maxMtu)

PathMTUOperation(o) ==
  If(/\ UintOk(o.minMtu) /\ UintOk(o.maxMtu) /\ MtuOrdered(o)
     /\ UintOk(o.timeout) /\ ProbeFamilyOk(o.family),
     NewOperation("path-mtu", "path_mtu", o,
       [min |-> Uint(o.minMtu, 0), max |-> Uint(o.maxMtu, 0), timeout |-> Uint(o.timeout, 30000)]))

GlobalIPOperation(o) ==
  If(WordOk(o.family, Families) /\ UintOk(o.timeout),
     NewOperation("global-ip", "global_ip", o, [timeout |-> Uint(o.timeout, 5000)]))

DownloadOperation(o) ==
  If(UintOk(o.timeout), NewOperation("download", "wget", o, [timeout |-> Uint(o.timeout, 60000)]))

DNSOperation(o) ==
  If(WordOk(o.qtype, {"all", "a", "aaaa"}) /\ UintOk(o.timeout),
     NewOperation("dns", "dns", o,
       [timeout |-> Uint(o.timeout, 5000),
        qtypes |-> IF Word(o.qtype, "all") = "all" THEN 2 ELSE 1]))

HTTPOperation(o) ==
  If(UintOk(o.status) /\ UintOk(o.timeout),
     NewOperation("http", "http", o,
       [status |-> Uint(o.status, 200), timeout |-> Uint(o.timeout, 5000)]))

-----------------------------------------------------------------------------
(* ValidateOperation.                                                      *)

Selecting == {"ip_status", "ping", "traceroute", "path_mtu", "global_ip", "dns", "http", "wget"}

(* address: six bytes, written with colons.                                *)
AddressOk(bssid) == \A m \in bssid : m.form = "colon"
SelectorOk(sel) == AddressOk(sel.bssid) /\ sel.netid \subseteq 1..IntMax
HostOk(host) == host \in {"name", "literal"}
EndpointOk(url) == url \in {"http", "https"}

ConnectValid(o) ==
  /\ o.ssid # "" \/ o.bssid # {}
  /\ AddressOk(o.bssid)
  /\ Word(o.security, "auto") # "auto" => o.psk

(* Whether a cycle makes an HTTP request on each connection.               *)
Fetches(op) == op.o.http # ""

(* The host of a cycle is the one it pings.                                *)
CycleValid(op) ==
  /\ op.f.count <= 100 /\ op.f.pause <= 60000
  /\ op.o.ping => HostOk(op.o.host)
  /\ Fetches(op) => EndpointOk(op.o.http)

(* validateMessage: every number of the command is an Int of the agent.    *)
NumbersOk(op) == \A key \in DOMAIN op.f : op.f[key] \in 0..IntMax

(* Fault: numbers up to the protocol's uint32 are let through.             *)
ValidateUnsigned(op) ==
  /\ op.ok
  /\ op.kind \in {"ping", "traceroute", "path_mtu", "dns"} => HostOk(op.o.host)

ValidateOperation(op) ==
  /\ op.ok
  /\ NumbersOk(op)
  /\ op.kind \in Selecting => SelectorOk(op.sel)
  /\ op.kind \in {"connect", "cycle"} => ConnectValid(op.o)
  /\ op.kind \in {"wait", "assert"} => AddressOk(op.o.bssid)
  /\ op.kind = "cycle" => CycleValid(op)
  /\ op.kind \in {"ping", "traceroute", "path_mtu", "dns"} => HostOk(op.o.host)
  /\ op.kind = "path_mtu" => op.f.min = 0 \/ op.f.max = 0 \/ op.f.min <= op.f.max
  /\ op.kind = "http" => EndpointOk(op.o.url) /\ op.f.status \in 100..599
  /\ op.kind = "wget" => EndpointOk(op.o.url)
  /\ op.kind = "scan_detail" => op.o.target # ""

-----------------------------------------------------------------------------
(* Deadlines.                                                              *)

Millis(op, fallback) == IF op.f.timeout = 0 THEN fallback ELSE op.f.timeout

(* The kinds whose deadline is the agent's timeout, or a fallback, and a   *)
(* margin; the other kinds have a rule of their own.                       *)
Fallback == [connect |-> 60000, fresh_scan |-> 20000, wait |-> 35000, assert |-> 10000,
             monitor |-> 10000, reconnect |-> 35000, ping |-> 20000, traceroute |-> 60000,
             path_mtu |-> 30000, wget |-> 60000, http |-> 10000]
Margin(kind) == IF kind \in {"ping", "path_mtu", "http"} THEN 3000 ELSE 5000
FamilyCount(op) == IF Word(op.o.family, "all") = "all" THEN 2 ELSE 1

(* Fault: the lookups of one DNS command share one timeout.                *)
TimeoutOneLookup(op) ==
  CASE op.kind \in {"dns", "global_ip"} -> Millis(op, 5000) + 3000
    [] op.kind \in DOMAIN Fallback -> Millis(op, Fallback[op.kind]) + Margin(op.kind)
    [] OTHER -> 30000

TimeoutFor(op) ==
  CASE op.kind \in DOMAIN Fallback -> Millis(op, Fallback[op.kind]) + Margin(op.kind)
    [] op.kind = "wifi_diagnostics" -> 30000
    [] op.kind \in {"wifi_scan", "wifi_capabilities"} -> 20000
    [] op.kind = "cycle" ->
         op.f.count * (Millis(op, 60000) + op.f.pause + 10000
                         + (IF op.o.ping THEN 9000 ELSE 0)
                         + (IF Fetches(op) THEN 10000 ELSE 0)) + 10000
    [] op.kind = "global_ip" -> FamilyCount(op) * Millis(op, 5000) + 3000
    [] op.kind = "dns" -> op.f.qtypes * Millis(op, 5000) + 3000
    [] OTHER -> 15000

(* What the agent's own limits allow a command to take: the sum of the     *)
(* bounded waits of its handler (CommandExecutor, NetworkCheckExecutor).   *)
(* A probe of a name looks up two addresses, waits for a source address    *)
(* and runs its process; an HTTP request connects and reads; a cycle that  *)
(* does not forget its network waits for the disconnect to settle.         *)
Least(a, b) == IF a < b THEN a ELSE b
AgentProbe(t, host) ==
  (IF host = "literal" THEN 0 ELSE 2 * Least(t, 2000)) + Least(t, 5000) + t
AgentCycle(op) ==
  op.f.count * (op.f.timeout + (IF op.o.forget THEN 0 ELSE 1500)
                  + (IF op.o.ping THEN AgentProbe(9000, op.o.host) ELSE 0)
                  + (IF Fetches(op) THEN 10000 ELSE 0))
    + (op.f.count - 1) * op.f.pause
AgentTime(op) ==
  CASE op.kind \in {"ping", "traceroute", "path_mtu"} -> AgentProbe(op.f.timeout, op.o.host)
    [] op.kind \in {"http", "wget"} -> 2 * op.f.timeout
    [] op.kind = "dns" -> op.f.qtypes * op.f.timeout
    [] op.kind = "cycle" -> AgentCycle(op)
    [] op.kind \in {"connect", "wait", "assert", "monitor", "reconnect", "fresh_scan",
                    "global_ip"} -> op.f.timeout
    [] OTHER -> 0

-----------------------------------------------------------------------------
(* Properties.                                                             *)

(* The commands whose waits beside the timeout of the process or of the    *)
(* first connection are longer than the margin: the read after a connect,  *)
(* the lookups and the source address before a probe, and many cycles with *)
(* a ping by name and little pause.                                        *)
MayOverrun(op) ==
  LET t == op.f.timeout
      named == op.o.host = "name" IN
  CASE op.kind = "http" -> t >= 3000
    [] op.kind = "wget" -> t >= 5000
    [] op.kind \in {"ping", "path_mtu"} -> t >= (IF named THEN 1000 ELSE 3000)
    [] op.kind = "traceroute" -> t >= (IF named THEN 1667 ELSE 5000)
    [] op.kind = "cycle" ->
         op.o.ping /\ named /\ ~op.o.forget /\ 500 * op.f.count >= 10000 + op.f.pause
    [] OTHER -> FALSE

(* The controller does not give up on a valid command before the agent's   *)
(* own limits have ended it, whatever was left out, and the commands of    *)
(* MayOverrun, no more and no fewer, are the exceptions.                   *)
WaitsOutlastAgent(op) ==
  ValidateOperation(op) => (AgentTime(op) < TimeoutFor(op) <=> ~MayOverrun(op))

(* The same without an exception: "The timeout is intentionally larger     *)
(* than the command's agent timeout when applicable, giving the Android    *)
(* side time to report a structured result before the controller cancels   *)
(* the command" (parser.go:165-167).                                       *)
DeadlineOutlastsAgent(op) == ValidateOperation(op) => AgentTime(op) < TimeoutFor(op)

(* No valid command holds a number that the agent would read as negative,  *)
(* and a ping's derived timeout leaves room for each of its packets.       *)
NumbersSurvive(op) ==
  ValidateOperation(op) =>
    /\ \A key \in DOMAIN op.f : op.f[key] <= IntMax
    /\ op.kind = "ping" /\ op.o.timeout = {} => op.f.timeout \div 2000 > op.f.count
=============================================================================

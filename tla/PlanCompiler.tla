---------------------------- MODULE PlanCompiler -----------------------------
(***************************************************************************)
(* From a plan to what the engine runs (harness): the check builders, the  *)
(* compilation that validates and binds every step, the cost estimate, and *)
(* the selection of a part of a compiled plan.                             *)
(*                                                                         *)
(* A plan is [networks, checks, interval]; a check [name, id, op, gateway, *)
(* policy, required, expects]; an agent [id, serial].  A compiled plan is  *)
(* [ok, agents, targets] and a target [id, net, connect, wait, checks,     *)
(* agents], where connect and wait are sequences of at most one step.      *)
(***************************************************************************)
EXTENDS Commands, SequencesExt, FiniteSetsExt

CONSTANT MaxRetained   \* maxRetainedAttempts, 200000 in the code

NoPolicy == [attempts |-> 0, repeat |-> 0, delay |-> 0, eventually |-> 0, stableFor |-> 0,
             interval |-> 0]

-----------------------------------------------------------------------------
(* The builders of checks.                                                 *)

Build(name, op) ==
  [name |-> name, id |-> <<>>, op |-> op, gateway |-> {}, policy |-> NoPolicy,
   required |-> FALSE, expects |-> {}]

IPStatus == Build("ip status", IPStatusOperation)
WiFiStatus == Build("wifi status", WifiStatusOperation)
WiFiEHT(o) == Build("wifi eht", WifiEHTOperation(o))
WiFiScan(o) == Build(IF o.fresh THEN "wifi scan fresh" ELSE "wifi scan",
                     IF o.fresh THEN WifiFreshScanOperation(o) ELSE WifiScanOperation(o))
WiFiScanDetail(o) == Build("wifi scan detail", WifiScanDetailOperation(o))
WiFiCapabilities == Build("wifi capabilities", WifiCapabilitiesOperation)
PingCheck(o) == Build("ping", PingOperation(o))
DNSCheck(o) == Build("dns", DNSOperation(o))
GlobalIPCheck(o) == Build("global ip", GlobalIPOperation(o))
PathMTUCheck(o) == Build("path mtu", PathMTUOperation(o))
TracerouteCheck(o) == Build("traceroute", TracerouteOperation(o))
HTTPCheck(o) == Build("http", HTTPOperation(o))
DownloadCheck(o) == Build("download", DownloadOperation(o))
GatewayPing(o) == [Build("gateway", Refused) EXCEPT !.gateway = {o}]

(* WithPolicy, and Repeat, Retry, StableFor, StableInterval of each check. *)
WithPolicy(check, policy, required) == [check EXCEPT !.policy = policy, !.required = required]
WithExpectations(check, expects) == [check EXCEPT !.expects = expects]

-----------------------------------------------------------------------------
(* Networks.                                                               *)

WiFi == [o |-> Nothing, ssid |-> "", bssid |-> {}, netid |-> {}, psk |-> "none", agent |-> "",
         rotation |-> "", connectTimeout |-> {}, waitTimeout |-> {}, waitConnected |-> TRUE,
         requireIP |-> TRUE, requireValidated |-> FALSE, disconnectAfter |-> TRUE,
         forgetAfter |-> FALSE, readOnly |-> FALSE, activeProbes |-> FALSE,
         connectPolicy |-> NoPolicy, waitPolicy |-> NoPolicy, checks |-> <<>>]
ObservedWiFi == [WiFi EXCEPT !.waitConnected = FALSE, !.requireIP = FALSE,
                             !.disconnectAfter = FALSE, !.readOnly = TRUE]
ActiveObservedWiFi == [ObservedWiFi EXCEPT !.activeProbes = TRUE]

Request(net, timeout) == [net.o EXCEPT !.ssid = net.ssid, !.bssid = net.bssid, !.timeout = timeout,
                                       !.psk = net.psk \in {"value", "env"}]
ConnectOperation(net) == WifiConnectOperation(Request(net, net.connectTimeout))
WaitOperation(net) == WifiWaitConnectedOperation(Request(net, net.waitTimeout))

(* What a network that is only observed must not ask for.                  *)
AsksNothing(net) ==
  net = [ObservedWiFi EXCEPT !.ssid = net.ssid, !.bssid = net.bssid, !.netid = net.netid,
           !.agent = net.agent, !.activeProbes = net.activeProbes, !.checks = net.checks]

(* The rotation mode and the cleanup it implies.                           *)
RotationOk(net) ==
  /\ net.rotation \in {"", "none", "per_target", "per_round"}
  /\ net.rotation \in {"per_target", "per_round"} =>
       Word(net.o.mac, "non-persistent") = "non-persistent"
Rotated(net) ==
  IF net.rotation \in {"", "none"} THEN [net EXCEPT !.rotation = "none"]
  ELSE [net EXCEPT !.o = [net.o EXCEPT !.mac = {[word |-> "non-persistent", cased |-> FALSE]}],
                   !.disconnectAfter = TRUE,
                   !.forgetAfter = net.forgetAfter \/ net.rotation = "per_target"]

NetworkOk(net) ==
  /\ net.ssid # ""
  /\ net.readOnly \/ net.netid = {}
  /\ net.readOnly => AsksNothing(net)
  /\ net.psk # "env_missing"
  /\ RotationOk(net)

-----------------------------------------------------------------------------
(* Steps.                                                                  *)

(* GatewayPingOptions.operationTimeout: the lookup and the ping after it.  *)
GatewayProbe(o) == PingOperation([o EXCEPT !.family = {}])
GatewayOk(o) ==
  GatewayProbe(o).ok
    /\ Word(o.family, "ipv4") \in {"ipv4", "4", "ipv6", "6", "auto", "any", "all"}
OperationTimeout(check) ==
  IF check.gateway # {} THEN TimeoutFor(IPStatusOperation) + TimeoutFor(GatewayProbe(The(check.gateway)))
  ELSE TimeoutFor(check.op)
         + (IF check.op.freshScan = {} THEN 0 ELSE The(check.op.freshScan) + 5000)

(* normalizePolicy                                                         *)
Samples(p) ==
  1 + (IF p.eventually + p.stableFor > 0
         THEN (p.eventually + p.stableFor) \div p.interval + 1 ELSE 0)
NormalizePolicy(p) ==
  [p EXCEPT !.attempts = IF p.attempts = 0 THEN 1 ELSE p.attempts,
            !.repeat = IF p.repeat = 0 THEN 1 ELSE p.repeat,
            !.interval = IF p.interval = 0 THEN 1000 ELSE p.interval]
PolicyOk(p) ==
  /\ \A key \in DOMAIN p : p[key] >= 0
  /\ LET n == NormalizePolicy(p) IN n.attempts * n.repeat * Samples(n) <= MaxRetained

StepOk(check) ==
  /\ check.name # ""
  /\ IF check.gateway = {} THEN ValidateOperation(check.op) ELSE GatewayOk(The(check.gateway))
  /\ FALSE \notin check.expects
  /\ PolicyOk(check.policy)
CompileStep(check, id) ==
  [check EXCEPT !.id = id, !.policy = NormalizePolicy(check.policy)]

(* stepInfo: how many commands one attempt of the step sends.              *)
Operations(s) == IF s.gateway # {} \/ s.op.freshScan # {} THEN 2 ELSE 1

(* activeObservationCommand                                                *)
Observations == {"wifi_status", "ip_status", "wifi_diagnostics", "wifi_scan", "wifi_capabilities",
                 "fresh_scan", "scan_detail"} \cup Selecting
ObservationOk(net, check) ==
  /\ net.readOnly => /\ check.gateway = {}
                     /\ net.activeProbes \/ check.op.kind \in {"wifi_status", "ip_status"}
  /\ net.activeProbes => check.gateway = {} /\ check.op.kind \in Observations

(* bindSelector                                                            *)
AddrOf(bssid) == {m.addr : m \in bssid}
Agree(a, b) == a = {} \/ b = {} \/ a = b
(* Fault: a selector the check already has is kept.                        *)
BoundKeepsOwn(sel, net) ==
  [ssid |-> IF sel.ssid # "" THEN sel.ssid ELSE net.ssid,
   bssid |-> IF sel.bssid # {} THEN sel.bssid ELSE net.bssid,
   netid |-> sel.netid]
Bound(sel, net) ==
  [ssid |-> IF net.ssid # "" THEN net.ssid ELSE sel.ssid,
   bssid |-> IF net.bssid # {} THEN net.bssid ELSE sel.bssid,
   netid |-> IF net.netid # {} THEN net.netid ELSE sel.netid]
BindOk(op, net) ==
  IF op.kind \notin Selecting THEN net.bssid = {} /\ net.netid = {}
  ELSE /\ op.sel.ssid \in {"", net.ssid}
       /\ Agree(AddrOf(op.sel.bssid), AddrOf(net.bssid))
       /\ Agree(op.sel.netid, net.netid)
       /\ SelectorOk(Bound(op.sel, net))
BindSelector(op, net) ==
  IF op.kind \in Selecting THEN [op EXCEPT !.sel = Bound(op.sel, net)] ELSE op

CheckOk(check, net) ==
  /\ StepOk(check)
  /\ ObservationOk(net, check)
  /\ check.gateway = {} => BindOk(check.op, net)
CompileCheck(check, net, id) ==
  LET s == CompileStep(check, IF check.id # <<>> THEN check.id ELSE id)
  IN IF s.gateway = {} THEN [s EXCEPT !.op = BindSelector(s.op, net)] ELSE s

-----------------------------------------------------------------------------
(* Agents.                                                                 *)

HasPrefix(s, p) == Len(p) <= Len(s) /\ SubSeq(s, 1, Len(p)) = p
Exact(selector, agents) == {i \in DOMAIN agents : agents[i].serial = selector}
Prefixed(selector, agents) ==
  {i \in DOMAIN agents : /\ agents[i].serial \notin {"", selector}
                         /\ HasPrefix(agents[i].serial, selector)}

(* Fault: a longer serial that starts the same makes an exact one unclear. *)
BindAgentsStrict(selector, agents) ==
  LET hits == Exact(selector, agents) \cup Prefixed(selector, agents)
  IN IF selector = "" THEN agents
     ELSE IF Cardinality(hits) = 1 THEN <<agents[The(hits)]>> ELSE <<>>

(* bindAgents; <<>> stands for its errors.                                 *)
BindAgents(selector, agents) ==
  LET exact == Exact(selector, agents)
      prefix == Prefixed(selector, agents)
  IN IF selector = "" THEN agents
     ELSE IF Cardinality(exact) = 1 THEN <<agents[The(exact)]>>
     ELSE IF exact = {} /\ Cardinality(prefix) = 1 THEN <<agents[The(prefix)]>> ELSE <<>>

(* ResolveAgentSnapshot, the resolver of the dashboard and of the plans.   *)
ResolveAgentSnapshot(selector, agents) ==
  LET exact == Exact(selector, agents)
      prefix == {i \in DOMAIN agents : agents[i].serial # "" /\ HasPrefix(agents[i].serial, selector)}
  IN IF selector = "" THEN <<>>
     ELSE IF exact # {}
            THEN IF Cardinality(exact) = 1 THEN <<agents[The(exact)]>> ELSE <<>>
     ELSE IF Cardinality(prefix) = 1 THEN <<agents[The(prefix)]>> ELSE <<>>

(* Server.ResolveAgent, the resolver of the shell: an agent is called by   *)
(* any of its names, the text as it is written or without case, blanks and *)
(* separators.  A name is a sequence of characters; SmallOf maps capitals. *)
SmallOf == ("A" :> "a") @@ ("B" :> "b")
NormalizeAgentSelector(name) ==
  LET kept == SelectSeq(name, LAMBDA c : c \notin {" ", "-", "_", "(", ")"})
  IN [i \in DOMAIN kept |-> IF kept[i] \in DOMAIN SmallOf THEN SmallOf[kept[i]] ELSE kept[i]]
AgentMatches(a, text) ==
  LET norm == NormalizeAgentSelector(text)
  IN \E name \in a.names : name = text \/ (norm # <<>> /\ NormalizeAgentSelector(name) = norm)
AgentPrefixMatches(a, text) ==
  LET norm == NormalizeAgentSelector(text)
  IN \E name \in a.names : \/ HasPrefix(name, text)
                          \/ /\ norm # <<>>
                             /\ HasPrefix(NormalizeAgentSelector(name), norm)
(* The text without blanks around it; {} stands for the errors.            *)
ResolveAgent(text, agents) ==
  LET exact == {a \in agents : AgentMatches(a, text)}
      prefix == {a \in agents : AgentPrefixMatches(a, text)}
  IN IF text = <<>> THEN {}
     ELSE IF exact # {} THEN (IF Cardinality(exact) = 1 THEN exact ELSE {})
     ELSE IF Cardinality(prefix) = 1 THEN prefix ELSE {}

-----------------------------------------------------------------------------
(* compilePlan                                                             *)

CheckId(plan, i, j) ==
  IF j <= Len(plan.checks) THEN <<"check", j>> ELSE <<"target", i, "check", j - Len(plan.checks)>>

ConnectStep(net) == WithPolicy(Build("connect", ConnectOperation(net)), net.connectPolicy, TRUE)
WaitStep(net) == WithPolicy(Build("wait_connected", WaitOperation(net)), net.waitPolicy, TRUE)

CompileTarget(plan, i, agents) ==
  LET net == Rotated(plan.networks[i])
      all == plan.checks \o net.checks
  IN [id |-> i, net |-> net,
      connect |-> IF net.readOnly THEN <<>> ELSE <<CompileStep(ConnectStep(net), <<"connect">>)>>,
      wait |-> IF net.waitConnected THEN <<CompileStep(WaitStep(net), <<"wait_connected">>)>> ELSE <<>>,
      checks |-> [j \in DOMAIN all |-> CompileCheck(all[j], net, CheckId(plan, i, j))],
      agents |-> BindAgents(net.agent, agents)]

TargetOk(plan, i, agents) ==
  LET net == Rotated(plan.networks[i])
      all == plan.checks \o net.checks
      ids == [j \in DOMAIN all |-> IF all[j].id # <<>> THEN all[j].id ELSE CheckId(plan, i, j)]
  IN /\ NetworkOk(plan.networks[i])
     /\ net.readOnly \/ StepOk(ConnectStep(net))
     /\ net.waitConnected => StepOk(WaitStep(net))
     /\ \A j \in DOMAIN all : CheckOk(all[j], net)
     /\ IsInjective(ids)
     /\ net.readOnly => all # <<>>
     /\ BindAgents(net.agent, agents) # <<>>

NoPlan == [ok |-> FALSE]
Compile(plan, agents) ==
  IF plan.interval >= 0 /\ plan.networks # <<>>
       /\ \A i \in DOMAIN plan.networks : TargetOk(plan, i, agents)
  THEN [ok |-> TRUE, agents |-> agents,
        targets |-> [i \in DOMAIN plan.networks |-> CompileTarget(plan, i, agents)]]
  ELSE NoPlan

-----------------------------------------------------------------------------
(* Cost                                                                    *)

Steps(t) == t.connect \o t.wait \o t.checks
AttemptsOf(s) == s.policy.attempts * s.policy.repeat * Samples(s.policy)
Banded(t) == Word(t.net.o.band, "all") # "all"
SumSteps(t, Of(_)) == FoldSeq(LAMBDA s, n : n + Of(s), 0, Steps(t))
Keys(p, Test(_)) ==
  UNION {{a.id : a \in ToSet(t.agents)} : t \in {u \in ToSet(p.targets) : Test(u)}}
RotationKeys(p) ==
  UNION {{<<a.id, t.net.ssid>> : a \in ToSet(t.agents)} :
           t \in {u \in ToSet(p.targets) : u.net.rotation = "per_round"}}
Count(b) == IF b THEN 1 ELSE 0
PerTargetRotation(t) == Count(t.net.rotation = "per_target")
CleanupOps(t) ==
  IF t.connect = <<>> THEN 0 ELSE Count(t.net.disconnectAfter) + Count(t.net.forgetAfter)
(* Fault: the retries of a step are counted once for all its agents.       *)
CostOneAgent(p) ==
  [attempts |-> FoldSeq(LAMBDA t, n : n + SumSteps(t, AttemptsOf), 0, p.targets),
   operations |-> FoldSeq(LAMBDA t, n : n + SumSteps(t, AttemptsOf), 0, p.targets)]

Cost(p) ==
  LET shared == Cardinality(Keys(p, Banded)) + 2 * Cardinality(RotationKeys(p))
      attempts(t) == Len(t.agents) * (SumSteps(t, AttemptsOf) + PerTargetRotation(t))
      operations(t) ==
        Len(t.agents) * (SumSteps(t, LAMBDA s : AttemptsOf(s) * Operations(s))
                           + PerTargetRotation(t) + CleanupOps(t))
  IN [attempts |-> shared + FoldSeq(LAMBDA t, n : n + attempts(t), 0, p.targets),
      operations |-> shared + FoldSeq(LAMBDA t, n : n + operations(t), 0, p.targets)]
CostOk(p, rounds) == Cost(p).attempts <= MaxRetained
                       /\ rounds <= MaxRetained \div (IF Cost(p).attempts = 0 THEN 1 ELSE Cost(p).attempts)

-----------------------------------------------------------------------------
(* Select                                                                  *)

(* Fault: the prerequisites of a selected check are left behind.           *)
SelectedOnly(t, ids) == [t EXCEPT !.checks = SelectSeq(t.checks, LAMBDA c : c.id \in ids)]

(* selectedChecks: the chosen ones, and the required ones before the last. *)
SelectedChecks(t, ids) ==
  LET last == Max({0} \cup {i \in DOMAIN t.checks : t.checks[i].id \in ids})
      keep == {i \in DOMAIN t.checks : t.checks[i].id \in ids \/ (i < last /\ t.checks[i].required)}
  IN [t EXCEPT !.checks = [k \in 1..Cardinality(keep) |->
                             t.checks[CHOOSE i \in keep : Cardinality({j \in keep : j <= i}) = k]]]

IdsOf(agents) == {a.id : a \in ToSet(agents)}
ChecksOf(p) == UNION {{c.id : c \in ToSet(t.checks)} : t \in ToSet(p.targets)}

Select(p, agentIds, targetIds, checkIds) ==
  LET chosen == SelectSeq(p.targets, LAMBDA t : t.id \in targetIds)
      narrow(t) ==
        LET u == [t EXCEPT !.agents = SelectSeq(t.agents, LAMBDA a : a.id \in agentIds)]
        IN IF checkIds = {} THEN u ELSE SelectedChecks(u, checkIds)
      targets == [i \in DOMAIN chosen |-> narrow(chosen[i])]
      ok == /\ agentIds # {} /\ targetIds # {}
            /\ agentIds \subseteq IdsOf(p.agents)
            /\ targetIds \subseteq {t.id : t \in ToSet(p.targets)}
            /\ checkIds \subseteq ChecksOf(p)
            /\ \A t \in ToSet(targets) : t.agents # <<>>
            /\ checkIds # {} => \E t \in ToSet(targets) : t.checks # <<>>
  IN IF ok THEN [ok |-> TRUE, agents |-> SelectSeq(p.agents, LAMBDA a : a.id \in agentIds),
                 targets |-> targets]
     ELSE NoPlan

(* selectScopes: a scope is [agent, target, check], the check <<>> for all *)
(* of the target; every pair of agent and target becomes a target.         *)
ScopeKnown(p, s) ==
  \E t \in ToSet(p.targets) :
    /\ t.id = s.target /\ s.agent \in IdsOf(t.agents)
    /\ s.check = <<>> \/ s.check \in {c.id : c \in ToSet(t.checks)}
SelectScopes(p, scopes) ==
  LET of(t, a) == {s \in scopes : s.agent = a.id /\ s.target = t.id}
      copy(t, a) ==
        LET ids == {s.check : s \in of(t, a)}
        IN [(IF <<>> \in ids THEN t ELSE SelectedChecks(t, ids)) EXCEPT !.agents = <<a>>]
      copies(t) == LET bound == SelectSeq(t.agents, LAMBDA a : of(t, a) # {})
                   IN [i \in DOMAIN bound |-> copy(t, bound[i])]
      targets == FoldSeq(LAMBDA t, acc : copies(t) \o acc, <<>>, p.targets)
  IN IF scopes # {} /\ \A s \in scopes : ScopeKnown(p, s)
     THEN [ok |-> TRUE, targets |-> targets,
           agents |-> SelectSeq(p.agents, LAMBDA a : \E s \in scopes : s.agent = a.id)]
     ELSE NoPlan

-----------------------------------------------------------------------------
(* Properties.                                                             *)

(* Whatever selector a check brought along, the compiled plan sends every  *)
(* network-bound command to its target and to nothing else, and an         *)
(* observed network gets no command that changes it.                       *)
BoundToTarget(p) ==
  p.ok => \A t \in ToSet(p.targets) : \A c \in ToSet(t.checks) : c.gateway = {} =>
    /\ c.op.kind \in Selecting =>
         /\ c.op.sel.ssid = t.net.ssid
         /\ t.net.bssid # {} => AddrOf(c.op.sel.bssid) = AddrOf(t.net.bssid)
         /\ t.net.netid # {} => c.op.sel.netid = t.net.netid
    /\ t.net.readOnly => c.op.kind \in Observations /\ t.connect = <<>>

(* The commands the engine can send in a round, agent by agent: what the   *)
(* preflight, the rotations, the steps and the cleanup of its targets add  *)
(* up to when nothing fails early.                                         *)
EngineCommands(p, a) ==
  LET mine == SelectSeq(p.targets, LAMBDA t : a \in ToSet(t.agents))
  IN Count(\E t \in ToSet(mine) : Banded(t))
       + 2 * Cardinality({t.net.ssid : t \in {u \in ToSet(mine) : u.net.rotation = "per_round"}})
       + FoldSeq(LAMBDA t, n : n + PerTargetRotation(t) + CleanupOps(t)
                                 + SumSteps(t, LAMBDA s : AttemptsOf(s) * Operations(s)), 0, mine)

(* The cost shown before the start is enough for every agent's round, the  *)
(* rounds it admits keep to the retained attempts, and the time a step may *)
(* take covers each of the commands it sends.                              *)
CostCovers(p) ==
  p.ok =>
    /\ FoldSeq(LAMBDA a, n : n + EngineCommands(p, a), 0, p.agents) <= Cost(p).operations
    /\ \A rounds \in {1, 7, 100} : CostOk(p, rounds) => rounds * Cost(p).attempts <= MaxRetained
    /\ \A t \in ToSet(p.targets) : \A c \in ToSet(t.checks) :
         Operations(c) = 2 => OperationTimeout(c) >= 5000 + (IF c.gateway = {} THEN TimeoutFor(c.op) ELSE 0)

(* A selection runs every chosen check after the required checks before it *)
(* in the plan, in the plan's order, and asks nothing of an agent that was *)
(* not bound to the target.                                                *)
SelectionSound(p, q, checkIds) ==
  p.ok /\ q.ok =>
    \A t \in ToSet(q.targets) : \E full \in ToSet(p.targets) :
      /\ t.id = full.id
      /\ ToSet(t.agents) \subseteq ToSet(full.agents)
      /\ \A i, j \in DOMAIN full.checks :
           i <= j /\ full.checks[j].id \in checkIds /\ (i = j \/ full.checks[i].required) =>
             full.checks[i] \in ToSet(t.checks)
      /\ \A k, l \in DOMAIN t.checks : k < l =>
           \E i, j \in DOMAIN full.checks :
             i < j /\ full.checks[i] = t.checks[k] /\ full.checks[j] = t.checks[l]

(* The two resolvers of a device name give the same device or none.        *)
ResolversAgree(selector, agents) ==
  selector # "" => BindAgents(selector, agents) = ResolveAgentSnapshot(selector, agents)

(* A name of an agent never means another one, whoever's names start with  *)
(* it, and who is meant does not change when other agents leave.           *)
NamesTheirAgent(text, agents) ==
  /\ \A a \in agents : text \in a.names => ResolveAgent(text, agents) \subseteq {a}
  /\ \A staying \in SUBSET agents :
       ResolveAgent(text, agents) # {} /\ ResolveAgent(text, agents) \subseteq staying =>
         ResolveAgent(text, staying) = ResolveAgent(text, agents)
=============================================================================

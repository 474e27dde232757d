----------------------------- MODULE ProbeEvidence ---------------------------
(***************************************************************************)
(* The typed expectations about probes (harness/ping, trace, pmtu,         *)
(* globalip and dns) and the acquisition of one operation, which may have  *)
(* two parts (harness/operation.go).                                       *)
(*                                                                         *)
(* An optional field of a message is a set of at most one element: Get     *)
(* reads it as the generated getters do, with zero for an absent one.      *)
(***************************************************************************)
EXTENDS Matchers, FiniteSets

Get(opt, zero) == IF opt = {} THEN zero ELSE CHOOSE v \in opt : TRUE

(* Transmitted, Received, LossPercent and the latencies of ping.           *)
PingMetric(p, name) ==
  IF name \in {"elapsed_ms", "exit_code"} THEN Gate(p.payload, p[name])
  ELSE Gate(p.payload /\ p[name] # {}, Get(p[name], 0))

(* TraceObservations: the hops count only with the target's arrival known  *)
(* and no error of observation.                                            *)
TraceObservations(t) ==
  [observed |-> t.payload /\ t.reached # {} /\ t.observationError = "",
   count |-> Len(t.hops), addresses |-> UNION {t.hops[i] : i \in DOMAIN t.hops}]

TraceMetric(t, name) ==
  CASE name = "reached" -> Gate(t.payload /\ t.reached # {}, Get(t.reached, FALSE))
    [] name = "hop_count" -> Gate(TraceObservations(t).observed, TraceObservations(t).count)
    [] OTHER -> Gate(t.payload, t[name])

OutputContains(t, value) == Judge(t.payload, value \in t.output)

(* Discovered, PathMTU, ProbeCount and Elapsed of pmtu.                    *)
PmtuMetric(p, name) ==
  Gate(p.payload, IF name = "probe_count" THEN Len(p.probes) ELSE p[name])

GlobalIpMetric(g, name) ==
  Gate(g.payload, IF name = "address_count" THEN Len(g.addresses) ELSE g[name])

DnsMetric(d, name) ==
  Gate(d.payload, IF name = "answer_count" THEN Len(d.answers) ELSE d[name])

(* The custom assertions of each package, on its view of the result.       *)
PingAssert(r, err) == EvaluateAssert(HasView(r, {"ping"}), err)
TraceAssert(r, err) == EvaluateAssert(HasView(r, {"traceroute"}), err)
PmtuAssert(r, err) == EvaluateAssert(HasView(r, {"path_mtu"}), err)
GlobalIpAssert(r, err) == EvaluateAssert(HasView(r, {"global_ip"}), err)
DnsAssert(r, err) == EvaluateAssert(HasView(r, {"resolve_dns"}), err)

-----------------------------------------------------------------------------
(* ExecuteOperation.  A part's answer is [error, nil, status, payload,     *)
(* scan]: an error of the call, no result, the agent's status, whether the *)
(* payload is of the kind asked for, and the scan it carries ("none",      *)
(* "fresh", "cached").                                                     *)

NoPart == [error |-> FALSE, nil |-> TRUE, status |-> "", payload |-> FALSE, scan |-> "none"]

(* The scan a refused refresh carries is marked as a cached one.           *)
ScanSource(fresh) ==
  IF fresh.scan = "none" THEN "none" ELSE IF fresh.status = "ok" THEN "fresh" ELSE "cached"

(* The diagnosis is not asked for after a canceled or scan-less refresh.   *)
StopsAfterFresh(fresh) ==
  fresh.error \/ fresh.nil \/ fresh.status = "canceled" \/ fresh.scan = "none"

(* Fault: a refused refresh is merged like one that succeeded.             *)
FreshFindingNone(fresh) == <<>>

FreshFinding(fresh) ==
  IF fresh.nil \/ fresh.scan = "none" THEN <<"missing">>
  ELSE IF fresh.status # "ok" THEN <<"fail">> ELSE <<>>

(* The status of the merged result: a refused refresh spoils a good one.   *)
MergedStatus(fresh, main) ==
  IF FreshFinding(fresh) # <<>> /\ main.status = "ok" THEN fresh.status ELSE main.status

(* The required hops of a traceroute, one finding for each.                *)
ViaFindings(required, t) ==
  [i \in DOMAIN required |->
     Judge(TraceObservations(t).observed,
           \E k \in DOMAIN t.hops : required[i] \in t.hops[k])]

PayloadFinding(main) ==
  IF ~main.nil /\ main.status = "ok" /\ ~main.payload THEN <<"missing">> ELSE <<>>

(* What a check gets: the answer, with its findings and number of parts.   *)
ExecuteOperation(wantFresh, fresh, main, required, trace) ==
  LET parts == IF wantFresh THEN 2 ELSE 1
      With(answer, findings, n) ==
        [error |-> answer.error, nil |-> answer.nil, status |-> answer.status, payload |-> answer.payload,
         scan |-> answer.scan, findings |-> findings, parts |-> n] IN
  IF wantFresh /\ StopsAfterFresh(fresh)
  THEN With([fresh EXCEPT !.error = fresh.error \/ fresh.nil, !.payload = FALSE,
                          !.scan = ScanSource(fresh)], <<>>, 1)
  ELSE IF main.error THEN With(main, <<>>, parts)
  ELSE With([main EXCEPT
               !.status = IF wantFresh /\ ~main.nil THEN MergedStatus(fresh, main) ELSE @,
               !.scan = IF wantFresh /\ ~main.nil /\ main.payload THEN ScanSource(fresh) ELSE @],
            PayloadFinding(main)
              \o (IF wantFresh THEN FreshFinding(fresh) ELSE <<>>)
              \o ViaFindings(required, trace),
            parts)

(* evaluateAttempt without an operator's interruption: the worst of the    *)
(* status, the payload and the findings of operation and expectations.     *)
EvaluateAttempt(r, expected) ==
  LET all == r.findings \o expected IN
  IF r.error THEN "fail"
  ELSE IF r.nil THEN "missing"
  ELSE IF r.status = "canceled" THEN "canceled"
  ELSE IF ~r.payload THEN IF r.status = "ok" THEN "missing" ELSE "fail"
  ELSE IF r.status # "ok" \/ \E i \in DOMAIN all : all[i] = "fail" THEN "fail"
  ELSE IF \E i \in DOMAIN all : all[i] = "missing" THEN "missing" ELSE "pass"

-----------------------------------------------------------------------------
(* A check that asked for a fresh scan passes only on one: whatever the    *)
(* refresh and the diagnosis answer, a pass carries the scan the refresh   *)
(* obtained, and every required hop was observed.                          *)
FreshIsFresh(wantFresh, fresh, main, required, trace) ==
  LET r == ExecuteOperation(wantFresh, fresh, main, required, trace) IN
  EvaluateAttempt(r, <<>>) = "pass" =>
    /\ ~main.error /\ main.status = "ok" /\ main.payload
    /\ wantFresh => fresh.status = "ok" /\ r.parts = 2 /\ r.scan = "fresh"
    /\ Len(required) > 0 => trace.reached # {} /\ trace.observationError = ""
=============================================================================

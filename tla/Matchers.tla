------------------------------- MODULE Matchers ------------------------------
(***************************************************************************)
(* How an expectation judges one observation: the metrics and findings of  *)
(* harness/matcher.go, harness/finding.go and harness/availability.go.  A  *)
(* finding is reduced to its verdict, an observation to whether there is   *)
(* one and its value.                                                      *)
(***************************************************************************)
EXTENDS Integers, Sequences

Observed(v) == [ok |-> TRUE, value |-> v]
Unobserved  == [ok |-> FALSE, value |-> 0]
Gate(known, v) == IF known THEN Observed(v) ELSE Unobserved

(* The collector's word on a group of fields; no word means unknown.       *)
Availability(fields, group) == group \in DOMAIN fields /\ fields[group] = "available"

(* The comparison of one chained constraint [op, value].                   *)
Holds(c, got) ==
  CASE c.op = "==" -> got = c.value
    [] c.op = "!=" -> got # c.value
    [] c.op = ">"  -> got > c.value
    [] c.op = ">=" -> got >= c.value
    [] c.op = "<"  -> got < c.value
    [] c.op = "<=" -> got <= c.value

Judge(ok, holds) == IF ~ok THEN "missing" ELSE IF holds THEN "pass" ELSE "fail"

(* OrderedMetric.Evaluate: one finding for each constraint.                *)
Evaluate(constraints, obs) ==
  [i \in DOMAIN constraints |-> Judge(obs.ok, obs.ok /\ Holds(constraints[i], obs.value))]

(* OrderedMetric.Between                                                   *)
Between(low, high) == <<[op |-> ">=", value |-> low], [op |-> "<=", value |-> high]>>
BetweenValid(low, high) == low <= high

(* BoolMetric.Evaluate: one finding for each expected value.               *)
EvaluateBool(expected, obs) ==
  [i \in DOMAIN expected |-> Judge(obs.ok, obs.value = expected[i])]

(* A custom assertion: its function is called on an observed payload only. *)
EvaluateAssert(ok, err) == Judge(ok, err = "none")

(* The typed view of a result [nil, kind]: there is a result, and its      *)
(* payload is of one of the kinds the package reads.                       *)
HasView(r, kinds) == ~r.nil /\ r.kind \in kinds

(* Between is one constraint in two findings: both pass exactly on a value *)
(* in the range, never on an unobserved one, and an invalid range passes   *)
(* nothing; of two contradictory Boolean expectations at most one passes.  *)
BetweenSound(low, high, obs) ==
  LET both == Evaluate(Between(low, high), obs) IN
  /\ (\A i \in DOMAIN both : both[i] = "pass") <=> obs.ok /\ obs.value \in low .. high
  /\ ~BetweenValid(low, high) => \E i \in DOMAIN both : both[i] # "pass"
  /\ LET bools == EvaluateBool(<<TRUE, FALSE>>, Gate(obs.ok, obs.value > low))
     IN bools[1] # bools[2] \/ bools = <<"missing", "missing">>
=============================================================================

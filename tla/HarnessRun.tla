----------------------------- MODULE HarnessRun ------------------------------
(***************************************************************************)
(* One run of the harness (harness/execute.go) with its operator controls  *)
(* (harness/controls.go): rounds separated by a barrier, one goroutine per *)
(* agent that works through its agenda, operator requests to pause,        *)
(* resume, skip and cancel a scope at any moment, cancellation from        *)
(* outside, sinks that fail, bounded retention when the run loops, and the *)
(* final verdict.                                                          *)
(*                                                                         *)
(* A check's policy is Attempts attempts of one repeat; repeats, polling   *)
(* and stability windows are the subject of module CheckPolicy.  Time is   *)
(* abstract: a policy timeout may strike whenever a check is under way.    *)
(* Sending an event is part of the step that sends it, and any delivery    *)
(* may fail.                                                               *)
(***************************************************************************)
EXTENDS Integers, Sequences, FiniteSets

CONSTANTS
  Agents,       (* the agents of the plan                                  *)
  Agenda,       (* Agenda[a]: what a does in every round (HarnessPlan)     *)
  Attempts,     (* policy.Attempts of every check                          *)
  Rounds,       (* opts.Rounds, or the bound on the rounds of a loop       *)
  Loop,         (* opts.Loop                                               *)
  Requests,     (* the operator requests considered: [action, scope]       *)
  MaxRequests,  (* bound on the number of requests made                    *)
  Deliveries,   (* {FALSE}, or BOOLEAN where a delivery may fail           *)
  Bands,        (* the bands a device may lack                             *)
  Raw           (* what an operation may come to in a live context         *)

ASSUME HarnessAssumption ==
  /\ Attempts \in Nat \ {0} /\ Rounds \in Nat \ {0} /\ MaxRequests \in Nat
  /\ Loop \in BOOLEAN /\ Deliveries \subseteq BOOLEAN /\ FALSE \in Deliveries
  /\ Raw \subseteq {"pass", "fail", "missing", "canceled", "error"}

VARIABLES
  eng,          (* where Execute stands                                    *)
  round,        (* the current round                                       *)
  runCause,     (* the cause that ended the run's context, or "none"       *)
  paused, skipped, canceled,   (* Controls: the scopes requested           *)
  asked,        (* number of requests made                                 *)
  problems,     (* report.Problems                                         *)
  evicted,      (* report.EvictedProblems > 0                              *)
  outcome,      (* report.Outcome                                          *)
  state,        (* report.State                                            *)
  work,         (* per agent: its place in the round                       *)
  check,        (* per agent: the check it is in                           *)
  steps,        (* per agent: report.Steps of the round, by agenda place   *)
  agentOutcome, (* per agent: AgentProgress.Outcome                        *)
  dispatched    (* per agent: the agenda places whose operation was begun  *)
                (* in this round (history)                                 *)

run   == <<eng, round, evicted, state>>
ctl   == <<paused, skipped, canceled, asked>>
vars  == <<run, runCause, ctl, problems, outcome, work, check, steps,
           agentOutcome, dispatched>>

-----------------------------------------------------------------------------
(* Outcomes                                                                *)

Outcomes == {"pass", "skip", "canceled", "missing", "fail"}

Rank(o) == CASE o = "pass" -> 0 [] o = "skip" -> 1 [] o = "canceled" -> 2
             [] o = "missing" -> 3 [] o = "fail" -> 4

CombineOutcome(a, b) == IF Rank(b) > Rank(a) THEN b ELSE a

(* What the cause of a finished context makes of a step.                   *)
ContextOutcome(cause) ==
  CASE cause = "skip" -> "skip"
    [] cause \in {"cancel", "external"} -> "canceled"
    [] OTHER -> "fail"

-----------------------------------------------------------------------------
(* The place of an agent                                                   *)

Here(a)  == Agenda[a][work[a].pos]
Done(a)  == work[a].pos > Len(Agenda[a])
Kind(a, kinds) == eng = "round" /\ ~Done(a) /\ Here(a).kind \in kinds

Checked   == {"preflight", "rotateBefore", "rotate", "connect", "wait", "check", "rotateAfter"}
Selective == {"connect", "wait", "check"}
Inside    == Selective \cup {"rotate", "cleanup"}
Cleanups  == {"disconnect", "forget"}

(* How compile.go identifies and HarnessPlan lays out what an agent does:  *)
(* identities are not empty, a target has one block, which begins with its *)
(* "target" item and ends with its "cleanup" item, and no other item but a *)
(* rotation around the round or the capability check is in its name.       *)
ASSUME AgendaAssumption ==
  /\ "" \notin Agents
  /\ \A a \in Agents :
       /\ Len(Agenda[a]) \in Nat /\ DOMAIN Agenda[a] = 1 .. Len(Agenda[a])
       /\ \A i \in DOMAIN Agenda[a] :
            LET it == Agenda[a][i]
                last == Agenda[a][i - 1]
            IN /\ it.kind \in Checked \cup {"target", "cleanup"}
               /\ it.after \in Seq(Cleanups)
               /\ it.kind \in Inside \cup {"target"} => it.target # ""
               /\ it.kind \in Selective => it.id # ""
               /\ it.kind \in Inside =>
                    /\ i > 1 /\ last.kind \in (Inside \ {"cleanup"}) \cup {"target"}
                    /\ last.target = it.target /\ last.ssid = it.ssid
                    /\ last.rotation = it.rotation
               /\ it.kind \in (Inside \ {"cleanup"}) \cup {"target"} =>
                    i < Len(Agenda[a]) /\ Agenda[a][i + 1].kind \in Inside
               /\ it.kind = "target" =>
                    /\ ~it.required
                    /\ \A j \in 1 .. i - 1 :
                         Agenda[a][j].target = it.target =>
                           Agenda[a][j].kind \in {"preflight", "rotateBefore"}

(* Fault: the agent a scope names is not compared.                         *)
CoversAnyAgent(s, a, i) ==
  CASE s.kind = "run"    -> TRUE
    [] s.kind = "agent"  -> TRUE
    [] s.kind = "target" -> s.target = i.target
    [] s.kind = "check"  -> s.target = i.target /\ s.check = i.id

(* Scope.contains, for the scope of the check that item i of agent a is.   *)
Covers(s, a, i) ==
  CASE s.kind = "run"    -> TRUE
    [] s.kind = "agent"  -> s.agent = a
    [] s.kind = "target" -> s.agent = a /\ s.target = i.target
    [] s.kind = "check"  -> s.agent = a /\ s.target = i.target /\ s.check = i.id

(* Controls.bind: the scopes a request may name.                           *)
RunScope    == [kind |-> "run", agent |-> "", target |-> "", check |-> ""]
AgentScopes == {[kind |-> "agent", agent |-> a, target |-> "", check |-> ""] : a \in Agents}
TargetScopes ==
  UNION {{[kind |-> "target", agent |-> a, target |-> Agenda[a][i].target, check |-> ""] :
            i \in {j \in DOMAIN Agenda[a] : Agenda[a][j].kind = "target"}} : a \in Agents}
CheckScopes ==
  UNION {{[kind |-> "check", agent |-> a, target |-> Agenda[a][i].target,
           check |-> Agenda[a][i].id] :
            i \in {j \in DOMAIN Agenda[a] : Agenda[a][j].kind \in Selective}} : a \in Agents}
ValidScopes == {RunScope} \cup AgentScopes \cup TargetScopes \cup CheckScopes

NoCheck == [phase |-> "none", number |-> 0, own |-> "none", late |-> FALSE,
            last |-> "missing", err |-> FALSE]

AtStart == [pos |-> 1, gate |-> "open", attempted |-> FALSE, cleaned |-> <<>>,
            rotated |-> {}, unsupported |-> {}]

(* context.Cause of the step's context: its own, or the run's.             *)
Cause(a) == IF check[a].own # "none" THEN check[a].own ELSE runCause

(* The policy's context is over: by a cause, or by its timeout.            *)
Over(a) == check[a].late \/ Cause(a) # "none"

InCheck(a, phases) == eng = "round" /\ check[a].phase \in phases

Init ==
  /\ eng = "new" /\ round = 0 /\ runCause = "none"
  /\ paused = {} /\ skipped = {} /\ canceled = {} /\ asked = 0
  /\ problems = {} /\ evicted = FALSE
  /\ outcome = "pass" /\ state = "running"
  /\ work  = [a \in Agents |-> AtStart]
  /\ check = [a \in Agents |-> NoCheck]
  /\ steps = [a \in Agents |-> <<>>]
  /\ agentOutcome = [a \in Agents |-> "pass"]
  /\ dispatched   = [a \in Agents |-> {}]

Problem(kind, r) == [kind |-> kind, round |-> r]

(* What a step leaves in the report: outcome o, the problems ps, and its   *)
(* event of round r, whose delivery may fail.  A failed delivery is a      *)
(* problem and stops the run.                                              *)
Publish(o, ps, r) == \E failed \in Deliveries :
  LET all == ps \cup (IF failed THEN {Problem("delivery", r)} ELSE {}) IN
  /\ problems' = problems \cup all
  /\ outcome'  = IF all # {} THEN "fail" ELSE CombineOutcome(outcome, o)
  /\ runCause' = IF failed /\ runCause = "none" THEN "delivery" ELSE runCause

Quiet == UNCHANGED <<problems, outcome, runCause>>

-----------------------------------------------------------------------------
(* Execute: rounds and barrier                                             *)

Bound == eng \notin {"new", "finished"}

(* bind, then the WatchStarted event.                                      *)
Start ==
  /\ eng = "new" /\ eng' = "interval"
  /\ Publish("pass", {}, 0)
  /\ UNCHANGED <<round, evicted, state, ctl, work, check, steps, agentOutcome, dispatched>>

(* nextRound: skips last for a round.                                      *)
NextRound(r) == skipped' = IF r > 1 THEN {} ELSE skipped

(* Fault: a round too many is kept.                                        *)
OldKeepsThree(r) == {p \in problems : Loop /\ r > 2 /\ p.round # 0 /\ p.round < r - 2}

(* evictBefore(r - 1), which a loop does from its third round on.          *)
Old(r) == {p \in problems : Loop /\ r > 2 /\ p.round # 0 /\ p.round < r - 1}

StartRound ==
  /\ eng = "interval" /\ runCause = "none" /\ round < Rounds
  /\ LET r == round + 1 IN
     /\ round' = r
     /\ NextRound(r)
     /\ evicted' = (evicted \/ Old(r) # {})
     /\ \E failed \in Deliveries :
          /\ problems' = (problems \ Old(r))
                         \cup (IF failed THEN {Problem("delivery", r)} ELSE {})
          /\ outcome'  = IF failed THEN "fail" ELSE outcome
          /\ runCause' = IF failed THEN "delivery" ELSE runCause
  /\ eng' = "round"
  /\ work' = [a \in Agents |-> AtStart]
  /\ steps' = [a \in Agents |-> <<>>]
  /\ agentOutcome' = [a \in Agents |-> "pass"]
  /\ dispatched' = [a \in Agents |-> {}]
  /\ UNCHANGED <<state, paused, canceled, asked, check>>

(* workers.Wait, the RoundFinished event, then the interval or the end.    *)
Barrier ==
  /\ eng = "round" /\ \A a \in Agents : Done(a)
  /\ Publish("pass", {}, round)
  /\ eng' = IF runCause' # "none" \/ (~Loop /\ round = Rounds) THEN "ending" ELSE "interval"
  /\ UNCHANGED <<round, evicted, state, ctl, work, check, steps, agentOutcome, dispatched>>

(* The run's context ended before a round or in the interval.              *)
LeaveLoop ==
  /\ eng = "interval" /\ runCause # "none"
  /\ eng' = "ending"
  /\ Quiet
  /\ UNCHANGED <<round, evicted, state, ctl, work, check, steps, agentOutcome, dispatched>>
-----------------------------------------------------------------------------
(* Execute: the verdict                                                    *)

(* Problems fail the run, whatever its steps say.                          *)
Verdict(s, o) ==
  /\ state'   = IF problems # {} THEN "failed" ELSE s
  /\ outcome' = IF problems # {} THEN "fail" ELSE o

(* Fault: a stopped run is reported as canceled whatever it found.         *)
EndVerdictReset ==
  IF runCause # "none" THEN Verdict("stopped", "canceled") ELSE Verdict("completed", outcome)

EndVerdict ==
  IF runCause # "none" THEN Verdict("stopped", CombineOutcome(outcome, "canceled"))
                       ELSE Verdict("completed", outcome)

EndRun ==
  /\ eng = "ending" /\ eng' = "notify"
  /\ EndVerdict
  /\ UNCHANGED <<round, evicted, runCause, ctl, problems, work, check, steps,
                 agentOutcome, dispatched>>

(* The RunEnding event.                                                    *)
NotifyEnding ==
  /\ eng = "notify" /\ eng' = "closing"
  /\ Publish("pass", {}, 0)
  /\ UNCHANGED <<round, evicted, state, ctl, work, check, steps, agentOutcome, dispatched>>

(* Close of the sinks that have one; until they are dropped from the list, *)
(* an event still goes to the closed sinks.                                *)
CloseSinks ==
  /\ eng = "closing" /\ eng' = "closed"
  /\ \E failed \in Deliveries :
       IF failed THEN /\ problems' = problems \cup {Problem("delivery", 0)}
                      /\ outcome' = "fail"
                 ELSE UNCHANGED <<problems, outcome>>
  /\ UNCHANGED <<round, evicted, state, runCause, ctl, work, check, steps,
                 agentOutcome, dispatched>>

DropSinks ==
  /\ eng = "closed" /\ eng' = "dropped"
  /\ Verdict(state, outcome)
  /\ UNCHANGED <<round, evicted, runCause, ctl, problems, work, check, steps,
                 agentOutcome, dispatched>>

(* The RunFinished event, to the sinks that are left.                      *)
NotifyFinished ==
  /\ eng = "dropped" /\ eng' = "returning"
  /\ Publish("pass", {}, 0)
  /\ UNCHANGED <<round, evicted, state, ctl, work, check, steps, agentOutcome, dispatched>>

(* The report is taken and Controls.finish unbinds the controls.           *)
Return ==
  /\ eng = "returning" /\ eng' = "finished"
  /\ Verdict(state, outcome)
  /\ UNCHANGED <<round, evicted, runCause, ctl, problems, work, check, steps,
                 agentOutcome, dispatched>>

-----------------------------------------------------------------------------
(* runAgentRound and runTarget: from item to item                          *)

(* Fault: the agent's outcome is that of its last step.                    *)
ProgressLast(a, o) == agentOutcome' = [agentOutcome EXCEPT ![a] = o]

(* progress and record: an agent's outcome is its worst of the round.      *)
Progress(a, o) == agentOutcome' = [agentOutcome EXCEPT ![a] = CombineOutcome(@, o)]

(* Agent a is done with its item, with outcome o ("none" if nothing was    *)
(* recorded); more is what else changes in its place.                      *)
Move(a, o, more) ==
  /\ work'  = [work EXCEPT ![a] = [more EXCEPT !.pos = work[a].pos + 1]]
  /\ steps' = [steps EXCEPT ![a] = Append(@, o)]

(* A target whose band the device lacks, or whose SSID was not rotated, is *)
(* skipped as a whole.                                                     *)
SkippedTarget(a) ==
  \/ Here(a).band \in work[a].unsupported
  \/ Here(a).rotation = "per_round" /\ Here(a).ssid \notin work[a].rotated

EnterTarget(a) ==
  /\ Kind(a, {"target"})
  /\ IF SkippedTarget(a)
     THEN Quiet /\ Move(a, "none", [work[a] EXCEPT !.gate = "skip"])
     ELSE Publish("pass", {}, round) /\ Move(a, "none", [work[a] EXCEPT !.gate = "open"])
  /\ UNCHANGED <<run, ctl, check, agentOutcome, dispatched>>

(* skippedStep: a step of a skipped target, or a check after a             *)
(* prerequisite that did not pass.                                         *)
SkippedStep(a) ==
  /\ Kind(a, Selective) /\ check[a].phase = "none"
  /\ \/ work[a].gate = "skip"
     \/ work[a].gate = "prereq" /\ Here(a).kind = "check"
  /\ Publish("skip", {}, round)
  /\ Progress(a, "skip")
  /\ Move(a, "prereq", work[a])
  /\ UNCHANGED <<run, ctl, check, dispatched>>

(* Passed over without a record: wait after a failed connect, a rotation   *)
(* of a skipped target.                                                    *)
PassOver(a) ==
  /\ \/ Kind(a, {"wait"}) /\ work[a].gate = "prereq"
     \/ Kind(a, {"rotate"}) /\ work[a].gate = "skip"
  /\ check[a].phase = "none"
  /\ Quiet
  /\ Move(a, "none", work[a])
  /\ UNCHANGED <<run, ctl, check, agentOutcome, dispatched>>

(* Fault: a failed required check leaves the rest of the target ready.     *)
AfterCheckLenient(a, o) ==
  LET w == work[a] IN
  CASE Here(a).kind = "preflight" /\ o = "pass" ->
         {[w EXCEPT !.unsupported = b] : b \in SUBSET Bands}
    [] Here(a).kind = "rotateBefore" /\ o = "pass" ->
         {[w EXCEPT !.rotated = @ \cup {Here(a).ssid}]}
    [] Here(a).kind = "rotate" /\ o # "pass" -> {[w EXCEPT !.gate = "skip"]}
    [] Here(a).kind \in {"connect", "wait"} /\ o # "pass" -> {[w EXCEPT !.gate = "prereq"]}
    [] OTHER -> {w}

(* Fault: every rotation counts as done.                                   *)
AfterCheckRotated(a, o) ==
  LET w == work[a] IN
  CASE Here(a).kind = "rotateBefore" -> {[w EXCEPT !.rotated = @ \cup {Here(a).ssid}]}
    [] Here(a).kind \in {"connect", "wait"} /\ o # "pass" -> {[w EXCEPT !.gate = "prereq"]}
    [] OTHER -> {w}

(* What the report of a check means for the rest of the round.             *)
AfterCheck(a, o) ==
  LET w == work[a]
      Shut(g) == IF o = "pass" THEN {w} ELSE {[w EXCEPT !.gate = g]}
  IN CASE Here(a).kind = "preflight" /\ o = "pass" ->
            {[w EXCEPT !.unsupported = b] : b \in SUBSET Bands}
       [] Here(a).kind = "rotateBefore" /\ o = "pass" ->
            {[w EXCEPT !.rotated = @ \cup {Here(a).ssid}]}
       [] Here(a).kind = "rotate" -> Shut("skip")
       [] Here(a).kind \in {"connect", "wait"} -> Shut("prereq")
       [] Here(a).kind = "check" /\ (Here(a).required \/ o \in {"canceled", "skip"}) ->
            Shut("prereq")
       [] OTHER -> {w}

-----------------------------------------------------------------------------
(* cleanup                                                                 *)

(* Cleanup is owed once a connect has begun, in a context of its own that  *)
(* no cancellation reaches.                                                *)
CleanupContext(a) == work[a].attempted

CleanupLeft(a) ==
  IF CleanupContext(a) THEN Len(Here(a).after) - Len(work[a].cleaned) ELSE 0

CleanupOp(a) ==
  /\ Kind(a, {"cleanup"}) /\ CleanupLeft(a) > 0
  /\ \E raw \in Raw : LET o == IF raw = "error" THEN "fail" ELSE raw IN
       /\ work' = [work EXCEPT ![a].cleaned =
                     Append(@, [op |-> Here(a).after[Len(@) + 1], outcome |-> o])]
       /\ IF o = "pass" THEN UNCHANGED <<problems, outcome>>
          ELSE problems' = problems \cup {Problem("cleanup", round)} /\ outcome' = "fail"
  /\ UNCHANGED <<run, runCause, ctl, check, steps, agentOutcome, dispatched>>

Worst(S) == CHOOSE o \in S : \A p \in S : Rank(p) <= Rank(o)

CleanupOutcome(a) ==
  Worst({"pass"} \cup {work[a].cleaned[i].outcome : i \in DOMAIN work[a].cleaned})

(* The end of runTarget, with the events of the cleanup and TargetFinished.*)
LeaveTarget(a) ==
  /\ Kind(a, {"cleanup"}) /\ CleanupLeft(a) = 0
  /\ Publish("pass", {}, round)
  /\ LET o == CleanupOutcome(a) IN
     /\ Progress(a, o)
     /\ Move(a, o, [work[a] EXCEPT !.gate = "open", !.attempted = FALSE, !.cleaned = <<>>])
  /\ UNCHANGED <<run, ctl, check, dispatched>>
-----------------------------------------------------------------------------
(* checkAttempted                                                          *)

Reached(a, phases) == InCheck(a, phases) /\ ~Done(a)

Step(a, c) == check' = [check EXCEPT ![a] = c]

(* Fault: a new context only hears of requests made while it is active.    *)
OwnCauseFresh(a) == "none"

(* Controls.context: requests made before the check began still hold.      *)
OwnCause(a) ==
  LET Asked(S) == \E s \in S : Covers(s, a, Here(a))
  IN CASE runCause # "none" \/ ~Asked(canceled \cup skipped) -> "none"
       [] runCause = "none" /\ Asked(canceled) -> "cancel"
       [] runCause = "none" /\ ~Asked(canceled) /\ Asked(skipped) -> "skip"

StartCheck(a) ==
  /\ Kind(a, Checked) /\ check[a].phase = "none"
  /\ Here(a).kind \in Selective \cup {"rotate"} => work[a].gate = "open"
  /\ Step(a, [NoCheck EXCEPT !.phase = "wait", !.number = 1, !.own = OwnCause(a)])
  /\ Publish("pass", {}, round)
  /\ UNCHANGED <<run, ctl, work, steps, agentOutcome, dispatched>>

(* policy.Timeout, at any moment of the check, paused or not.              *)
PolicyTimeout(a) ==
  /\ eng = "round" /\ check[a].phase # "none" /\ ~Over(a)
  /\ Step(a, [check[a] EXCEPT !.late = TRUE])
  /\ Quiet
  /\ UNCHANGED <<run, ctl, work, steps, agentOutcome, dispatched>>

Paused(a) == \E s \in paused : Covers(s, a, Here(a))

(* The attempt ends with outcome o before its operation has begun.         *)
Stopped(a, o) == [check[a] EXCEPT !.phase = "end", !.last = o]

(* Fault: a paused check waits for the next request only.                  *)
RefuseAwake(a) ==
  /\ Reached(a, {"wait", "woken"}) /\ Over(a)
  /\ Step(a, Stopped(a, IF check[a].late THEN "fail" ELSE ContextOutcome(Cause(a))))
  /\ Quiet
  /\ UNCHANGED <<run, ctl, work, steps, agentOutcome, dispatched>>

(* Controls.wait returns the cause of a context that is over, from its     *)
(* loop or from the select in which a paused check waits.                  *)
Refuse(a) ==
  /\ Reached(a, {"wait", "woken", "paused"}) /\ Over(a)
  /\ Step(a, Stopped(a, IF check[a].late THEN "fail" ELSE ContextOutcome(Cause(a))))
  /\ Quiet
  /\ UNCHANGED <<run, ctl, work, steps, agentOutcome, dispatched>>

(* Controls.wait finds the scope paused, says so once, and waits for the   *)
(* wake channel it read together with the paused scopes.                   *)
Block(a) ==
  /\ Reached(a, {"wait", "woken"}) /\ ~Over(a) /\ Paused(a)
  /\ IF check[a].phase = "wait" THEN Publish("pass", {}, 0) ELSE Quiet
  /\ Step(a, IF runCause' # "none" THEN Stopped(a, "fail")
             ELSE [check[a] EXCEPT !.phase = "paused"])
  /\ UNCHANGED <<run, ctl, work, steps, agentOutcome, dispatched>>

(* Fault: a target counts as attempted when the operation has succeeded.   *)
AttemptedLate(a) == work

(* A connect marks its target as attempted before it begins.               *)
Attempted(a) == [work EXCEPT ![a].attempted = @ \/ Here(a).kind = "connect"]

(* Controls.wait lets the attempt pass.  A check that was paused first     *)
(* reports that it resumed.                                                *)
Admit(a) ==
  /\ Reached(a, {"wait", "woken"}) /\ ~Over(a) /\ ~Paused(a)
  /\ IF check[a].phase = "woken" THEN Publish("pass", {}, 0) ELSE Quiet
  /\ Step(a, IF runCause' # "none" THEN Stopped(a, "fail")
             ELSE [check[a] EXCEPT !.phase = "ready"])
  /\ UNCHANGED <<run, ctl, work, steps, agentOutcome, dispatched>>

(* The operation begins, without another look at the requests: one that    *)
(* came since the wait has ended its context.                              *)
Dispatch(a) ==
  /\ Reached(a, {"ready"})
  /\ Step(a, [check[a] EXCEPT !.phase = "op"])
  /\ work' = Attempted(a)
  /\ dispatched' = [dispatched EXCEPT ![a] = @ \cup {work[a].pos}]
  /\ Quiet
  /\ UNCHANGED <<run, ctl, steps, agentOutcome>>

(* evaluateAttempt: the outcomes of an attempt, and whether it leaves an   *)
(* error other than the cancellation itself.                               *)
EvaluateAttempt(a) ==
  CASE ~Over(a)       -> {IF o = "error" THEN <<"fail", TRUE>> ELSE <<o, FALSE>> : o \in Raw}
    [] check[a].late  -> {<<"fail", TRUE>>}
    [] OTHER          -> {<<ContextOutcome(Cause(a)), FALSE>>, <<"fail", TRUE>>}

(* Fault: one attempt too many.                                            *)
LastTryLate(a) == check[a].number > Attempts

LastTry(a) == check[a].number = Attempts

(* The operation returns and the attempt is reported.                      *)
Returns(a) ==
  /\ Reached(a, {"op"})
  /\ \E r \in EvaluateAttempt(a) :
       Step(a, [check[a] EXCEPT
         !.last = r[1], !.err = r[2],
         !.phase = IF r[1] \in {"pass", "canceled", "skip"} \/ LastTry(a)
                   THEN "end" ELSE "delay"])
  /\ Publish("pass", {}, round)
  /\ UNCHANGED <<run, ctl, work, steps, agentOutcome, dispatched>>

(* policy.Delay before the next attempt.                                   *)
Delay(a) ==
  /\ Reached(a, {"delay"})
  /\ Step(a, IF Over(a) THEN Stopped(a, ContextOutcome(Cause(a)))
             ELSE [check[a] EXCEPT !.phase = "wait", !.number = @ + 1])
  /\ Quiet
  /\ UNCHANGED <<run, ctl, work, steps, agentOutcome, dispatched>>

(* A pass does not count once the context is over.                         *)
FinalOutcome(a) == IF check[a].last = "pass" /\ Over(a) THEN "fail" ELSE check[a].last

(* The report of the check is recorded and the agent moves on.             *)
EndCheck(a) ==
  /\ Reached(a, {"end"})
  /\ LET o == FinalOutcome(a) IN
     /\ Publish(o, IF o # "pass" /\ check[a].err THEN {Problem("primary", round)} ELSE {}, round)
     /\ Progress(a, o)
     /\ \E w \in AfterCheck(a, o) : Move(a, o, w)
  /\ Step(a, NoCheck)
  /\ UNCHANGED <<run, ctl, dispatched>>

-----------------------------------------------------------------------------
(* The operator and the caller                                             *)

(* Fault: the wake channel is replaced without being closed.               *)
WakeNone(r) == FALSE

(* Every request closes the wake channel.                                  *)
Wake(r) == TRUE

(* An active check that a skip or cancel reaches; the first cause stays.   *)
Interrupted(a, r) ==
  /\ r.action \in {"skip", "cancel"}
  /\ check[a].phase # "none" /\ Cause(a) = "none" /\ Covers(r.scope, a, Here(a))

(* Controls.request.  The event is sent after the request was applied; on  *)
(* closed sinks its delivery fails for sure.                               *)
Request(r) ==
  /\ Bound /\ asked < MaxRequests /\ r.scope \in ValidScopes
  /\ asked' = asked + 1
  /\ paused' = CASE r.action = "pause"  -> paused \cup {r.scope}
                  [] r.action = "resume" -> paused \ {r.scope}
                  [] OTHER -> paused
  /\ skipped'  = IF r.action = "skip" THEN skipped \cup {r.scope} ELSE skipped
  /\ canceled' = IF r.action = "cancel" THEN canceled \cup {r.scope} ELSE canceled
  /\ check' = [a \in Agents |->
       [check[a] EXCEPT
          !.own   = IF Interrupted(a, r) THEN r.action ELSE @,
          !.phase = IF @ = "paused" /\ Wake(r) THEN "woken" ELSE @]]
  /\ \E failed \in Deliveries :
       LET stop == r.action = "cancel" /\ r.scope.kind = "run" IN
       /\ eng = "closed" /\ TRUE \in Deliveries => failed
       /\ problems' = IF failed THEN problems \cup {Problem("delivery", 0)} ELSE problems
       /\ outcome'  = IF failed THEN "fail" ELSE outcome
       /\ runCause' = CASE runCause # "none" -> runCause
                         [] runCause = "none" /\ stop -> "cancel"
                         [] runCause = "none" /\ failed /\ ~stop -> "delivery"
                         [] OTHER -> "none"
  /\ UNCHANGED <<run, work, steps, agentOutcome, dispatched>>

(* The caller cancels the context it gave to Execute.                      *)
ExternalCancel ==
  /\ eng # "finished" /\ runCause = "none"
  /\ runCause' = "external"
  /\ UNCHANGED <<run, ctl, problems, outcome, work, check, steps, agentOutcome, dispatched>>

-----------------------------------------------------------------------------
(* The specification                                                       *)

Engine == Start \/ StartRound \/ Barrier \/ LeaveLoop \/ EndRun \/ NotifyEnding
          \/ CloseSinks \/ DropSinks \/ NotifyFinished \/ Return

Worker(a) == EnterTarget(a) \/ SkippedStep(a) \/ PassOver(a) \/ StartCheck(a)
             \/ Refuse(a) \/ Block(a) \/ Admit(a) \/ Dispatch(a) \/ Returns(a) \/ Delay(a)
             \/ EndCheck(a) \/ CleanupOp(a) \/ LeaveTarget(a)

Next ==
  \/ Engine
  \/ \E a \in Agents : Worker(a) \/ PolicyTimeout(a)
  \/ \E r \in Requests : Request(r)
  \/ ExternalCancel

Spec == Init /\ [][Next]_vars

(* Goroutines run, an operation returns within its timeout, and a policy   *)
(* timeout strikes; nothing obliges the operator or the caller to act.     *)
Fairness ==
  /\ WF_vars(Engine)
  /\ \A a \in Agents : WF_vars(Worker(a)) /\ WF_vars(PolicyTimeout(a))

FairSpec == Spec /\ Fairness
-----------------------------------------------------------------------------
(* Safety                                                                  *)

ItemOutcomes == Outcomes \cup {"none", "prereq"}
RunCauses    == {"none", "cancel", "external", "delivery"}
AllProblems  == [kind : {"primary", "cleanup", "delivery"}, round : 0 .. Rounds]
Ssids        == UNION {{Agenda[a][i].ssid : i \in DOMAIN Agenda[a]} : a \in Agents}

Works == [pos : Nat \ {0}, gate : {"open", "prereq", "skip"}, attempted : BOOLEAN,
          cleaned : Seq([op : Cleanups, outcome : Outcomes]),
          rotated : SUBSET Ssids, unsupported : SUBSET Bands]

Phases == {"none", "wait", "woken", "paused", "ready", "op", "delay", "end"}
Checks == [phase : Phases, number : 0 .. Attempts, own : {"none", "skip", "cancel"},
           late : BOOLEAN, last : Outcomes, err : BOOLEAN]

RunTypeOK ==
  /\ eng \in {"new", "interval", "round", "ending", "notify", "closing", "closed",
              "dropped", "returning", "finished"}
  /\ round \in 0 .. Rounds /\ evicted \in BOOLEAN /\ runCause \in RunCauses
  /\ paused \subseteq ValidScopes /\ skipped \subseteq ValidScopes
  /\ canceled \subseteq ValidScopes /\ asked \in 0 .. MaxRequests
  /\ problems \subseteq AllProblems
  /\ outcome \in Outcomes /\ state \in {"running", "completed", "stopped", "failed"}

AgentsTypeOK ==
  /\ work \in [Agents -> Works] /\ check \in [Agents -> Checks]
  /\ steps \in [Agents -> Seq(ItemOutcomes)] /\ agentOutcome \in [Agents -> Outcomes]
  /\ DOMAIN dispatched = Agents
  /\ \A a \in Agents :
       /\ work[a].pos <= Len(Agenda[a]) + 1 /\ Len(steps[a]) = work[a].pos - 1
       /\ dispatched[a] \subseteq DOMAIN Agenda[a]

TypeOK == RunTypeOK /\ AgentsTypeOK

(* A scope names an item when every field it sets agrees with the item.    *)
Names(s, a, i) ==
  /\ s.agent \in {"", a} /\ s.target \in {"", i.target} /\ s.check \in {"", i.id}

Stops(a, i) == {s \in canceled \cup skipped : Names(s, a, i)}

(* Only the selected scope is interrupted: a check whose context ended     *)
(* with a skip or a cancel of its own is named by such a request           *)
(* (Controls.request, Controls.context).                                   *)
InterruptsSelected == \A a \in Agents :
  check[a].own # "none" =>
    \E s \in IF check[a].own = "skip" THEN skipped ELSE canceled : Names(s, a, Here(a))

(* No lost wake-up: a check waits in Controls.wait only while some paused  *)
(* scope covers it, however pause and resume requests interleave with its  *)
(* way into the wait.                                                      *)
BlockedOnlyWhilePaused == \A a \in Agents :
  check[a].phase = "paused" => \E s \in paused : Names(s, a, Here(a))

(* The items of agent a that belong to the target of place i, before i.    *)
Before(a, i) == {j \in 1 .. i - 1 : /\ Agenda[a][j].target = Agenda[a][i].target
                                    /\ Agenda[a][j].kind \notin {"preflight", "rotateBefore"}}

(* runTarget: an operation begins in a live context, in which the runner   *)
(* sends it, only while no request for its scope stands, whether the       *)
(* request came before the check, or during it, or after the wait let it   *)
(* pass, in this round or, for a cancel, in an earlier one.                *)
SendsUnstopped == \A a \in Agents :
  dispatched'[a] \ dispatched[a] # {} /\ ~Over(a) => Stops(a, Here(a)) = {}

(* README: a failed connection or required check skips the remaining       *)
(* checks of its target.  An operation of a target begins only after       *)
(* every required step before it passed, rotation included, and none was   *)
(* skipped or canceled by the operator.                                    *)
SendsAfterPrerequisites == \A a \in Agents : \A i \in dispatched'[a] \ dispatched[a] :
  Agenda[a][i].kind \in Selective =>
    /\ \A j \in Before(a, i) :
         /\ Agenda[a][j].required => steps[a][j] = "pass"
         /\ steps[a][j] \notin {"skip", "canceled"}
    /\ Agenda[a][i].rotation = "per_round" =>
         \E j \in 1 .. i - 1 : /\ Agenda[a][j].kind = "rotateBefore"
                               /\ Agenda[a][j].ssid = Agenda[a][i].ssid
                               /\ steps[a][j] = "pass"

(* An operation is sent only where nothing before it forbids it: no failed *)
(* prerequisite and no request of the operator.                            *)
DispatchGated == [][SendsUnstopped /\ SendsAfterPrerequisites]_vars

(* README: "Owned target cleanup is bounded disconnect-then-forget, each   *)
(* at most once, including cancellation."  When an agent leaves a target,  *)
(* exactly the operations the target asks for were tried, in their order,  *)
(* if its connect was ever begun, and none if it was not.                  *)
CleansExactly == \A a \in Agents :
  (work'[a].pos # work[a].pos /\ Kind(a, {"cleanup"})) =>
    LET begun == \E j \in dispatched[a] \cap Before(a, work[a].pos) :
                    Agenda[a][j].kind = "connect"
        ops   == [i \in DOMAIN work[a].cleaned |-> work[a].cleaned[i].op]
    IN ops = IF begun THEN Here(a).after ELSE <<>>
CleanupExact == [][CleansExactly]_vars

(* The verdicts nest: what any step or cleanup of a round came to is no    *)
(* better than the agent's outcome says, and the run's outcome is no       *)
(* better than any agent's.                                                *)
OutcomesCover == \A a \in Agents :
  /\ \A i \in DOMAIN steps[a] :
       steps[a][i] \in Outcomes => Rank(steps[a][i]) <= Rank(agentOutcome[a])
  /\ Rank(agentOutcome[a]) <= Rank(outcome)

(* The report a caller gets: failed exactly if it lists a problem, never   *)
(* better than fail once any problem occurred, listed or evicted, and      *)
(* never a plain pass for a run that was stopped.                          *)
FinalVerdict == eng = "finished" =>
  /\ (state = "failed") <=> (problems # {})
  /\ problems # {} \/ evicted => outcome = "fail"
  /\ state = "stopped" => runCause # "none" /\ outcome # "pass"

(* A loop of any length retains the problems of two rounds and those of    *)
(* the run as a whole.                                                     *)
RetainsTwoRounds == Loop /\ eng = "round" =>
  \A p \in problems : p.round = 0 \/ p.round >= round - 1

(* What was evicted is not forgotten: a loop drops the problems of old     *)
(* rounds and only those, and its verdict still counts them.               *)
VerdictRemembers == RetainsTwoRounds /\ FinalVerdict

-----------------------------------------------------------------------------
(* Liveness                                                                *)

(* A run with a given number of rounds ends, whatever is paused and        *)
(* whatever fails: a paused check is ended by its policy timeout.          *)
FiniteRunEnds == ~Loop => <>(eng = "finished")

(* A run that is canceled, by the operator, the caller or a failed         *)
(* delivery, ends, a loop too, and even if everything is paused.           *)
StopsWhenAsked == (runCause # "none") ~> (eng = "finished")
=============================================================================

--------------------------- MODULE HarnessRunProofs --------------------------
(***************************************************************************)
(* What holds of every run of the harness: for any plan laid out as        *)
(* AgendaAssumption says, any number of agents, attempts, rounds and       *)
(* requests, and in every interleaving of agents, operator and caller.     *)
(*                                                                         *)
(* The proofs come in layers, each an inductive invariant that rests on    *)
(* the ones before it: types (TInv), where each agent stands in its check  *)
(* and what it knows of the operator's requests (ControlInv), what its     *)
(* earlier items came to (PrerequisiteInv), what it owes a target          *)
(* (CleanupInv), how its outcomes count (CoverInv), and the verdict        *)
(* (VerdictInv).  The properties of HarnessRun follow from them.  The last *)
(* section is about how one attempt is judged.                             *)
(***************************************************************************)
EXTENDS HarnessRun, WellFoundedInduction, TLAPS

LEMMA AgendaFacts ==
  \A a \in Agents : Len(Agenda[a]) \in Nat /\ DOMAIN Agenda[a] = 1 .. Len(Agenda[a])
  BY AgendaAssumption

LEMMA RankOrder ==
  /\ \A o \in Outcomes : Rank(o) \in 0 .. 4
  /\ \A o, p \in Outcomes : CombineOutcome(o, p) \in Outcomes
       /\ Rank(o) <= Rank(CombineOutcome(o, p)) /\ Rank(p) <= Rank(CombineOutcome(o, p))
  /\ \A o \in Outcomes : Rank("pass") <= Rank(o) /\ Rank(o) <= Rank("fail")
  BY DEF Rank, Outcomes, CombineOutcome

LEMMA PublishFacts ==
  ASSUME TypeOK, NEW o \in Outcomes, NEW r \in 0 .. Rounds, NEW ps \in SUBSET AllProblems,
         Publish(o, ps, r)
  PROVE  /\ problems' \subseteq AllProblems /\ outcome' \in Outcomes /\ runCause' \in RunCauses
         /\ runCause # "none" => runCause' = runCause
         /\ problems \subseteq problems'
         /\ problems' \subseteq problems \cup ps \cup {Problem("delivery", r)}
         /\ problems' # problems => outcome' = "fail"
         /\ ps # {} => outcome' = "fail"
         /\ Rank(outcome) <= Rank(outcome') /\ Rank(o) <= Rank(outcome')
<1>1. PICK failed \in Deliveries :
        LET all == ps \cup (IF failed THEN {Problem("delivery", r)} ELSE {}) IN
        /\ problems' = problems \cup all
        /\ outcome'  = IF all # {} THEN "fail" ELSE CombineOutcome(outcome, o)
        /\ runCause' = IF failed /\ runCause = "none" THEN "delivery" ELSE runCause
  BY DEF Publish
<1>2. Problem("delivery", r) \in AllProblems
  BY DEF Problem, AllProblems
<1>3. /\ problems \subseteq AllProblems /\ outcome \in Outcomes /\ runCause \in RunCauses
      /\ "fail" \in Outcomes /\ "delivery" \in RunCauses
  BY DEF TypeOK, RunTypeOK, Outcomes, RunCauses
<1>4. outcome' \in Outcomes /\ Rank(outcome) <= Rank(outcome') /\ Rank(o) <= Rank(outcome')
  BY <1>1, <1>3, RankOrder
<1>5. problems' \subseteq AllProblems /\ runCause' \in RunCauses
  BY <1>1, <1>2, <1>3
<1>. QED BY <1>1, <1>4, <1>5

LEMMA WorksExcept ==
  ASSUME NEW w \in Works, NEW n \in Nat \ {0}
  PROVE  /\ [w EXCEPT !.pos = n] \in Works /\ [w EXCEPT !.pos = n].pos = n
         /\ [w EXCEPT !.pos = n].gate = w.gate
         /\ [w EXCEPT !.pos = n].attempted = w.attempted
         /\ [w EXCEPT !.pos = n].cleaned = w.cleaned
         /\ [w EXCEPT !.pos = n].rotated = w.rotated
         /\ [w EXCEPT !.pos = n].unsupported = w.unsupported
  BY DEF Works

(* TypeOK says where an agent is, what it left there, and its check.       *)
LEMMA MoveType ==
  ASSUME TypeOK, NEW a \in Agents, ~Done(a), NEW o \in ItemOutcomes, NEW more \in Works,
         Move(a, o, more)
  PROVE  /\ work' \in [Agents -> Works] /\ steps' \in [Agents -> Seq(ItemOutcomes)]
         /\ work'[a] = [more EXCEPT !.pos = work[a].pos + 1]
         /\ \A b \in Agents \ {a} : work'[b] = work[b] /\ steps'[b] = steps[b]
         /\ steps'[a] = Append(steps[a], o)
         /\ \A b \in Agents : work'[b].pos <= Len(Agenda[b]) + 1 /\ Len(steps'[b]) = work'[b].pos - 1
<1>1. /\ work \in [Agents -> Works] /\ steps \in [Agents -> Seq(ItemOutcomes)]
      /\ work[a].pos \in Nat \ {0} /\ Len(Agenda[a]) \in Nat
      /\ \A b \in Agents : work[b].pos <= Len(Agenda[b]) + 1 /\ Len(steps[b]) = work[b].pos - 1
  BY AgendaFacts DEF TypeOK, AgentsTypeOK, Works
<1>2. work[a].pos <= Len(Agenda[a])
  BY <1>1 DEF Done
<1>3. [more EXCEPT !.pos = work[a].pos + 1] \in Works
      /\ [more EXCEPT !.pos = work[a].pos + 1].pos = work[a].pos + 1
  <2>1. work[a].pos + 1 \in Nat \ {0}
    BY <1>1
  <2>. QED BY <2>1, WorksExcept
<1>4. /\ work' \in [Agents -> Works] /\ work'[a] = [more EXCEPT !.pos = work[a].pos + 1]
      /\ \A b \in Agents \ {a} : work'[b] = work[b]
  BY <1>1, <1>3 DEF Move
<1>5. /\ steps' \in [Agents -> Seq(ItemOutcomes)] /\ steps'[a] = Append(steps[a], o)
      /\ \A b \in Agents \ {a} : steps'[b] = steps[b]
  BY <1>1 DEF Move
<1>6. Len(steps'[a]) = Len(steps[a]) + 1
  BY <1>1, <1>5
<1>7. ASSUME NEW b \in Agents
      PROVE  work'[b].pos <= Len(Agenda[b]) + 1 /\ Len(steps'[b]) = work'[b].pos - 1
  <2>1. CASE b = a
    BY <2>1, <1>1, <1>2, <1>3, <1>4, <1>6
  <2>2. CASE b # a
    BY <2>2, <1>1, <1>4, <1>5
  <2>. QED BY <2>1, <2>2
<1>. QED BY <1>3, <1>4, <1>5, <1>7

-----------------------------------------------------------------------------
(* Type correctness                                                        *)

(* An attempt that is followed by another one was not the last.            *)
Delayed == \A a \in Agents : check[a].phase = "delay" => check[a].number < Attempts

TInv == TypeOK /\ Delayed

LEMMA TInvInit == Init => TInv
<1> SUFFICES ASSUME Init PROVE TInv
  OBVIOUS
<1> USE DEF Init
<1>1. AtStart \in Works /\ AtStart.pos = 1
  BY DEF AtStart, Works
<1>2. NoCheck \in Checks /\ NoCheck.phase = "none"
  BY HarnessAssumption DEF NoCheck, Checks, Phases, Outcomes
<1>3. work \in [Agents -> Works] /\ check \in [Agents -> Checks]
  BY <1>1, <1>2
<1>4. /\ steps \in [Agents -> Seq(ItemOutcomes)] /\ agentOutcome \in [Agents -> Outcomes]
      /\ \A a \in Agents : Len(steps[a]) = 0
  BY DEF Outcomes
<1>5. \A a \in Agents : work[a].pos <= Len(Agenda[a]) + 1 /\ Len(steps[a]) = work[a].pos - 1
                        /\ dispatched[a] \subseteq DOMAIN Agenda[a]
  BY <1>1, <1>4, AgendaFacts
<1>6. RunTypeOK
  <2>1. 0 \in 0 .. Rounds /\ 0 \in 0 .. MaxRequests
    BY HarnessAssumption
  <2>. QED BY <2>1 DEF RunTypeOK, Outcomes, RunCauses
<1>7. AgentsTypeOK
  BY <1>3, <1>4, <1>5 DEF AgentsTypeOK
<1>8. Delayed
  BY <1>2 DEF Delayed
<1>. QED BY <1>6, <1>7, <1>8 DEF TInv, TypeOK

(* The steps of Execute itself.                                            *)
LEMMA EngineType ==
  ASSUME TInv, Engine
  PROVE  TInv'
<1> USE DEF TInv
<1>1. /\ "pass" \in Outcomes /\ 0 \in 0 .. Rounds /\ {} \in SUBSET AllProblems /\ "fail" \in Outcomes
      /\ round \in 0 .. Rounds /\ \A r \in 0 .. Rounds : Problem("delivery", r) \in AllProblems
  BY HarnessAssumption DEF Outcomes, Problem, AllProblems, TypeOK, RunTypeOK
<1>2. CASE Start \/ Barrier \/ NotifyEnding \/ NotifyFinished
  <2>1. Publish("pass", {}, 0) \/ Publish("pass", {}, round)
    BY <1>2 DEF Start, Barrier, NotifyEnding, NotifyFinished
  <2>2. problems' \subseteq AllProblems /\ outcome' \in Outcomes /\ runCause' \in RunCauses
    BY <2>1, <1>1, PublishFacts
  <2>3. /\ eng' \in {"interval", "ending", "closing", "returning"}
        /\ UNCHANGED <<round, evicted, state, ctl, work, check, steps, agentOutcome, dispatched>>
    BY <1>2 DEF Start, Barrier, NotifyEnding, NotifyFinished
  <2>. QED BY <2>2, <2>3 DEF TypeOK, RunTypeOK, AgentsTypeOK, Delayed, ctl
<1>3. CASE StartRound
  <2>1. AtStart \in Works /\ AtStart.pos = 1
    BY DEF AtStart, Works
  <2>2. /\ work' \in [Agents -> Works] /\ steps' \in [Agents -> Seq(ItemOutcomes)]
        /\ \A a \in Agents : work'[a] = AtStart /\ Len(steps'[a]) = 0 /\ dispatched'[a] = {}
        /\ DOMAIN dispatched' = Agents
    BY <1>3, <2>1 DEF StartRound
  <2>3. \A a \in Agents : work'[a].pos <= Len(Agenda[a]) + 1 /\ Len(steps'[a]) = work'[a].pos - 1
                          /\ dispatched'[a] \subseteq DOMAIN Agenda[a]
    BY <2>1, <2>2, AgendaFacts
  <2>4. agentOutcome' \in [Agents -> Outcomes]
    BY <1>3, <1>1 DEF StartRound
  <2>5. round' \in 0 .. Rounds
    BY <1>3, <1>1, HarnessAssumption DEF StartRound
  <2>6. problems' \subseteq AllProblems /\ outcome' \in Outcomes /\ runCause' \in RunCauses
    <3>1. Old(round + 1) \subseteq problems /\ round + 1 \in 0 .. Rounds
      BY <1>3, <2>5 DEF Old, StartRound
    <3>2. Problem("delivery", round + 1) \in AllProblems
      BY <1>1, <3>1
    <3>. QED BY <1>3, <3>1, <3>2, <1>1 DEF StartRound, TypeOK, RunTypeOK, RunCauses
  <2>7. skipped' \subseteq ValidScopes /\ evicted' \in BOOLEAN /\ eng' = "round"
    BY <1>3 DEF StartRound, NextRound, TypeOK, RunTypeOK
  <2>8. UNCHANGED <<state, paused, canceled, asked, check>>
    BY <1>3 DEF StartRound
  <2>9. RunTypeOK'
    BY <2>5, <2>6, <2>7, <2>8 DEF TypeOK, RunTypeOK
  <2>10. AgentsTypeOK'
    <3>1. check' \in [Agents -> Checks]
      BY <2>8 DEF TypeOK, AgentsTypeOK
    <3>. QED BY <3>1, <2>2, <2>3, <2>4 DEF AgentsTypeOK
  <2>. QED BY <2>8, <2>9, <2>10 DEF TypeOK, Delayed
<1>4. CASE LeaveLoop
  BY <1>4 DEF LeaveLoop, Quiet, ctl, TypeOK, RunTypeOK, AgentsTypeOK, Delayed
<1>5. CASE EndRun \/ DropSinks \/ Return
  <2>1. /\ eng' \in {"notify", "dropped", "finished"}
        /\ UNCHANGED <<round, evicted, runCause, ctl, problems, work, check, steps,
                        agentOutcome, dispatched>>
    BY <1>5 DEF EndRun, DropSinks, Return
  <2>2. state' \in {"completed", "stopped", "failed", state} /\ outcome' \in Outcomes
    <3>1. CombineOutcome(outcome, "canceled") \in Outcomes /\ outcome \in Outcomes
      BY RankOrder DEF TypeOK, RunTypeOK, Outcomes
    <3>. QED BY <1>5, <1>1, <3>1 DEF EndRun, DropSinks, Return, EndVerdict, Verdict
  <2>. QED BY <2>1, <2>2 DEF TypeOK, RunTypeOK, AgentsTypeOK, Delayed, ctl
<1>6. CASE CloseSinks
  <2>1. problems' \subseteq AllProblems /\ outcome' \in Outcomes
    BY <1>6, <1>1 DEF CloseSinks, TypeOK, RunTypeOK
  <2>. QED BY <1>6, <2>1 DEF CloseSinks, TypeOK, RunTypeOK, AgentsTypeOK, Delayed, ctl
<1>. QED BY <1>2, <1>3, <1>4, <1>5, <1>6 DEF Engine

LEMMA StepFacts ==
  ASSUME TypeOK, NEW a \in Agents, NEW c \in Checks, Step(a, c)
  PROVE  /\ check' \in [Agents -> Checks] /\ check'[a] = c
         /\ \A b \in Agents \ {a} : check'[b] = check[b]
  BY DEF Step, TypeOK, AgentsTypeOK

(* What a step of an agent does to the run.                                *)
LEMMA RunKept ==
  ASSUME TypeOK, UNCHANGED <<run, ctl>>,
         \/ Quiet
         \/ \E o \in Outcomes, r \in 0 .. Rounds, ps \in SUBSET AllProblems : Publish(o, ps, r)
  PROVE  RunTypeOK'
<1>1. problems' \subseteq AllProblems /\ outcome' \in Outcomes /\ runCause' \in RunCauses
  BY PublishFacts DEF Quiet, TypeOK, RunTypeOK
<1>. QED BY <1>1 DEF TypeOK, RunTypeOK, run, ctl

LEMMA PlaceFacts ==
  ASSUME TypeOK, NEW a \in Agents, ~Done(a)
  PROVE  /\ work[a] \in Works /\ work[a].pos \in DOMAIN Agenda[a]
         /\ work[a].pos \in Nat /\ work[a].pos >= 1
         /\ work[a].pos <= Len(Agenda[a]) /\ Here(a).ssid \in Ssids
<1>1. work[a] \in Works /\ work[a].pos \in Nat \ {0}
  BY DEF TypeOK, AgentsTypeOK, Works
<1>2. work[a].pos <= Len(Agenda[a])
  BY <1>1, AgendaFacts DEF Done
<1>3. work[a].pos \in DOMAIN Agenda[a]
  BY <1>1, <1>2, AgendaFacts
<1>. QED BY <1>1, <1>2, <1>3 DEF Here, Ssids

LEMMA AfterCheckType ==
  ASSUME TypeOK, NEW a \in Agents, ~Done(a), NEW o \in Outcomes, NEW w \in AfterCheck(a, o)
  PROVE  w \in Works
<1> DEFINE v == work[a]
<1>1. v \in Works /\ Here(a).ssid \in Ssids
  BY PlaceFacts
<1>2. \A g \in {"skip", "prereq"} : [v EXCEPT !.gate = g] \in Works
  BY <1>1 DEF Works
<1>3. [v EXCEPT !.rotated = @ \cup {Here(a).ssid}] \in Works
  BY <1>1 DEF Works
<1>4. \A b \in SUBSET Bands : [v EXCEPT !.unsupported = b] \in Works
  BY <1>1 DEF Works
<1>. HIDE DEF v
<1>5. w \in {v} \cup {[v EXCEPT !.gate = g] : g \in {"skip", "prereq"}}
           \cup {[v EXCEPT !.rotated = @ \cup {Here(a).ssid}]}
           \cup {[v EXCEPT !.unsupported = b] : b \in SUBSET Bands}
  BY DEF AfterCheck, v
<1>. QED BY <1>1, <1>2, <1>3, <1>4, <1>5

LEMMA CheckEnded ==
  ASSUME NEW c \in Checks, NEW o \in Outcomes
  PROVE  /\ [c EXCEPT !.phase = "end", !.last = o] \in Checks
         /\ [c EXCEPT !.phase = "end", !.last = o].phase = "end"
         /\ [c EXCEPT !.phase = "end", !.last = o].own = c.own
  BY DEF Checks, Phases

LEMMA CauseTypes ==
  ASSUME TypeOK, NEW a \in Agents
  PROVE  /\ OwnCause(a) \in {"none", "skip", "cancel"}
         /\ Cause(a) \in {"none", "skip", "cancel", "external", "delivery"}
         /\ ContextOutcome(Cause(a)) \in Outcomes
<1>1. check[a].own \in {"none", "skip", "cancel"} /\ runCause \in RunCauses
  BY DEF TypeOK, RunTypeOK, AgentsTypeOK, Checks
<1>2. Cause(a) \in {"none", "skip", "cancel", "external", "delivery"}
  BY <1>1 DEF Cause, RunCauses
<1>. QED BY <1>2 DEF OwnCause, ContextOutcome, Outcomes

LEMMA WorstFacts ==
  ASSUME NEW S \in SUBSET Outcomes, S # {}
  PROVE  Worst(S) \in S /\ \A p \in S : Rank(p) <= Rank(Worst(S))
<1>1. \E o \in S : \A p \in S : Rank(p) <= Rank(o)
  <2>1. CASE "fail" \in S
    BY <2>1, RankOrder
  <2>2. CASE "fail" \notin S /\ "missing" \in S
    BY <2>2 DEF Rank, Outcomes
  <2>3. CASE "fail" \notin S /\ "missing" \notin S /\ "canceled" \in S
    BY <2>3 DEF Rank, Outcomes
  <2>4. CASE "fail" \notin S /\ "missing" \notin S /\ "canceled" \notin S /\ "skip" \in S
    BY <2>4 DEF Rank, Outcomes
  <2>5. CASE S \subseteq {"pass"}
    BY <2>5 DEF Rank
  <2>. QED BY <2>1, <2>2, <2>3, <2>4, <2>5 DEF Outcomes
<1>. QED BY <1>1 DEF Worst

LEMMA CleanupOutcomeType ==
  ASSUME TypeOK, NEW a \in Agents
  PROVE  /\ CleanupOutcome(a) \in Outcomes
         /\ CleanupOutcome(a) # "pass" =>
              \E i \in DOMAIN work[a].cleaned : work[a].cleaned[i].outcome = CleanupOutcome(a)
<1> DEFINE S == {"pass"} \cup {work[a].cleaned[i].outcome : i \in DOMAIN work[a].cleaned}
<1>1. work[a].cleaned \in Seq([op : Cleanups, outcome : Outcomes])
  BY DEF TypeOK, AgentsTypeOK, Works
<1>2. S \in SUBSET Outcomes /\ S # {}
  <2>1. ASSUME NEW i \in DOMAIN work[a].cleaned PROVE work[a].cleaned[i].outcome \in Outcomes
    <3> DEFINE R == [op : Cleanups, outcome : Outcomes]
    <3>. HIDE DEF R
    <3>1. work[a].cleaned \in Seq(R)
      BY <1>1 DEF R
    <3>2. work[a].cleaned[i] \in R
      BY <3>1
    <3>. QED BY <3>2 DEF R
  <2>. QED BY <2>1 DEF Outcomes
<1>3. Worst(S) \in S
  BY <1>2, WorstFacts
<1>. QED BY <1>2, <1>3 DEF CleanupOutcome

LEMMA ProgressFacts ==
  ASSUME TypeOK, NEW a \in Agents, NEW o \in Outcomes, Progress(a, o)
  PROVE  /\ agentOutcome' \in [Agents -> Outcomes]
         /\ agentOutcome'[a] = CombineOutcome(agentOutcome[a], o)
         /\ \A b \in Agents \ {a} : agentOutcome'[b] = agentOutcome[b]
<1>1. agentOutcome \in [Agents -> Outcomes]
  BY DEF TypeOK, AgentsTypeOK
<1>2. CombineOutcome(agentOutcome[a], o) \in Outcomes
  BY <1>1, RankOrder
<1>. QED BY <1>1, <1>2 DEF Progress

(* From item to item.                                                      *)
LEMMA MovesType ==
  ASSUME TInv, NEW a \in Agents,
         EnterTarget(a) \/ SkippedStep(a) \/ PassOver(a) \/ LeaveTarget(a)
  PROVE  TInv'
<1> USE DEF TInv
<1>1. /\ "pass" \in Outcomes /\ "skip" \in Outcomes /\ {} \in SUBSET AllProblems
      /\ round \in 0 .. Rounds /\ "none" \in ItemOutcomes /\ "prereq" \in ItemOutcomes
  BY DEF Outcomes, ItemOutcomes, TypeOK, RunTypeOK
<1>2. ~Done(a)
  BY DEF EnterTarget, SkippedStep, PassOver, LeaveTarget, Kind
<1>3. UNCHANGED <<run, ctl, check, dispatched>>
  BY DEF EnterTarget, SkippedStep, PassOver, LeaveTarget
<1>4. RunTypeOK'
  <2>1. Quiet \/ Publish("pass", {}, round) \/ Publish("skip", {}, round)
    BY DEF EnterTarget, SkippedStep, PassOver, LeaveTarget
  <2>. QED BY <2>1, <1>1, <1>3, RunKept
<1>5. agentOutcome' \in [Agents -> Outcomes]
  <2>1. UNCHANGED agentOutcome \/ \E o \in Outcomes : Progress(a, o)
    BY <1>1, CleanupOutcomeType DEF EnterTarget, SkippedStep, PassOver, LeaveTarget
  <2>. QED BY <2>1, ProgressFacts DEF TypeOK, AgentsTypeOK
<1>6. \E o \in ItemOutcomes, more \in Works : Move(a, o, more)
  <2>1. work[a] \in Works
    BY DEF TypeOK, AgentsTypeOK
  <2>2. /\ [work[a] EXCEPT !.gate = "open"] \in Works /\ [work[a] EXCEPT !.gate = "skip"] \in Works
        /\ [work[a] EXCEPT !.gate = "open", !.attempted = FALSE, !.cleaned = <<>>] \in Works
    <3>1. <<>> \in Seq([op : Cleanups, outcome : Outcomes])
      OBVIOUS
    <3>2. /\ [work[a] EXCEPT !.gate = "open"] \in Works /\ [work[a] EXCEPT !.gate = "skip"] \in Works
      BY <2>1 DEF Works
    <3>3. [work[a] EXCEPT !.gate = "open", !.attempted = FALSE, !.cleaned = <<>>] \in Works
      BY <2>1, <3>1 DEF Works
    <3>. QED BY <3>2, <3>3
  <2>3. CleanupOutcome(a) \in ItemOutcomes
    BY CleanupOutcomeType DEF ItemOutcomes
  <2>. QED BY <1>1, <2>1, <2>2, <2>3 DEF EnterTarget, SkippedStep, PassOver, LeaveTarget
<1>7. AgentsTypeOK'
  BY <1>2, <1>3, <1>5, <1>6, MoveType DEF TypeOK, AgentsTypeOK
<1>. QED BY <1>3, <1>4, <1>7 DEF TypeOK, Delayed

LEMMA RawOutcomes == \A o \in Raw : (IF o = "error" THEN "fail" ELSE o) \in Outcomes
  BY HarnessAssumption DEF Outcomes

LEMMA EvaluateType ==
  ASSUME TypeOK, NEW a \in Agents, NEW r \in EvaluateAttempt(a)
  PROVE  r[1] \in Outcomes /\ r[2] \in BOOLEAN
<1>1. "fail" \in Outcomes /\ ContextOutcome(Cause(a)) \in Outcomes
  BY CauseTypes DEF Outcomes
<1>2. CASE ~Over(a)
  <2>1. EvaluateAttempt(a) = {IF o = "error" THEN <<"fail", TRUE>> ELSE <<o, FALSE>> : o \in Raw}
    BY <1>2 DEF EvaluateAttempt, Over
  <2>2. PICK o \in Raw : r = IF o = "error" THEN <<"fail", TRUE>> ELSE <<o, FALSE>>
    BY <2>1
  <2>. QED BY <2>2, <1>1, RawOutcomes
<1>3. CASE Over(a)
  <2>1. r \in {<<"fail", TRUE>>, <<ContextOutcome(Cause(a)), FALSE>>}
    BY <1>3 DEF EvaluateAttempt
  <2>2. CASE r = <<"fail", TRUE>>
    BY <2>2, <1>1
  <2>3. CASE r = <<ContextOutcome(Cause(a)), FALSE>>
    BY <2>3, <1>1
  <2>. QED BY <2>1, <2>2, <2>3
<1>. QED BY <1>2, <1>3

(* Inside a check: the record of the agent's check is the only part of its *)
(* place that changes.                                                     *)
LEMMA InCheckType ==
  ASSUME TInv, NEW a \in Agents,
         StartCheck(a) \/ PolicyTimeout(a) \/ Refuse(a) \/ Block(a) \/ Admit(a) \/ Returns(a)
           \/ Delay(a)
  PROVE  TInv'
<1> USE DEF TInv
<1>1. /\ "pass" \in Outcomes /\ "fail" \in Outcomes /\ {} \in SUBSET AllProblems
      /\ round \in 0 .. Rounds /\ 0 \in 0 .. Rounds
      /\ ContextOutcome(Cause(a)) \in Outcomes
  BY CauseTypes, HarnessAssumption DEF Outcomes, TypeOK, RunTypeOK
<1>2. UNCHANGED <<run, ctl, work, steps, agentOutcome, dispatched>>
  BY DEF StartCheck, PolicyTimeout, Refuse, Block, Admit, Returns, Delay
<1>3. RunTypeOK'
  <2>1. Quiet \/ Publish("pass", {}, round) \/ Publish("pass", {}, 0)
    BY DEF StartCheck, PolicyTimeout, Refuse, Block, Admit, Returns, Delay
  <2>. QED BY <2>1, <1>1, <1>2, RunKept
<1>4. check[a] \in Checks /\ Attempts \in Nat \ {0}
  BY HarnessAssumption DEF TypeOK, AgentsTypeOK
<1>5. \E c \in Checks : Step(a, c) /\ (c.phase = "delay" => c.number < Attempts)
  <2>1. CASE StartCheck(a)
    <3>1. [NoCheck EXCEPT !.phase = "wait", !.number = 1, !.own = OwnCause(a)] \in Checks
      <4>1. 1 \in 0 .. Attempts
        BY <1>4
      <4>. QED BY CauseTypes, <4>1 DEF NoCheck, Checks, Phases, Outcomes
    <3>2. [NoCheck EXCEPT !.phase = "wait", !.number = 1, !.own = OwnCause(a)].phase = "wait"
      BY DEF NoCheck
    <3>. QED BY <2>1, <3>1, <3>2 DEF StartCheck
  <2>2. CASE PolicyTimeout(a)
    <3>1. [check[a] EXCEPT !.late = TRUE] \in Checks
          /\ [check[a] EXCEPT !.late = TRUE].phase = check[a].phase
          /\ [check[a] EXCEPT !.late = TRUE].number = check[a].number
      BY <1>4 DEF Checks
    <3>. QED BY <2>2, <3>1 DEF PolicyTimeout, Delayed
  <2>3. \A o \in Outcomes : Stopped(a, o) \in Checks /\ Stopped(a, o).phase = "end"
    BY <1>4, CheckEnded DEF Stopped
  <2>4. CASE Refuse(a)
    BY <2>4, <2>3, <1>1 DEF Refuse
  <2>5. CASE Block(a)
    <3>1. [check[a] EXCEPT !.phase = "paused"] \in Checks
          /\ [check[a] EXCEPT !.phase = "paused"].phase = "paused"
      BY <1>4 DEF Checks, Phases
    <3>. QED BY <2>5, <3>1, <2>3, <1>1 DEF Block
  <2>8. CASE Admit(a)
    <3>1. [check[a] EXCEPT !.phase = "ready"] \in Checks
          /\ [check[a] EXCEPT !.phase = "ready"].phase = "ready"
      BY <1>4 DEF Checks, Phases
    <3>. QED BY <2>8, <3>1, <2>3, <1>1 DEF Admit
  <2>6. CASE Returns(a)
    <3>1. PICK r \in EvaluateAttempt(a) :
            Step(a, [check[a] EXCEPT
              !.last = r[1], !.err = r[2],
              !.phase = IF r[1] \in {"pass", "canceled", "skip"} \/ LastTry(a)
                        THEN "end" ELSE "delay"])
      BY <2>6 DEF Returns
    <3>2. r[1] \in Outcomes /\ r[2] \in BOOLEAN
      BY EvaluateType
    <3> DEFINE p == IF r[1] \in {"pass", "canceled", "skip"} \/ LastTry(a) THEN "end" ELSE "delay"
               c == [check[a] EXCEPT !.last = r[1], !.err = r[2], !.phase = p]
    <3>3. p \in Phases
      BY DEF Phases
    <3>4. c \in Checks /\ c.phase = p /\ c.number = check[a].number
      <4>. HIDE DEF p
      <4>. QED BY <1>4, <3>2, <3>3 DEF Checks
    <3>5. p = "delay" => check[a].number < Attempts
      BY <1>4 DEF LastTry, Checks
    <3>6. Step(a, c)
      BY <3>1
    <3>. HIDE DEF c, p
    <3>. QED BY <3>4, <3>5, <3>6
  <2>7. CASE Delay(a)
    <3>1. CASE Over(a)
      BY <2>7, <3>1, <2>3, <1>1 DEF Delay
    <3>2. CASE ~Over(a)
      <4> DEFINE c == [check[a] EXCEPT !.phase = "wait", !.number = @ + 1]
      <4>1. check[a].number < Attempts
        BY <2>7 DEF Delay, Reached, InCheck, Delayed
      <4>2. c \in Checks /\ c.phase = "wait"
        <5>1. check[a].number + 1 \in 0 .. Attempts
          BY <4>1, <1>4 DEF Checks
        <5>. QED BY <5>1, <1>4 DEF Checks, Phases
      <4>. QED BY <2>7, <3>2, <4>2 DEF Delay
    <3>. QED BY <3>1, <3>2
  <2>. QED BY <2>1, <2>2, <2>4, <2>5, <2>6, <2>7, <2>8
<1>6. PICK c \in Checks : Step(a, c) /\ (c.phase = "delay" => c.number < Attempts)
  BY <1>5
<1>7. /\ check' \in [Agents -> Checks] /\ check'[a] = c
      /\ \A b \in Agents \ {a} : check'[b] = check[b]
  BY <1>6, StepFacts
<1>8. AgentsTypeOK'
  BY <1>2, <1>7 DEF TypeOK, AgentsTypeOK
<1>9. Delayed'
  BY <1>6, <1>7 DEF Delayed
<1>. QED BY <1>3, <1>8, <1>9 DEF TypeOK

LEMMA DispatchType ==
  ASSUME TInv, NEW a \in Agents, Dispatch(a)
  PROVE  TInv'
<1> USE DEF TInv
<1>1. /\ "pass" \in Outcomes /\ "fail" \in Outcomes /\ {} \in SUBSET AllProblems
      /\ 0 \in 0 .. Rounds /\ check[a] \in Checks /\ work[a] \in Works
  BY HarnessAssumption DEF Outcomes, TypeOK, AgentsTypeOK
<1>2. UNCHANGED <<run, ctl, steps, agentOutcome>>
  BY DEF Dispatch
<1>3. RunTypeOK'
  BY <1>1, <1>2, RunKept DEF Dispatch
<1> DEFINE c == [check[a] EXCEPT !.phase = "op"]
           w == [work[a] EXCEPT !.attempted = @ \/ Here(a).kind = "connect"]
<1>4. c \in Checks /\ c.phase = "op"
  BY <1>1 DEF Checks, Phases
<1>5. w \in Works /\ w.pos = work[a].pos
  <2>1. work[a].attempted \in BOOLEAN
    BY <1>1 DEF Works
  <2>2. (work[a].attempted \/ Here(a).kind = "connect") \in BOOLEAN
    OBVIOUS
  <2>. QED BY <1>1, <2>2 DEF Works
<1>6. Step(a, c) /\ dispatched' = [dispatched EXCEPT ![a] = @ \cup {work[a].pos}]
  BY DEF Dispatch
<1>7. work' = [work EXCEPT ![a] = w]
  BY DEF Dispatch, Attempted
<1>8. work[a].pos \in DOMAIN Agenda[a]
  BY PlaceFacts DEF Dispatch, Reached
<1>9. /\ work' \in [Agents -> Works] /\ \A b \in Agents : work'[b].pos = work[b].pos
  <2>. HIDE DEF w
  <2>. QED BY <1>5, <1>7 DEF TypeOK, AgentsTypeOK
<1>10. /\ DOMAIN dispatched' = Agents
       /\ \A b \in Agents : dispatched'[b] \subseteq DOMAIN Agenda[b]
  BY <1>6, <1>8 DEF TypeOK, AgentsTypeOK
<1>11. AgentsTypeOK'
  <2>. HIDE DEF c
  <2>. QED BY <1>2, <1>4, <1>6, <1>9, <1>10, StepFacts DEF TypeOK, AgentsTypeOK
<1>12. Delayed'
  <2>. HIDE DEF c
  <2>. QED BY <1>4, <1>6, StepFacts DEF Delayed
<1>. QED BY <1>3, <1>11, <1>12 DEF TypeOK

LEMMA EndCheckType ==
  ASSUME TInv, NEW a \in Agents, EndCheck(a)
  PROVE  TInv'
<1> USE DEF TInv
<1> DEFINE o == FinalOutcome(a)
<1>1. o \in Outcomes /\ ~Done(a)
  BY DEF FinalOutcome, Outcomes, TypeOK, AgentsTypeOK, Checks, EndCheck, Reached
<1>2. UNCHANGED <<run, ctl, dispatched>>
  BY DEF EndCheck
<1>3. NoCheck \in Checks /\ NoCheck.phase = "none"
  BY HarnessAssumption DEF NoCheck, Checks, Phases, Outcomes
<1>4. RunTypeOK'
  <2>1. Problem("primary", round) \in AllProblems /\ round \in 0 .. Rounds
    BY DEF Problem, AllProblems, TypeOK, RunTypeOK
  <2>2. (IF o # "pass" /\ check[a].err THEN {Problem("primary", round)} ELSE {}) \in SUBSET AllProblems
    BY <2>1
  <2>3. Publish(o, IF o # "pass" /\ check[a].err THEN {Problem("primary", round)} ELSE {}, round)
    BY DEF EndCheck
  <2>. QED BY <1>1, <1>2, <2>1, <2>2, <2>3, RunKept
<1>5. agentOutcome' \in [Agents -> Outcomes]
  BY <1>1, ProgressFacts DEF EndCheck
<1>6. PICK w \in AfterCheck(a, o) : Move(a, o, w)
  BY DEF EndCheck
<1>7. w \in Works /\ o \in ItemOutcomes
  BY <1>1, <1>6, AfterCheckType DEF ItemOutcomes
<1>8. /\ work' \in [Agents -> Works] /\ steps' \in [Agents -> Seq(ItemOutcomes)]
      /\ \A b \in Agents : work'[b].pos <= Len(Agenda[b]) + 1 /\ Len(steps'[b]) = work'[b].pos - 1
  BY <1>1, <1>6, <1>7, MoveType
<1>9. Step(a, NoCheck)
  BY DEF EndCheck
<1>10. /\ check' \in [Agents -> Checks] /\ check'[a] = NoCheck
       /\ \A b \in Agents \ {a} : check'[b] = check[b]
  BY <1>3, <1>9, StepFacts
<1>11. AgentsTypeOK'
  BY <1>2, <1>5, <1>8, <1>10 DEF TypeOK, AgentsTypeOK
<1>12. Delayed'
  BY <1>3, <1>10 DEF Delayed
<1>. QED BY <1>4, <1>11, <1>12 DEF TypeOK

LEMMA CleanupOpType ==
  ASSUME TInv, NEW a \in Agents, CleanupOp(a)
  PROVE  /\ TInv' /\ outcome' \in {outcome, "fail"}
         /\ \E o \in Outcomes :
              /\ work' = [work EXCEPT ![a].cleaned =
                           Append(@, [op |-> Here(a).after[Len(@) + 1], outcome |-> o])]
              /\ o = "pass" \/ outcome' = "fail"
              /\ Len(work[a].cleaned) + 1 \in DOMAIN Here(a).after
<1> USE DEF TInv
<1>1. UNCHANGED <<run, runCause, ctl, check, steps, agentOutcome, dispatched>>
  BY DEF CleanupOp
<1>2. PICK raw \in Raw : LET o == IF raw = "error" THEN "fail" ELSE raw IN
       /\ work' = [work EXCEPT ![a].cleaned =
                     Append(@, [op |-> Here(a).after[Len(@) + 1], outcome |-> o])]
       /\ IF o = "pass" THEN UNCHANGED <<problems, outcome>>
          ELSE problems' = problems \cup {Problem("cleanup", round)} /\ outcome' = "fail"
  BY DEF CleanupOp
<1> DEFINE o == IF raw = "error" THEN "fail" ELSE raw
           k == Len(work[a].cleaned)
           e == [op |-> Here(a).after[k + 1], outcome |-> o]
           R == [op : Cleanups, outcome : Outcomes]
           w == [work[a] EXCEPT !.cleaned = Append(@, e)]
<1>3. o \in Outcomes
  BY RawOutcomes
<1>4. RunTypeOK' /\ outcome' \in {outcome, "fail"} /\ (o = "pass" \/ outcome' = "fail")
  <2>1. Problem("cleanup", round) \in AllProblems /\ "fail" \in Outcomes
    BY DEF Problem, AllProblems, Outcomes, TypeOK, RunTypeOK
  <2>2. problems' \subseteq AllProblems /\ outcome' \in Outcomes /\ outcome' \in {outcome, "fail"}
        /\ (o = "pass" \/ outcome' = "fail")
    <3>. HIDE DEF o
    <3>1. IF o = "pass" THEN UNCHANGED <<problems, outcome>>
          ELSE problems' = problems \cup {Problem("cleanup", round)} /\ outcome' = "fail"
      BY <1>2 DEF o
    <3>. QED BY <2>1, <3>1 DEF TypeOK, RunTypeOK
  <2>. QED BY <1>1, <2>2 DEF TypeOK, RunTypeOK, run, ctl
<1>5. work[a] \in Works /\ ~Done(a)
  BY DEF TypeOK, AgentsTypeOK, CleanupOp, Kind
<1>6. work[a].cleaned \in Seq(R) /\ k \in Nat
  BY <1>5 DEF Works
<1>7. Here(a).after \in Seq(Cleanups)
  <2>1. work[a].pos \in DOMAIN Agenda[a]
    BY <1>5, PlaceFacts
  <2>. QED BY <2>1, AgendaAssumption DEF Here
<1>8. k + 1 \in DOMAIN Here(a).after
  <2>1. Len(Here(a).after) - k > 0
    <3>1. CleanupLeft(a) > 0
      BY DEF CleanupOp
    <3>2. CASE CleanupContext(a)
      BY <3>1, <3>2 DEF CleanupLeft
    <3>3. CASE ~CleanupContext(a)
      <4>1. CleanupLeft(a) = 0
        BY <3>3 DEF CleanupLeft
      <4>. QED BY <3>1, <4>1
    <3>. QED BY <3>2, <3>3
  <2>2. Len(Here(a).after) \in Nat /\ DOMAIN Here(a).after = 1 .. Len(Here(a).after)
    BY <1>7
  <2>. HIDE DEF k
  <2>. QED BY <2>1, <2>2, <1>6
<1>9. w \in Works /\ w.pos = work[a].pos
  <2>1. e \in R
    <3>1. Here(a).after[k + 1] \in Cleanups
      BY <1>7, <1>8
    <3>. HIDE DEF o, k
    <3>. QED BY <3>1, <1>3
  <2>2. Append(work[a].cleaned, e) \in Seq(R)
    <3>. HIDE DEF R, e
    <3>. QED BY <2>1, <1>6
  <2>. HIDE DEF e
  <2>. QED BY <1>5, <2>2 DEF Works
<1>10. work' = [work EXCEPT ![a] = w]
  BY <1>2
<1>11. AgentsTypeOK'
  <2>. HIDE DEF w
  <2>. QED BY <1>1, <1>9, <1>10 DEF TypeOK, AgentsTypeOK
<1>12. Delayed'
  BY <1>1 DEF Delayed
<1>. QED BY <1>2, <1>3, <1>4, <1>8, <1>11, <1>12 DEF TypeOK

LEMMA RequestType ==
  ASSUME TInv, NEW r \in Requests, Request(r)
  PROVE  TInv'
<1> USE DEF TInv
<1>1. UNCHANGED <<run, work, steps, agentOutcome, dispatched>>
  BY DEF Request
<1>2. /\ paused' \subseteq ValidScopes /\ skipped' \subseteq ValidScopes
      /\ canceled' \subseteq ValidScopes /\ asked' \in 0 .. MaxRequests
  <2>1. asked' \in 0 .. MaxRequests
    <3>1. asked < MaxRequests /\ asked' = asked + 1
      BY DEF Request
    <3>2. asked \in 0 .. MaxRequests
      BY DEF TypeOK, RunTypeOK
    <3>. QED BY <3>1, <3>2, HarnessAssumption
  <2>2. /\ paused' \in {paused \cup {r.scope}, paused \ {r.scope}, paused}
        /\ skipped' \in {skipped \cup {r.scope}, skipped}
        /\ canceled' \in {canceled \cup {r.scope}, canceled} /\ r.scope \in ValidScopes
    BY DEF Request
  <2>. QED BY <2>1, <2>2 DEF TypeOK, RunTypeOK
<1>3. problems' \subseteq AllProblems /\ outcome' \in Outcomes /\ runCause' \in RunCauses
  <2>1. Problem("delivery", 0) \in AllProblems
    BY HarnessAssumption DEF Problem, AllProblems
  <2>2. \/ problems' = problems \cup {Problem("delivery", 0)} /\ outcome' = "fail"
        \/ UNCHANGED <<problems, outcome>>
    BY DEF Request
  <2>3. runCause' \in {runCause, "cancel", "delivery", "none"}
    BY DEF Request
  <2>. QED BY <2>1, <2>2, <2>3 DEF TypeOK, RunTypeOK, RunCauses, Outcomes
<1>4. RunTypeOK'
  BY <1>1, <1>2, <1>3 DEF TypeOK, RunTypeOK, run
<1>5. ASSUME NEW a \in Agents
      PROVE  check'[a] \in Checks /\ (check'[a].phase = "delay" => check'[a].number < Attempts)
  <2> DEFINE w == IF Interrupted(a, r) THEN r.action ELSE check[a].own
             p == IF check[a].phase = "paused" /\ Wake(r) THEN "woken" ELSE check[a].phase
  <2>1. check'[a] = [check[a] EXCEPT !.own = w, !.phase = p]
    BY DEF Request
  <2>2. check[a] \in Checks
    BY DEF TypeOK, AgentsTypeOK
  <2>3. w \in {"none", "skip", "cancel"} /\ p \in Phases /\ p \in {check[a].phase, "woken"}
    BY <2>2 DEF Checks, Phases, Interrupted
  <2>. HIDE DEF w, p
  <2>4. check'[a] \in Checks /\ check'[a].phase = p /\ check'[a].number = check[a].number
    BY <2>1, <2>2, <2>3 DEF Checks
  <2>. QED BY <2>3, <2>4 DEF Delayed
<1>6. check' \in [Agents -> Checks]
  <2>1. check' = [a \in Agents |-> check'[a]]
    BY DEF Request
  <2>. QED BY <2>1, <1>5
<1>7. AgentsTypeOK' /\ Delayed'
  BY <1>1, <1>5, <1>6 DEF TypeOK, AgentsTypeOK, Delayed
<1>. QED BY <1>4, <1>7 DEF TypeOK

LEMMA TInvNext == TInv /\ [Next]_vars => TInv'
<1> SUFFICES ASSUME TInv, [Next]_vars PROVE TInv'
  OBVIOUS
<1>1. CASE Engine
  BY <1>1, EngineType
<1>2. ASSUME NEW a \in Agents, Worker(a) \/ PolicyTimeout(a) PROVE TInv'
  BY <1>2, MovesType, InCheckType, DispatchType, EndCheckType, CleanupOpType DEF Worker
<1>3. ASSUME NEW r \in Requests, Request(r) PROVE TInv'
  BY <1>3, RequestType
<1>4. CASE ExternalCancel
  BY <1>4 DEF ExternalCancel, TInv, TypeOK, RunTypeOK, AgentsTypeOK, Delayed, RunCauses, run, ctl
<1>5. CASE UNCHANGED vars
  BY <1>5 DEF vars, TInv, TypeOK, RunTypeOK, AgentsTypeOK, Delayed, run, ctl
<1>. QED BY <1>1, <1>2, <1>3, <1>4, <1>5 DEF Next

(* Agents and run stay within their types, and no attempt is started       *)
(* beyond the last one of the policy (checkAttempted).                     *)
THEOREM TypeCorrect == Spec => []TInv
  BY TInvInit, TInvNext, PTL DEF Spec

-----------------------------------------------------------------------------
(* Operator requests                                                       *)

(* On the scopes the controls accept, the scopes a check is matched with   *)
(* (Covers) are those that name it (Names).                                *)
LEMMA CoversNames ==
  ASSUME NEW s \in ValidScopes, NEW a \in Agents, NEW i \in DOMAIN Agenda[a],
         Agenda[a][i].kind \in Checked
  PROVE  Covers(s, a, Agenda[a][i]) <=> Names(s, a, Agenda[a][i])
<1>1. CASE s = [kind |-> "run", agent |-> "", target |-> "", check |-> ""]
  BY <1>1 DEF Covers, Names
<1>2. ASSUME NEW b \in Agents, s = [kind |-> "agent", agent |-> b, target |-> "", check |-> ""]
      PROVE  Covers(s, a, Agenda[a][i]) <=> Names(s, a, Agenda[a][i])
  BY <1>2, AgendaAssumption DEF Covers, Names
<1>3. ASSUME NEW b \in Agents, NEW j \in DOMAIN Agenda[b], Agenda[b][j].kind = "target",
             s = [kind |-> "target", agent |-> b, target |-> Agenda[b][j].target, check |-> ""]
      PROVE  Covers(s, a, Agenda[a][i]) <=> Names(s, a, Agenda[a][i])
  <2>1. b # "" /\ Agenda[b][j].target # ""
    BY <1>3, AgendaAssumption
  <2>. QED BY <1>3, <2>1 DEF Covers, Names
<1>4. ASSUME NEW b \in Agents, NEW j \in DOMAIN Agenda[b], Agenda[b][j].kind \in Selective,
             s = [kind |-> "check", agent |-> b, target |-> Agenda[b][j].target,
                  check |-> Agenda[b][j].id]
      PROVE  Covers(s, a, Agenda[a][i]) <=> Names(s, a, Agenda[a][i])
  <2>1. b # "" /\ Agenda[b][j].target # "" /\ Agenda[b][j].id # ""
    BY <1>4, AgendaAssumption DEF Inside
  <2>. QED BY <1>4, <2>1 DEF Covers, Names
<1>5. \/ s = [kind |-> "run", agent |-> "", target |-> "", check |-> ""]
      \/ \E b \in Agents : s = [kind |-> "agent", agent |-> b, target |-> "", check |-> ""]
      \/ \E b \in Agents : \E j \in DOMAIN Agenda[b] :
           /\ Agenda[b][j].kind = "target"
           /\ s = [kind |-> "target", agent |-> b, target |-> Agenda[b][j].target, check |-> ""]
      \/ \E b \in Agents : \E j \in DOMAIN Agenda[b] :
           /\ Agenda[b][j].kind \in Selective
           /\ s = [kind |-> "check", agent |-> b, target |-> Agenda[b][j].target,
                   check |-> Agenda[b][j].id]
  <2>1. CASE s = RunScope
    BY <2>1 DEF RunScope
  <2>2. CASE s \in AgentScopes
    BY <2>2 DEF AgentScopes
  <2>3. CASE s \in TargetScopes
    BY <2>3 DEF TargetScopes
  <2>4. CASE s \in CheckScopes
    BY <2>4 DEF CheckScopes
  <2>. QED BY <2>1, <2>2, <2>3, <2>4 DEF ValidScopes
<1>6. Covers(s, a, Agenda[a][i]) <=> Names(s, a, Agenda[a][i])
  BY <1>1, <1>2, <1>3, <1>4, <1>5
<1>. QED BY <1>6

(* Where agent a stands in its check, and what it knows of the requests:   *)
(* a check without a cause of its own, in a run that goes on, has no       *)
(* request against it.                                                     *)
Placed(a) ==
  /\ check[a].phase # "none" =>
       /\ eng = "round" /\ ~Done(a) /\ Here(a).kind \in Checked
       /\ Here(a).kind \in Selective \cup {"rotate"} => work[a].gate = "open"
  /\ check[a].phase = "none" => check[a].own = "none"

Informed(a) ==
  /\ check[a].own # "none" =>
       \E s \in IF check[a].own = "skip" THEN skipped ELSE canceled : Covers(s, a, Here(a))
  /\ check[a].phase = "paused" => \E s \in paused : Covers(s, a, Here(a))
  /\ check[a].phase # "none" /\ check[a].own = "none" /\ runCause = "none" =>
       \A s \in canceled \cup skipped : ~Covers(s, a, Here(a))

ControlInv == \A a \in Agents : Placed(a) /\ Informed(a)

LEMMA ControlFrame ==
  ASSUME NEW a \in Agents, Placed(a), Informed(a), UNCHANGED <<paused, skipped, canceled, eng>>,
         check'[a] = check[a], work'[a].pos = work[a].pos, work'[a].gate = work[a].gate,
         runCause' = "none" => runCause = "none"
  PROVE  Placed(a)' /\ Informed(a)'
  BY DEF Placed, Informed, Done, Here

LEMMA CauseStays ==
  ASSUME TInv, NEW a \in Agents, Worker(a) \/ PolicyTimeout(a)
  PROVE  runCause # "none" => runCause' = runCause
<1>1. /\ "pass" \in Outcomes /\ "skip" \in Outcomes /\ {} \in SUBSET AllProblems
      /\ round \in 0 .. Rounds /\ 0 \in 0 .. Rounds
  BY HarnessAssumption DEF Outcomes, TInv, TypeOK, RunTypeOK
<1>2. \/ Quiet \/ runCause' = runCause
      \/ \E o, ps, r : Publish(o, ps, r)
  BY DEF Worker, PolicyTimeout, EnterTarget, SkippedStep, PassOver, StartCheck, Refuse, Block,
         Admit, Dispatch, Returns, Delay, EndCheck, CleanupOp, LeaveTarget
<1>. QED BY <1>2 DEF Quiet, Publish

(* A step of agent a leaves the others alone.                              *)
LEMMA ControlOthers ==
  ASSUME TInv, ControlInv, NEW a \in Agents, Worker(a) \/ PolicyTimeout(a),
         Placed(a)' /\ Informed(a)'
  PROVE  ControlInv'
<1>1. runCause' = "none" => runCause = "none"
  BY CauseStays
<1>2. UNCHANGED <<paused, skipped, canceled, eng>>
  BY DEF Worker, PolicyTimeout, EnterTarget, SkippedStep, PassOver, StartCheck, Refuse, Block,
         Admit, Dispatch, Returns, Delay, EndCheck, CleanupOp, LeaveTarget, ctl, run
<1>3. ASSUME NEW b \in Agents \ {a} PROVE check'[b] = check[b] /\ work'[b] = work[b]
  <2>1. /\ work \in [Agents -> Works] /\ check \in [Agents -> Checks]
    BY DEF TInv, TypeOK, AgentsTypeOK
  <2>2. check' = check \/ \E c : Step(a, c)
    BY DEF Worker, PolicyTimeout, EnterTarget, SkippedStep, PassOver, StartCheck, Refuse, Block,
           Admit, Dispatch, Returns, Delay, EndCheck, CleanupOp, LeaveTarget
  <2>3. work' = work \/ \E w : work' = [work EXCEPT ![a] = w]
    BY DEF Worker, PolicyTimeout, EnterTarget, SkippedStep, PassOver, StartCheck, Refuse, Block,
           Admit, Dispatch, Returns, Delay, EndCheck, CleanupOp, LeaveTarget, Move, Attempted
  <2>. QED BY <2>1, <2>2, <2>3 DEF Step
<1>. QED BY <1>1, <1>2, <1>3, ControlFrame DEF ControlInv

(* An agent that moves on is in no check.                                  *)
LEMMA ControlMoves ==
  ASSUME TInv, TInv', ControlInv, NEW a \in Agents,
         EnterTarget(a) \/ SkippedStep(a) \/ PassOver(a) \/ LeaveTarget(a) \/ EndCheck(a)
  PROVE  ControlInv'
<1>1. check'[a].phase = "none" /\ check'[a].own = "none"
  <2>1. CASE EndCheck(a)
    <3>1. NoCheck \in Checks /\ NoCheck.phase = "none" /\ NoCheck.own = "none"
      BY HarnessAssumption DEF NoCheck, Checks, Phases, Outcomes
    <3>. QED BY <2>1, <3>1, StepFacts DEF EndCheck, TInv
  <2>2. CASE EnterTarget(a) \/ LeaveTarget(a)
    <3>1. check' = check /\ Here(a).kind \notin Checked
      BY <2>2 DEF EnterTarget, LeaveTarget, Kind, Checked
    <3>. QED BY <3>1 DEF ControlInv, Placed
  <2>3. CASE SkippedStep(a) \/ PassOver(a)
    BY <2>3 DEF SkippedStep, PassOver, ControlInv, Placed
  <2>. QED BY <2>1, <2>2, <2>3
<1>2. Placed(a)' /\ Informed(a)'
  BY <1>1 DEF Placed, Informed
<1>. QED BY <1>2, ControlOthers DEF Worker

LEMMA ControlStartCheck ==
  ASSUME TInv, ControlInv, NEW a \in Agents, StartCheck(a)
  PROVE  ControlInv'
<1> DEFINE c == [NoCheck EXCEPT !.phase = "wait", !.number = 1, !.own = OwnCause(a)]
<1>1. c.phase = "wait" /\ c.own = OwnCause(a)
  BY DEF NoCheck
<1>2. check'[a].phase = "wait" /\ check'[a].own = OwnCause(a)
  BY <1>1 DEF StartCheck, Step, TInv, TypeOK, AgentsTypeOK
<1>3. UNCHANGED <<paused, skipped, canceled, eng, work>>
  BY DEF StartCheck, run, ctl
<1>4. Placed(a)'
  BY <1>2, <1>3 DEF Placed, StartCheck, Kind, Done, Here
<1>5. runCause' = "none" => runCause = "none"
  BY CauseStays DEF Worker
<1>6. Informed(a)'
  <2>1. CASE runCause # "none"
    BY <1>2, <1>5, <2>1 DEF Informed, OwnCause
  <2>2. CASE runCause = "none" /\ \E s \in canceled : Covers(s, a, Here(a))
    BY <1>2, <1>3, <2>2 DEF Informed, OwnCause, Here
  <2>3. CASE runCause = "none" /\ ~(\E s \in canceled : Covers(s, a, Here(a)))
    BY <1>2, <1>3, <2>3 DEF Informed, OwnCause, Here
  <2>. QED BY <2>1, <2>2, <2>3
<1>. QED BY <1>4, <1>6, ControlOthers DEF Worker

(* A check under way keeps its place and its cause, and waits only where   *)
(* its scope is paused.                                                    *)
LEMMA ControlStays ==
  ASSUME TInv, ControlInv, NEW a \in Agents, Worker(a) \/ PolicyTimeout(a),
         UNCHANGED <<paused, skipped, canceled, eng>>,
         check[a].phase # "none", check'[a].phase # "none", check'[a].own = check[a].own,
         work'[a].pos = work[a].pos, work'[a].gate = work[a].gate,
         check'[a].phase = "paused" => check[a].phase = "paused" \/ Paused(a)
  PROVE  ControlInv'
<1>1. runCause' = "none" => runCause = "none"
  BY CauseStays
<1>2. Placed(a)'
  BY DEF ControlInv, Placed, Done, Here
<1>3. Informed(a)'
  BY <1>1 DEF ControlInv, Informed, Here, Paused
<1>. QED BY <1>2, <1>3, ControlOthers

LEMMA ControlInCheck ==
  ASSUME TInv, ControlInv, NEW a \in Agents,
         PolicyTimeout(a) \/ Refuse(a) \/ Block(a) \/ Returns(a) \/ Delay(a) \/ Admit(a)
           \/ Dispatch(a)
  PROVE  ControlInv'
<1>1. check[a] \in Checks /\ check \in [Agents -> Checks] /\ work \in [Agents -> Works]
  BY DEF TInv, TypeOK, AgentsTypeOK
<1>2. UNCHANGED <<paused, skipped, canceled, eng>>
  BY DEF PolicyTimeout, Refuse, Block, Returns, Delay, Admit, Dispatch, run, ctl
<1>3. check[a].phase # "none"
  BY DEF PolicyTimeout, Refuse, Block, Returns, Delay, Admit, Dispatch, Reached, InCheck
<1>4. work'[a].pos = work[a].pos /\ work'[a].gate = work[a].gate
  <2>1. work' = work \/ work' = Attempted(a)
    BY DEF PolicyTimeout, Refuse, Block, Returns, Delay, Admit, Dispatch
  <2>. QED BY <2>1, <1>1 DEF Attempted, Works
<1>5. /\ check'[a].phase # "none" /\ check'[a].own = check[a].own
      /\ check'[a].phase = "paused" => check[a].phase = "paused" \/ Paused(a)
  <2>1. \A o : Stopped(a, o).phase = "end" /\ Stopped(a, o).own = check[a].own
    BY <1>1 DEF Stopped, Checks
  <2>2. \A c : Step(a, c) => check'[a] = c
    BY <1>1 DEF Step
  <2>3. CASE PolicyTimeout(a)
    <3>1. /\ [check[a] EXCEPT !.late = TRUE].own = check[a].own
          /\ [check[a] EXCEPT !.late = TRUE].phase = check[a].phase
      BY <1>1 DEF Checks
    <3>. QED BY <1>3, <2>2, <2>3, <3>1 DEF PolicyTimeout
  <2>4. CASE Refuse(a)
    BY <2>1, <2>2, <2>4 DEF Refuse
  <2>5. CASE Block(a)
    <3>1. /\ [check[a] EXCEPT !.phase = "paused"].own = check[a].own
          /\ [check[a] EXCEPT !.phase = "paused"].phase = "paused"
      BY <1>1 DEF Checks
    <3>. QED BY <2>1, <2>2, <2>5, <3>1 DEF Block
  <2>6. CASE Returns(a)
    <3>1. PICK r \in EvaluateAttempt(a) :
            Step(a, [check[a] EXCEPT
              !.last = r[1], !.err = r[2],
              !.phase = IF r[1] \in {"pass", "canceled", "skip"} \/ LastTry(a)
                        THEN "end" ELSE "delay"])
      BY <2>6 DEF Returns
    <3> DEFINE p == IF r[1] \in {"pass", "canceled", "skip"} \/ LastTry(a) THEN "end" ELSE "delay"
               c == [check[a] EXCEPT !.last = r[1], !.err = r[2], !.phase = p]
    <3>2. check'[a] = c
      BY <2>2, <3>1
    <3>3. c.own = check[a].own /\ c.phase = p
      <4>. HIDE DEF p
      <4>. QED BY <1>1 DEF Checks
    <3>4. p \in {"end", "delay"}
      OBVIOUS
    <3>. HIDE DEF c, p
    <3>. QED BY <3>2, <3>3, <3>4
  <2>7. CASE Delay(a)
    <3>1. /\ [check[a] EXCEPT !.phase = "wait", !.number = @ + 1].own = check[a].own
          /\ [check[a] EXCEPT !.phase = "wait", !.number = @ + 1].phase = "wait"
      BY <1>1 DEF Checks
    <3>. QED BY <2>1, <2>2, <2>7, <3>1 DEF Delay
  <2>8. CASE Dispatch(a)
    <3>1. /\ [check[a] EXCEPT !.phase = "op"].own = check[a].own
          /\ [check[a] EXCEPT !.phase = "op"].phase = "op"
      BY <1>1 DEF Checks
    <3>. QED BY <2>2, <2>8, <3>1 DEF Dispatch
  <2>9. CASE Admit(a)
    <3>1. /\ [check[a] EXCEPT !.phase = "ready"].own = check[a].own
          /\ [check[a] EXCEPT !.phase = "ready"].phase = "ready"
      BY <1>1 DEF Checks
    <3>. QED BY <2>1, <2>2, <2>9, <3>1 DEF Admit
  <2>. QED BY <2>3, <2>4, <2>5, <2>6, <2>7, <2>8, <2>9
<1>. QED BY <1>2, <1>3, <1>4, <1>5, ControlStays DEF Worker

LEMMA ControlCleanup ==
  ASSUME TInv, ControlInv, NEW a \in Agents, CleanupOp(a)
  PROVE  ControlInv'
<1>1. UNCHANGED <<paused, skipped, canceled, eng, check, runCause>>
  BY DEF CleanupOp, run, ctl
<1>2. work'[a].pos = work[a].pos /\ work'[a].gate = work[a].gate
  <2>1. PICK q : work' = [work EXCEPT ![a].cleaned = q]
    BY DEF CleanupOp
  <2>. QED BY <2>1 DEF TInv, TypeOK, AgentsTypeOK, Works
<1>. QED BY <1>1, <1>2, ControlFrame, ControlOthers DEF Worker, ControlInv

LEMMA ControlEngine ==
  ASSUME TInv, ControlInv, Engine
  PROVE  ControlInv'
<1>1. \A a \in Agents : check[a].phase = "none" /\ check[a].own = "none"
  BY DEF Engine, Start, StartRound, Barrier, LeaveLoop, EndRun, NotifyEnding, CloseSinks,
         DropSinks, NotifyFinished, Return, ControlInv, Placed
<1>2. check' = check
  BY DEF Engine, Start, StartRound, Barrier, LeaveLoop, EndRun, NotifyEnding, CloseSinks,
         DropSinks, NotifyFinished, Return
<1>. QED BY <1>1, <1>2 DEF ControlInv, Placed, Informed

(* A request reaches every check it covers, and wakes every one that waits.*)
LEMMA ControlRequest ==
  ASSUME TInv, ControlInv, NEW r \in Requests, Request(r)
  PROVE  ControlInv'
<1> SUFFICES ASSUME NEW a \in Agents PROVE Placed(a)' /\ Informed(a)'
  BY DEF ControlInv
<1> DEFINE w == IF Interrupted(a, r) THEN r.action ELSE check[a].own
           p == IF check[a].phase = "paused" /\ Wake(r) THEN "woken" ELSE check[a].phase
<1>1. check'[a].own = w /\ check'[a].phase = p
  <2>1. check'[a] = [check[a] EXCEPT !.own = w, !.phase = p]
    BY DEF Request
  <2>2. check[a] \in Checks
    BY DEF TInv, TypeOK, AgentsTypeOK
  <2>. HIDE DEF w, p
  <2>. QED BY <2>1, <2>2 DEF Checks
<1>2. UNCHANGED <<eng, work>> /\ Placed(a) /\ Informed(a)
  BY DEF Request, run, ControlInv
<1>3. p = "none" <=> check[a].phase = "none"
  OBVIOUS
<1>4. p # "paused"
  BY DEF Wake
<1>5. w # "none" => check[a].phase # "none"
  BY <1>2 DEF Interrupted, Placed
<1>6. Placed(a)'
  BY <1>1, <1>2, <1>3, <1>5 DEF Placed, Done, Here
<1>7. runCause' = "none" => runCause = "none"
  BY DEF Request
<1>8. /\ skipped \subseteq skipped' /\ canceled \subseteq canceled'
      /\ r.action = "skip" => skipped' = skipped \cup {r.scope} /\ canceled' = canceled
      /\ r.action = "cancel" => canceled' = canceled \cup {r.scope} /\ skipped' = skipped
      /\ r.action \notin {"skip", "cancel"} => UNCHANGED <<skipped, canceled>>
  BY DEF Request
<1>9. CASE Interrupted(a, r)
  <2>1. w = r.action /\ Covers(r.scope, a, Here(a)) /\ r.action \in {"skip", "cancel"}
    BY <1>9 DEF Interrupted
  <2>. HIDE DEF w, p
  <2>2. CASE r.action = "skip"
    <3>1. check'[a].own = "skip" /\ r.scope \in skipped'
      BY <2>1, <2>2, <1>1, <1>8
    <3>. QED BY <3>1, <2>1, <1>1, <1>2, <1>4, <1>6 DEF Informed, Here
  <2>3. CASE r.action = "cancel"
    <3>1. check'[a].own = "cancel" /\ r.scope \in canceled'
      BY <2>1, <2>3, <1>1, <1>8
    <3>. QED BY <3>1, <2>1, <1>1, <1>2, <1>4, <1>6 DEF Informed, Here
  <2>. QED BY <2>1, <2>2, <2>3
<1>10. CASE ~Interrupted(a, r)
  <2>1. w = check[a].own
    BY <1>10
  <2>2. check[a].phase # "none" /\ check[a].own = "none" /\ runCause = "none"
        /\ r.action \in {"skip", "cancel"} => ~Covers(r.scope, a, Here(a))
    BY <1>10 DEF Interrupted, Cause
  <2>. HIDE DEF w, p
  <2>4. check'[a].own # "none" =>
          \E s \in IF check'[a].own = "skip" THEN skipped' ELSE canceled' : Covers(s, a, Here(a))
    BY <2>1, <1>1, <1>2, <1>8 DEF Informed
  <2>5. /\ check[a].phase # "none" /\ check[a].own = "none" /\ runCause = "none"
        => \A s \in canceled' \cup skipped' : ~Covers(s, a, Here(a))
    <3>1. CASE r.action \in {"skip", "cancel"}
      BY <3>1, <2>2, <1>2, <1>8 DEF Informed
    <3>2. CASE r.action \notin {"skip", "cancel"}
      BY <3>2, <1>2, <1>8 DEF Informed
    <3>. QED BY <3>1, <3>2
  <2>. QED BY <2>1, <2>4, <2>5, <1>1, <1>2, <1>3, <1>4, <1>6, <1>7 DEF Informed, Here
<1>. QED BY <1>6, <1>9, <1>10

LEMMA ControlInit == Init => ControlInv
  BY DEF Init, ControlInv, Placed, Informed, NoCheck

LEMMA ControlNext == TInv /\ TInv' /\ ControlInv /\ [Next]_vars => ControlInv'
<1> SUFFICES ASSUME TInv, TInv', ControlInv, [Next]_vars PROVE ControlInv'
  OBVIOUS
<1>1. CASE Engine
  BY <1>1, ControlEngine
<1>2. ASSUME NEW a \in Agents, Worker(a) \/ PolicyTimeout(a) PROVE ControlInv'
  BY <1>2, ControlMoves, ControlStartCheck, ControlInCheck, ControlCleanup DEF Worker
<1>3. ASSUME NEW r \in Requests, Request(r) PROVE ControlInv'
  BY <1>3, ControlRequest
<1>4. CASE ExternalCancel
  BY <1>4, ControlFrame DEF ExternalCancel, ControlInv, run, ctl
<1>5. CASE UNCHANGED vars
  BY <1>5, ControlFrame DEF vars, ControlInv, run, ctl
<1>. QED BY <1>1, <1>2, <1>3, <1>4, <1>5 DEF Next

(* In every run each agent is where its check says, and a check that goes  *)
(* on without a cause has no request against it (Controls.context,         *)
(* Controls.request, Controls.wait).                                       *)
THEOREM Controlled == Spec => []ControlInv
  BY TypeCorrect, ControlInit, ControlNext, PTL DEF Spec

LEMMA SelectedNames ==
  ASSUME TInv, ControlInv, NEW a \in Agents, check[a].phase # "none",
         NEW s \in ValidScopes
  PROVE  Covers(s, a, Here(a)) <=> Names(s, a, Here(a))
<1>1. ~Done(a) /\ Here(a).kind \in Checked
  BY DEF ControlInv, Placed
<1>2. work[a].pos \in DOMAIN Agenda[a]
  BY <1>1, PlaceFacts DEF TInv
<1>. QED BY <1>1, <1>2, CoversNames DEF Here

(* Only the selected scope is interrupted, whatever the plan and however   *)
(* requests interleave with checks (Controls.request, Controls.context).   *)
THEOREM ScopedInterrupts == Spec => []InterruptsSelected
<1>1. TInv /\ ControlInv => InterruptsSelected
  <2> SUFFICES ASSUME TInv, ControlInv, NEW a \in Agents, check[a].own # "none"
               PROVE  \E s \in IF check[a].own = "skip" THEN skipped ELSE canceled :
                        Names(s, a, Here(a))
    BY DEF InterruptsSelected
  <2>1. check[a].phase # "none"
    BY DEF ControlInv, Placed
  <2>2. PICK s \in IF check[a].own = "skip" THEN skipped ELSE canceled : Covers(s, a, Here(a))
    BY DEF ControlInv, Informed
  <2>3. s \in ValidScopes
    BY DEF TInv, TypeOK, RunTypeOK
  <2>. QED BY <2>1, <2>2, <2>3, SelectedNames
<1>. QED BY <1>1, TypeCorrect, Controlled, PTL

(* A check waits only while a paused scope covers it: every resume wakes   *)
(* it, however many agents and requests there are (Controls.wait).         *)
THEOREM NoLostWakeup == Spec => []BlockedOnlyWhilePaused
<1>1. TInv /\ ControlInv => BlockedOnlyWhilePaused
  <2> SUFFICES ASSUME TInv, ControlInv, NEW a \in Agents, check[a].phase = "paused"
               PROVE  \E s \in paused : Names(s, a, Here(a))
    BY DEF BlockedOnlyWhilePaused
  <2>1. PICK s \in paused : Covers(s, a, Here(a))
    BY DEF ControlInv, Informed
  <2>2. s \in ValidScopes
    BY DEF TInv, TypeOK, RunTypeOK
  <2>. QED BY <2>1, <2>2, SelectedNames
<1>. QED BY <1>1, TypeCorrect, Controlled, PTL

-----------------------------------------------------------------------------
(* What an agent did in its round                                          *)

Moves(a) == EnterTarget(a) \/ SkippedStep(a) \/ PassOver(a) \/ LeaveTarget(a) \/ EndCheck(a)

Stays(a) == PolicyTimeout(a) \/ StartCheck(a) \/ Refuse(a) \/ Block(a) \/ Admit(a) \/ Returns(a)
            \/ Delay(a)

LEMMA Workers ==
  ASSUME NEW a \in Agents, Worker(a) \/ PolicyTimeout(a)
  PROVE  Moves(a) \/ Stays(a) \/ Dispatch(a) \/ CleanupOp(a)
  BY DEF Worker, Moves, Stays

(* A step of agent a leaves what the others did alone.                     *)
LEMMA OthersKept ==
  ASSUME TInv, NEW a \in Agents, Worker(a) \/ PolicyTimeout(a)
  PROVE  /\ UNCHANGED <<run, ctl>>
         /\ \A b \in Agents \ {a} :
              /\ work'[b] = work[b] /\ steps'[b] = steps[b] /\ check'[b] = check[b]
              /\ agentOutcome'[b] = agentOutcome[b] /\ dispatched'[b] = dispatched[b]
<1>1. /\ work \in [Agents -> Works] /\ check \in [Agents -> Checks]
      /\ steps \in [Agents -> Seq(ItemOutcomes)] /\ agentOutcome \in [Agents -> Outcomes]
      /\ DOMAIN dispatched = Agents
  BY DEF TInv, TypeOK, AgentsTypeOK
<1>2. UNCHANGED <<run, ctl>>
  BY DEF Worker, PolicyTimeout, EnterTarget, SkippedStep, PassOver, StartCheck, Refuse, Block,
         Admit, Dispatch, Returns, Delay, EndCheck, CleanupOp, LeaveTarget
<1>3. check' = check \/ \E c : Step(a, c)
  BY DEF Worker, PolicyTimeout, EnterTarget, SkippedStep, PassOver, StartCheck, Refuse, Block,
         Admit, Dispatch, Returns, Delay, EndCheck, CleanupOp, LeaveTarget
<1>4. work' = work \/ \E w : work' = [work EXCEPT ![a] = w]
  BY DEF Worker, PolicyTimeout, EnterTarget, SkippedStep, PassOver, StartCheck, Refuse, Block,
         Admit, Dispatch, Returns, Delay, EndCheck, CleanupOp, LeaveTarget, Move, Attempted
<1>5. steps' = steps \/ \E o, w : Move(a, o, w)
  BY DEF Worker, PolicyTimeout, EnterTarget, SkippedStep, PassOver, StartCheck, Refuse, Block,
         Admit, Dispatch, Returns, Delay, EndCheck, CleanupOp, LeaveTarget
<1>6. agentOutcome' = agentOutcome \/ \E o : Progress(a, o)
  BY DEF Worker, PolicyTimeout, EnterTarget, SkippedStep, PassOver, StartCheck, Refuse, Block,
         Admit, Dispatch, Returns, Delay, EndCheck, CleanupOp, LeaveTarget
<1>7. dispatched' = dispatched \/ \E d : dispatched' = [dispatched EXCEPT ![a] = d]
  BY DEF Worker, PolicyTimeout, EnterTarget, SkippedStep, PassOver, StartCheck, Refuse, Block,
         Admit, Dispatch, Returns, Delay, EndCheck, CleanupOp, LeaveTarget
<1>8. ASSUME NEW b \in Agents \ {a}
      PROVE  /\ work'[b] = work[b] /\ steps'[b] = steps[b] /\ check'[b] = check[b]
             /\ agentOutcome'[b] = agentOutcome[b] /\ dispatched'[b] = dispatched[b]
  <2>1. check'[b] = check[b]
    BY <1>1, <1>3 DEF Step
  <2>2. work'[b] = work[b]
    BY <1>1, <1>4
  <2>3. steps'[b] = steps[b]
    BY <1>1, <1>5 DEF Move
  <2>4. agentOutcome'[b] = agentOutcome[b]
    BY <1>1, <1>6 DEF Progress
  <2>5. dispatched'[b] = dispatched[b]
    BY <1>1, <1>7
  <2>. QED BY <2>1, <2>2, <2>3, <2>4, <2>5
<1>. QED BY <1>2, <1>8

(* Execute and the operator leave it alone too, but for a new round.       *)
LEMMA AgentsKept ==
  ASSUME Engine \/ (\E r \in Requests : Request(r)) \/ ExternalCancel \/ UNCHANGED vars
  PROVE  \/ /\ StartRound /\ eng' = "round"
            /\ \A a \in Agents : /\ work'[a] = AtStart /\ steps'[a] = <<>>
                                 /\ agentOutcome'[a] = "pass" /\ dispatched'[a] = {}
         \/ /\ ~StartRound \/ eng' # "round"
            /\ UNCHANGED <<work, steps, agentOutcome, dispatched>>
            /\ eng' = "round" => eng = "round" /\ round' = round
  BY DEF Engine, Start, StartRound, Barrier, LeaveLoop, EndRun, NotifyEnding, CloseSinks,
         DropSinks, NotifyFinished, Return, Request, ExternalCancel, vars, run

LEMMA AfterCheckFields ==
  ASSUME TypeOK, NEW a \in Agents, ~Done(a), NEW o \in Outcomes, NEW w \in AfterCheck(a, o)
  PROVE  /\ w.attempted = work[a].attempted /\ w.cleaned = work[a].cleaned
         /\ w.gate = "open" => work[a].gate = "open"
         /\ w.gate = "open" /\ Here(a).kind \in Inside =>
              \/ o = "pass"
              \/ Here(a).kind \in {"check", "cleanup"}
                 /\ (Here(a).kind = "check" => ~Here(a).required /\ o \notin {"canceled", "skip"})
         /\ \/ w.rotated = work[a].rotated
            \/ /\ Here(a).kind = "rotateBefore" /\ o = "pass"
               /\ w.rotated = work[a].rotated \cup {Here(a).ssid}
<1> DEFINE v == work[a]
<1>1. v \in Works
  BY PlaceFacts
<1>2. CASE Here(a).kind = "preflight" /\ o = "pass"
  <2>1. PICK b \in SUBSET Bands : w = [v EXCEPT !.unsupported = b]
    BY <1>2 DEF AfterCheck
  <2>2. /\ w.attempted = v.attempted /\ w.cleaned = v.cleaned /\ w.gate = v.gate
        /\ w.rotated = v.rotated
    BY <1>1, <2>1 DEF Works
  <2>. QED BY <1>2, <2>2
<1>3. CASE Here(a).kind = "rotateBefore" /\ o = "pass"
  <2>1. w = [v EXCEPT !.rotated = @ \cup {Here(a).ssid}]
    BY <1>3 DEF AfterCheck
  <2>2. /\ w.attempted = v.attempted /\ w.cleaned = v.cleaned /\ w.gate = v.gate
        /\ w.rotated = v.rotated \cup {Here(a).ssid}
    BY <1>1, <2>1 DEF Works
  <2>. QED BY <1>3, <2>2 DEF Inside, Selective
<1>4. CASE /\ o # "pass"
           /\ \/ Here(a).kind \in {"rotate", "connect", "wait"}
              \/ Here(a).kind = "check" /\ (Here(a).required \/ o \in {"canceled", "skip"})
  <2>1. PICK g \in {"skip", "prereq"} : w = [v EXCEPT !.gate = g]
    BY <1>4 DEF AfterCheck
  <2>2. /\ w.attempted = v.attempted /\ w.cleaned = v.cleaned /\ w.gate = g
        /\ w.rotated = v.rotated
    BY <1>1, <2>1 DEF Works
  <2>. QED BY <2>2
<1>5. CASE ~ \/ Here(a).kind \in {"preflight", "rotateBefore"} /\ o = "pass"
             \/ /\ o # "pass"
                /\ \/ Here(a).kind \in {"rotate", "connect", "wait"}
                   \/ Here(a).kind = "check" /\ (Here(a).required \/ o \in {"canceled", "skip"})
  <2>1. w = v
    BY <1>5 DEF AfterCheck
  <2>. QED BY <2>1, <1>5 DEF Inside, Selective
<1>. QED BY <1>2, <1>3, <1>4, <1>5

(* What a move changes besides the place, o being what it leaves there.    *)
MoveOf(a, o) ==
  \/ /\ EnterTarget(a) /\ o = "none"
     /\ work'[a].gate = "skip" \/ (work'[a].gate = "open" /\ ~SkippedTarget(a))
     /\ work'[a].attempted = work[a].attempted /\ work'[a].cleaned = work[a].cleaned
     /\ work'[a].rotated = work[a].rotated
  \/ /\ (SkippedStep(a) /\ o = "prereq") \/ (PassOver(a) /\ o = "none")
     /\ work'[a].gate = work[a].gate
     /\ work'[a].attempted = work[a].attempted /\ work'[a].cleaned = work[a].cleaned
     /\ work'[a].rotated = work[a].rotated
  \/ /\ LeaveTarget(a) /\ o = CleanupOutcome(a)
     /\ work'[a].gate = "open" /\ work'[a].attempted = FALSE /\ work'[a].cleaned = <<>>
     /\ work'[a].rotated = work[a].rotated
  \/ /\ EndCheck(a) /\ o = FinalOutcome(a)
     /\ \E w \in AfterCheck(a, o) :
          /\ work'[a].gate = w.gate /\ work'[a].attempted = w.attempted
          /\ work'[a].cleaned = w.cleaned /\ work'[a].rotated = w.rotated

(* A move goes one place on.                                               *)
LEMMA MovesOn ==
  ASSUME TInv, NEW a \in Agents, Moves(a)
  PROVE  /\ ~Done(a) /\ eng = "round" /\ dispatched' = dispatched
         /\ work[a].pos \in DOMAIN Agenda[a] /\ Len(steps[a]) = work[a].pos - 1
         /\ work'[a].pos = work[a].pos + 1
         /\ \E o \in ItemOutcomes :
              /\ MoveOf(a, o) /\ steps'[a] = Append(steps[a], o) /\ steps'[a][work[a].pos] = o
         /\ \A j \in 1 .. work[a].pos - 1 : steps'[a][j] = steps[a][j]
<1> USE DEF TInv
<1> DEFINE v == work[a]
<1>1. ~Done(a) /\ eng = "round" /\ dispatched' = dispatched
  BY DEF Moves, EnterTarget, SkippedStep, PassOver, LeaveTarget, EndCheck, Kind, Reached, InCheck
<1>2. v \in Works /\ v.pos \in DOMAIN Agenda[a] /\ v.pos \in Nat \ {0}
  BY <1>1, PlaceFacts
<1>3. Len(steps[a]) = v.pos - 1 /\ steps[a] \in Seq(ItemOutcomes)
  BY DEF TypeOK, AgentsTypeOK
<1>4. ASSUME NEW o \in ItemOutcomes, NEW w \in Works, Move(a, o, w)
      PROVE  /\ work'[a].pos = v.pos + 1 /\ work'[a].gate = w.gate
             /\ work'[a].attempted = w.attempted /\ work'[a].cleaned = w.cleaned
             /\ work'[a].rotated = w.rotated
             /\ steps'[a] = Append(steps[a], o)
  <2>1. v.pos + 1 \in Nat \ {0}
    BY <1>2
  <2>2. work'[a] = [w EXCEPT !.pos = v.pos + 1] /\ steps'[a] = Append(steps[a], o)
    BY <1>1, <1>4, MoveType
  <2>. QED BY <2>1, <2>2, WorksExcept
<1>5. /\ "none" \in ItemOutcomes /\ "prereq" \in ItemOutcomes
      /\ CleanupOutcome(a) \in ItemOutcomes
  BY CleanupOutcomeType DEF ItemOutcomes
<1>6. /\ work'[a].pos = v.pos + 1
      /\ \E o \in ItemOutcomes : MoveOf(a, o) /\ steps'[a] = Append(steps[a], o)
  <2>1. CASE EnterTarget(a)
    <3>1. \A g \in {"skip", "open"} : LET w == [v EXCEPT !.gate = g] IN
            /\ w \in Works /\ w.gate = g /\ w.attempted = v.attempted /\ w.cleaned = v.cleaned
            /\ w.rotated = v.rotated
      BY <1>2 DEF Works
    <3>2. \/ Move(a, "none", [v EXCEPT !.gate = "skip"])
          \/ ~SkippedTarget(a) /\ Move(a, "none", [v EXCEPT !.gate = "open"])
      BY <2>1 DEF EnterTarget
    <3>. QED BY <2>1, <3>1, <3>2, <1>4, <1>5 DEF MoveOf
  <2>2. CASE SkippedStep(a) \/ PassOver(a)
    <3>1. CASE SkippedStep(a)
      <4>1. Move(a, "prereq", v)
        BY <3>1 DEF SkippedStep
      <4>2. work'[a].pos = v.pos + 1 /\ steps'[a] = Append(steps[a], "prereq")
            /\ work'[a].gate = v.gate /\ work'[a].attempted = v.attempted
            /\ work'[a].cleaned = v.cleaned /\ work'[a].rotated = v.rotated
        BY <4>1, <1>2, <1>4, <1>5
      <4>3. MoveOf(a, "prereq")
        BY <3>1, <4>2 DEF MoveOf
      <4>. QED BY <4>2, <4>3, <1>5
    <3>2. CASE PassOver(a)
      <4>1. Move(a, "none", v)
        BY <3>2 DEF PassOver
      <4>. QED BY <3>2, <4>1, <1>2, <1>4, <1>5 DEF MoveOf
    <3>. QED BY <2>2, <3>1, <3>2
  <2>3. CASE LeaveTarget(a)
    <3> DEFINE w == [v EXCEPT !.gate = "open", !.attempted = FALSE, !.cleaned = <<>>]
    <3>1. w \in Works /\ w.gate = "open" /\ w.attempted = FALSE /\ w.cleaned = <<>>
          /\ w.rotated = v.rotated
      <4>1. <<>> \in Seq([op : Cleanups, outcome : Outcomes])
        OBVIOUS
      <4>. QED BY <4>1, <1>2 DEF Works
    <3>2. Move(a, CleanupOutcome(a), w)
      BY <2>3 DEF LeaveTarget
    <3>. HIDE DEF w
    <3>. QED BY <2>3, <3>1, <3>2, <1>4, <1>5 DEF MoveOf
  <2>4. CASE EndCheck(a)
    <3>1. FinalOutcome(a) \in Outcomes /\ FinalOutcome(a) \in ItemOutcomes
      BY DEF FinalOutcome, Outcomes, ItemOutcomes, TypeOK, AgentsTypeOK, Checks
    <3>2. PICK w \in AfterCheck(a, FinalOutcome(a)) : Move(a, FinalOutcome(a), w)
      BY <2>4 DEF EndCheck
    <3>3. w \in Works
      BY <1>1, <3>1, AfterCheckType
    <3>. QED BY <2>4, <3>1, <3>2, <3>3, <1>4 DEF MoveOf
  <2>. QED BY <2>1, <2>2, <2>3, <2>4 DEF Moves
<1>7. PICK o \in ItemOutcomes : MoveOf(a, o) /\ steps'[a] = Append(steps[a], o)
  BY <1>6
<1>8. /\ steps'[a][v.pos] = o
      /\ \A j \in 1 .. v.pos - 1 : steps'[a][j] = steps[a][j]
  BY <1>2, <1>3, <1>7
<1>. QED BY <1>1, <1>2, <1>3, <1>6, <1>7, <1>8

(* Within a check the place stays.                                         *)
LEMMA StaysPut ==
  ASSUME NEW a \in Agents, Stays(a)
  PROVE  UNCHANGED <<work, steps, agentOutcome, dispatched>>
  BY DEF Stays, PolicyTimeout, StartCheck, Refuse, Block, Admit, Returns, Delay

LEMMA DispatchFacts ==
  ASSUME TInv, ControlInv, NEW a \in Agents, Dispatch(a)
  PROVE  /\ UNCHANGED <<steps, agentOutcome>> /\ ~Done(a) /\ eng = "round"
         /\ work'[a].pos = work[a].pos /\ work'[a].gate = work[a].gate
         /\ work'[a].cleaned = work[a].cleaned /\ work'[a].rotated = work[a].rotated
         /\ Here(a).kind \in Checked /\ check[a].phase # "none"
         /\ work'[a].attempted = (work[a].attempted \/ Here(a).kind = "connect")
         /\ dispatched' = [dispatched EXCEPT ![a] = @ \cup {work[a].pos}]
<1>1. work[a] \in Works /\ work \in [Agents -> Works]
  BY DEF TInv, TypeOK, AgentsTypeOK
<1>2. /\ UNCHANGED <<steps, agentOutcome>> /\ ~Done(a) /\ eng = "round"
      /\ check[a].phase # "none"
  BY DEF Dispatch, Reached, InCheck
<1>3. Here(a).kind \in Checked
  BY <1>2 DEF ControlInv, Placed
<1> DEFINE w == [work[a] EXCEPT !.attempted = @ \/ Here(a).kind = "connect"]
<1>4. work' = [work EXCEPT ![a] = w] /\ dispatched' = [dispatched EXCEPT ![a] = @ \cup {work[a].pos}]
  BY DEF Dispatch, Attempted
<1>5. /\ w.pos = work[a].pos /\ w.gate = work[a].gate /\ w.cleaned = work[a].cleaned
      /\ w.rotated = work[a].rotated /\ w.attempted = (work[a].attempted \/ Here(a).kind = "connect")
  BY <1>1 DEF Works
<1>6. work'[a] = w
  BY <1>4, <1>1
<1>. HIDE DEF w
<1>. QED BY <1>2, <1>3, <1>4, <1>5, <1>6

LEMMA CleanupOpFacts ==
  ASSUME TInv, NEW a \in Agents, CleanupOp(a)
  PROVE  /\ UNCHANGED <<steps, agentOutcome, dispatched>> /\ Kind(a, {"cleanup"})
         /\ work'[a].pos = work[a].pos /\ work'[a].gate = work[a].gate
         /\ work'[a].attempted = work[a].attempted /\ work'[a].rotated = work[a].rotated
         /\ work[a].attempted /\ outcome' \in {outcome, "fail"}
         /\ Len(work[a].cleaned) + 1 \in DOMAIN Here(a).after
         /\ \E o \in Outcomes :
              /\ work'[a].cleaned =
                   Append(work[a].cleaned,
                          [op |-> Here(a).after[Len(work[a].cleaned) + 1], outcome |-> o])
              /\ o = "pass" \/ outcome' = "fail"
<1>1. PICK o \in Outcomes :
        /\ work' = [work EXCEPT ![a].cleaned =
                     Append(@, [op |-> Here(a).after[Len(@) + 1], outcome |-> o])]
        /\ o = "pass" \/ outcome' = "fail"
        /\ Len(work[a].cleaned) + 1 \in DOMAIN Here(a).after
  BY CleanupOpType
<1>2. work \in [Agents -> Works] /\ work[a] \in Works
  BY DEF TInv, TypeOK, AgentsTypeOK
<1> DEFINE c == Append(work[a].cleaned,
                       [op |-> Here(a).after[Len(work[a].cleaned) + 1], outcome |-> o])
<1>3. work' = [work EXCEPT ![a] = [work[a] EXCEPT !.cleaned = c]]
  BY <1>1
<1>. HIDE DEF c
<1>4. /\ work'[a].cleaned = c /\ work'[a].pos = work[a].pos /\ work'[a].gate = work[a].gate
      /\ work'[a].attempted = work[a].attempted /\ work'[a].rotated = work[a].rotated
  BY <1>2, <1>3 DEF Works
<1>5. work[a].attempted
  <2>1. CleanupLeft(a) > 0 /\ work[a].attempted \in BOOLEAN
    BY <1>2 DEF CleanupOp, Works
  <2>2. ~work[a].attempted => CleanupLeft(a) = 0
    BY DEF CleanupLeft, CleanupContext
  <2>. QED BY <2>1, <2>2
<1>6. UNCHANGED <<steps, agentOutcome, dispatched>> /\ Kind(a, {"cleanup"})
  BY DEF CleanupOp
<1>. QED BY <1>1, <1>4, <1>5, <1>6, CleanupOpType DEF c

-----------------------------------------------------------------------------
(* Prerequisites                                                           *)

(* The block of a target: the items before one of its items are its own    *)
(* "target" item and the items of the block in between.                    *)
LEMMA BlockFacts ==
  ASSUME NEW a \in Agents, NEW i \in DOMAIN Agenda[a], Agenda[a][i].kind \in Inside
  PROVE  /\ i - 1 \in DOMAIN Agenda[a] /\ i \in Nat /\ i > 1
         /\ Agenda[a][i - 1].kind \in (Inside \ {"cleanup"}) \cup {"target"}
         /\ Agenda[a][i - 1].ssid = Agenda[a][i].ssid
         /\ Agenda[a][i - 1].rotation = Agenda[a][i].rotation
         /\ Agenda[a][i - 1].kind = "target" =>
              Before(a, i) = {i - 1} /\ ~Agenda[a][i - 1].required
         /\ Agenda[a][i - 1].kind # "target" => Before(a, i) = Before(a, i - 1) \cup {i - 1}
<1>1. i \in 1 .. Len(Agenda[a]) /\ Len(Agenda[a]) \in Nat /\ i \in Nat
  BY AgendaFacts
<1> DEFINE k == i - 1
<1>2. /\ i > 1 /\ Agenda[a][k].kind \in (Inside \ {"cleanup"}) \cup {"target"}
      /\ Agenda[a][k].target = Agenda[a][i].target
      /\ Agenda[a][k].ssid = Agenda[a][i].ssid /\ Agenda[a][k].rotation = Agenda[a][i].rotation
  BY AgendaAssumption
<1>3. k \in DOMAIN Agenda[a] /\ k \in 1 .. Len(Agenda[a])
  BY <1>1, <1>2, AgendaFacts
<1>4. Agenda[a][k].kind \notin {"preflight", "rotateBefore"}
  BY <1>2 DEF Inside, Selective
<1>5. Agenda[a][k].kind = "target" => Before(a, i) = {k} /\ ~Agenda[a][k].required
  <2> SUFFICES ASSUME Agenda[a][k].kind = "target"
               PROVE  Before(a, i) = {k} /\ ~Agenda[a][k].required
    OBVIOUS
  <2>1. /\ ~Agenda[a][k].required
        /\ \A j \in 1 .. k - 1 : Agenda[a][j].target = Agenda[a][k].target =>
             Agenda[a][j].kind \in {"preflight", "rotateBefore"}
    BY <1>3, AgendaAssumption
  <2>2. \A j \in 1 .. i - 1 : j = k \/ j \in 1 .. k - 1
    BY <1>1
  <2>. HIDE DEF k
  <2>3. k \in 1 .. i - 1
    BY <1>1, <1>2 DEF k
  <2>. QED BY <2>1, <2>2, <2>3, <1>2, <1>4 DEF Before
<1>6. Before(a, i) = Before(a, k) \cup {k}
  <2>1. 1 .. i - 1 = (1 .. k - 1) \cup {k}
    BY <1>1, <1>2
  <2>. HIDE DEF k
  <2>. QED BY <2>1, <1>2, <1>4 DEF Before
<1>. QED BY <1>1, <1>2, <1>3, <1>5, <1>6

(* While the checks of a target may go on, the required items before the   *)
(* agent's place passed and none was skipped or canceled; a rotation that  *)
(* counts has passed.                                                      *)
Ready(a, i) ==
  /\ \A j \in Before(a, i) : /\ Agenda[a][j].required => steps[a][j] = "pass"
                             /\ steps[a][j] \notin {"skip", "canceled"}
  /\ Agenda[a][i].rotation = "per_round" => Agenda[a][i].ssid \in work[a].rotated

Rotations(a) == \A x \in work[a].rotated : \E j \in 1 .. work[a].pos - 1 :
  Agenda[a][j].kind = "rotateBefore" /\ Agenda[a][j].ssid = x /\ steps[a][j] = "pass"

PrerequisiteInv == \A a \in Agents :
  /\ Kind(a, Inside) /\ work[a].gate = "open" => Ready(a, work[a].pos)
  /\ Rotations(a)

LEMMA PrerequisiteFrame ==
  ASSUME PrerequisiteInv, NEW a \in Agents, steps'[a] = steps[a],
         work'[a].pos = work[a].pos, work'[a].gate = work[a].gate,
         work'[a].rotated = work[a].rotated, eng' = "round" => eng = "round"
  PROVE  /\ (Kind(a, Inside) /\ work[a].gate = "open" => Ready(a, work[a].pos))'
         /\ Rotations(a)'
<1>1. Rotations(a)'
  BY DEF PrerequisiteInv, Rotations
<1>2. Kind(a, Inside)' => Kind(a, Inside)
  BY DEF Kind, Done, Here
<1>3. Ready(a, work[a].pos) => Ready(a, work[a].pos)'
  BY DEF Ready, Before
<1>. QED BY <1>1, <1>2, <1>3 DEF PrerequisiteInv

LEMMA PrerequisiteMove ==
  ASSUME TInv, TInv', ControlInv, PrerequisiteInv, NEW a \in Agents, Moves(a)
  PROVE  /\ (Kind(a, Inside) /\ work[a].gate = "open" => Ready(a, work[a].pos))'
         /\ Rotations(a)'
<1> DEFINE p == work[a].pos
<1>1. /\ ~Done(a) /\ eng = "round" /\ p \in DOMAIN Agenda[a] /\ p \in Nat \ {0}
      /\ work'[a].pos = p + 1
      /\ \A j \in 1 .. p - 1 : steps'[a][j] = steps[a][j]
  BY MovesOn, PlaceFacts DEF TInv
<1>2. PICK o \in ItemOutcomes : MoveOf(a, o) /\ steps'[a][p] = o
  BY MovesOn
<1>3. EndCheck(a) =>
        /\ o \in Outcomes /\ Here(a).kind \in Checked
        /\ Here(a).kind \in Selective \cup {"rotate"} => work[a].gate = "open"
        /\ \E w \in AfterCheck(a, o) : work'[a].gate = w.gate /\ work'[a].rotated = w.rotated
  <2> SUFFICES ASSUME EndCheck(a)
               PROVE  /\ o \in Outcomes /\ Here(a).kind \in Checked
                      /\ Here(a).kind \in Selective \cup {"rotate"} => work[a].gate = "open"
                      /\ \E w \in AfterCheck(a, o) :
                           work'[a].gate = w.gate /\ work'[a].rotated = w.rotated
    OBVIOUS
  <2>1. FinalOutcome(a) \in Outcomes
    BY DEF FinalOutcome, Outcomes, TInv, TypeOK, AgentsTypeOK, Checks
  <2>2. check[a].phase = "end"
    BY DEF EndCheck, Reached, InCheck
  <2>3. /\ Here(a).kind \in Checked
        /\ Here(a).kind \in Selective \cup {"rotate"} => work[a].gate = "open"
    BY <2>2 DEF ControlInv, Placed
  <2>4. o = FinalOutcome(a)
        /\ \E w \in AfterCheck(a, o) : work'[a].gate = w.gate /\ work'[a].rotated = w.rotated
    <3>1. Here(a).kind \notin {"target", "cleanup"} /\ check[a].phase # "none"
      BY <2>2, <2>3 DEF Checked
    <3>2. ~EnterTarget(a) /\ ~LeaveTarget(a) /\ ~SkippedStep(a) /\ ~PassOver(a)
      BY <3>1 DEF EnterTarget, LeaveTarget, SkippedStep, PassOver, Kind
    <3>. QED BY <3>2, <1>2 DEF MoveOf
  <2>. QED BY <2>1, <2>3, <2>4
<1>4. Rotations(a)'
  <2>1. work'[a].rotated = work[a].rotated
        \/ (/\ Here(a).kind = "rotateBefore" /\ o = "pass"
            /\ work'[a].rotated = work[a].rotated \cup {Here(a).ssid})
    <3>1. CASE EndCheck(a)
      BY <3>1, <1>1, <1>3, AfterCheckFields DEF TInv
    <3>2. CASE ~EndCheck(a)
      BY <3>2, <1>2 DEF MoveOf
    <3>. QED BY <3>1, <3>2
  <2>2. \A j \in 1 .. p - 1 : j \in 1 .. work'[a].pos - 1
    BY <1>1
  <2>3. p \in 1 .. work'[a].pos - 1
    BY <1>1
  <2>4. ASSUME NEW x \in work'[a].rotated
        PROVE  \E j \in 1 .. work'[a].pos - 1 :
                 Agenda[a][j].kind = "rotateBefore" /\ Agenda[a][j].ssid = x /\ steps'[a][j] = "pass"
    <3>1. CASE x \in work[a].rotated
      <4>1. PICK j \in 1 .. p - 1 :
              Agenda[a][j].kind = "rotateBefore" /\ Agenda[a][j].ssid = x /\ steps[a][j] = "pass"
        BY <3>1 DEF PrerequisiteInv, Rotations
      <4>. QED BY <4>1, <2>2, <1>1
    <3>2. CASE x \notin work[a].rotated
      <4>1. Here(a).kind = "rotateBefore" /\ Here(a).ssid = x /\ steps'[a][p] = "pass"
        BY <3>2, <2>1, <2>4, <1>2
      <4>. QED BY <4>1, <2>3 DEF Here
    <3>. QED BY <3>1, <3>2
  <2>. QED BY <2>4 DEF Rotations
<1>5. ASSUME Kind(a, Inside)', work'[a].gate = "open"
      PROVE  Ready(a, work[a].pos)'
  <2> DEFINE q == p + 1
  <2>1. q \in DOMAIN Agenda[a] /\ Agenda[a][q].kind \in Inside
    <3>1. TypeOK' /\ ~Done(a)'
      BY <1>5 DEF Kind, TInv
    <3>2. work'[a].pos \in DOMAIN Agenda[a]
      <4>1. work'[a].pos <= Len(Agenda[a]) /\ Len(Agenda[a]) \in Nat
        BY <3>1, <1>1, AgendaFacts DEF Done
      <4>. QED BY <4>1, <1>1, AgendaFacts
    <3>. QED BY <3>2, <1>1, <1>5 DEF Kind, Here
  <2>2. /\ Here(a).kind \in (Inside \ {"cleanup"}) \cup {"target"}
        /\ Here(a).ssid = Agenda[a][q].ssid /\ Here(a).rotation = Agenda[a][q].rotation
        /\ Here(a).kind = "target" => Before(a, q) = {p} /\ ~Here(a).required
        /\ Here(a).kind # "target" => Before(a, q) = Before(a, p) \cup {p}
    <3>1. q - 1 = p
      BY <1>1
    <3>. HIDE DEF q
    <3>. QED BY <2>1, <3>1, BlockFacts DEF Here
  <2>3. CASE Here(a).kind = "target"
    <3>1. EnterTarget(a)
      <4>1. ~LeaveTarget(a) /\ ~SkippedStep(a) /\ ~PassOver(a) /\ ~EndCheck(a)
        BY <2>3, <1>3 DEF LeaveTarget, SkippedStep, PassOver, Kind, Checked, Selective
      <4>. QED BY <4>1, <1>2 DEF MoveOf
    <3>2. o = "none" /\ ~SkippedTarget(a) /\ work'[a].rotated = work[a].rotated
      <4>1. ~LeaveTarget(a) /\ ~SkippedStep(a) /\ ~PassOver(a) /\ ~EndCheck(a)
        BY <2>3, <1>3 DEF LeaveTarget, SkippedStep, PassOver, Kind, Checked, Selective
      <4>. QED BY <4>1, <1>2, <1>5 DEF MoveOf
    <3>3. Agenda[a][q].rotation = "per_round" => Agenda[a][q].ssid \in work'[a].rotated
      BY <3>2, <2>2 DEF SkippedTarget
    <3>4. \A j \in Before(a, q) : /\ Agenda[a][j].required => steps'[a][j] = "pass"
                                  /\ steps'[a][j] \notin {"skip", "canceled"}
      BY <2>2, <2>3, <3>2, <1>2 DEF Here
    <3>. QED BY <3>3, <3>4, <1>1 DEF Ready, Before
  <2>4. CASE Here(a).kind # "target"
    <3>1. Here(a).kind \in Inside \ {"cleanup"} /\ Kind(a, Inside)
      BY <2>2, <2>4, <1>1 DEF Kind
    <3>2. EndCheck(a)
      <4>1. ~EnterTarget(a) /\ ~LeaveTarget(a)
        BY <2>4, <3>1 DEF EnterTarget, LeaveTarget, Kind
      <4>2. SkippedStep(a) => work[a].gate # "open"
        BY DEF SkippedStep
      <4>3. PassOver(a) => work[a].gate # "open"
        BY DEF PassOver
      <4>. QED BY <4>1, <4>2, <4>3, <1>2, <1>5 DEF MoveOf
    <3>3. /\ work[a].gate = "open"
          /\ o = "pass" \/ (Here(a).kind = "check" /\ ~Here(a).required
                            /\ o \notin {"canceled", "skip"})
          /\ work[a].rotated \subseteq work'[a].rotated
      BY <3>1, <3>2, <1>1, <1>3, <1>5, AfterCheckFields DEF TInv
    <3>4. Ready(a, p)
      BY <3>1, <3>3 DEF PrerequisiteInv
    <3>5. \A j \in Before(a, p) : steps'[a][j] = steps[a][j]
      BY <1>1 DEF Before
    <3>6. \A j \in Before(a, q) : /\ Agenda[a][j].required => steps'[a][j] = "pass"
                                  /\ steps'[a][j] \notin {"skip", "canceled"}
      <4>1. /\ Agenda[a][p].required => steps'[a][p] = "pass"
            /\ steps'[a][p] \notin {"skip", "canceled"}
        BY <3>3, <1>2 DEF Here
      <4>. QED BY <2>2, <2>4, <3>4, <3>5, <4>1 DEF Ready
    <3>7. Agenda[a][q].rotation = "per_round" => Agenda[a][q].ssid \in work'[a].rotated
      BY <2>2, <3>3, <3>4 DEF Ready, Here
    <3>. QED BY <3>6, <3>7, <1>1 DEF Ready, Before
  <2>. QED BY <2>3, <2>4
<1>. QED BY <1>4, <1>5

LEMMA PrerequisiteInit == Init => PrerequisiteInv
  BY DEF Init, PrerequisiteInv, Kind, Rotations, AtStart

LEMMA PrerequisiteNext ==
  TInv /\ TInv' /\ ControlInv /\ PrerequisiteInv /\ [Next]_vars => PrerequisiteInv'
<1> SUFFICES ASSUME TInv, TInv', ControlInv, PrerequisiteInv, [Next]_vars PROVE PrerequisiteInv'
  OBVIOUS
<1>1. ASSUME Engine \/ (\E r \in Requests : Request(r)) \/ ExternalCancel \/ UNCHANGED vars
      PROVE  PrerequisiteInv'
  <2> SUFFICES ASSUME NEW a \in Agents
               PROVE  /\ (Kind(a, Inside) /\ work[a].gate = "open" => Ready(a, work[a].pos))'
                      /\ Rotations(a)'
    BY DEF PrerequisiteInv
  <2>1. CASE work'[a] = AtStart
    <3>1. work'[a].pos = 1 /\ work'[a].rotated = {}
      BY <2>1 DEF AtStart
    <3>2. ~Kind(a, Inside)'
      <4> SUFFICES ASSUME Kind(a, Inside)' PROVE FALSE
        OBVIOUS
      <4>1. 1 \in DOMAIN Agenda[a] /\ Agenda[a][1].kind \in Inside
        BY <3>1, AgendaFacts DEF Kind, Done, Here
      <4>. QED BY <4>1, BlockFacts
    <3>. QED BY <3>1, <3>2 DEF Rotations
  <2>2. CASE UNCHANGED <<work, steps>> /\ (eng' = "round" => eng = "round")
    BY <2>2, PrerequisiteFrame
  <2>. QED BY <1>1, <2>1, <2>2, AgentsKept
<1>2. ASSUME NEW a \in Agents, Worker(a) \/ PolicyTimeout(a) PROVE PrerequisiteInv'
  <2>1. ASSUME NEW b \in Agents \ {a}
        PROVE  /\ (Kind(b, Inside) /\ work[b].gate = "open" => Ready(b, work[b].pos))'
               /\ Rotations(b)'
    BY <1>2, OthersKept, PrerequisiteFrame DEF run
  <2>2. /\ (Kind(a, Inside) /\ work[a].gate = "open" => Ready(a, work[a].pos))'
        /\ Rotations(a)'
    <3>1. eng' = eng
      BY <1>2, OthersKept DEF run
    <3>2. CASE Moves(a)
      BY <3>2, PrerequisiteMove
    <3>3. CASE Stays(a)
      BY <3>1, <3>3, StaysPut, PrerequisiteFrame
    <3>4. CASE Dispatch(a)
      BY <3>1, <3>4, DispatchFacts, PrerequisiteFrame
    <3>5. CASE CleanupOp(a)
      BY <3>1, <3>5, CleanupOpFacts, PrerequisiteFrame
    <3>. QED BY <1>2, <3>2, <3>3, <3>4, <3>5, Workers
  <2>. QED BY <2>1, <2>2 DEF PrerequisiteInv
<1>. QED BY <1>1, <1>2 DEF Next

(* In every run the steps before an agent's place are what the gate of its *)
(* target says of them (runTarget).                                        *)
THEOREM PrerequisitesHold == Spec => []PrerequisiteInv
  BY TypeCorrect, Controlled, PrerequisiteInit, PrerequisiteNext, PTL DEF Spec

(* Only Dispatch begins an operation, and only that of the agent's place.  *)
LEMMA OnlyDispatchBegins ==
  ASSUME TInv, ControlInv, [Next]_vars, NEW a \in Agents, dispatched'[a] \ dispatched[a] # {}
  PROVE  Dispatch(a) /\ dispatched'[a] \ dispatched[a] = {work[a].pos}
<1>1. ASSUME Engine \/ (\E r \in Requests : Request(r)) \/ ExternalCancel \/ UNCHANGED vars
      PROVE  FALSE
  BY <1>1, AgentsKept
<1>2. PICK b \in Agents : Worker(b) \/ PolicyTimeout(b)
  BY <1>1 DEF Next
<1>3. b = a
  BY <1>2, OthersKept
<1>4. ~Moves(a) /\ ~Stays(a) /\ ~CleanupOp(a)
  BY MovesOn, StaysPut, CleanupOpFacts
<1>5. Dispatch(a)
  BY <1>2, <1>3, <1>4, Workers
<1>6. dispatched' = [dispatched EXCEPT ![a] = @ \cup {work[a].pos}]
  BY <1>5, DispatchFacts
<1>7. DOMAIN dispatched = Agents
  BY DEF TInv, TypeOK, AgentsTypeOK
<1>8. dispatched'[a] = dispatched[a] \cup {work[a].pos}
  BY <1>6, <1>7
<1>. QED BY <1>5, <1>6, <1>8

(* In every run an operation begins in a live context only while no        *)
(* request for its scope stands, and in any context only after every       *)
(* required step of its target passed (README: a failed connection or      *)
(* required check skips the remaining checks).                             *)
THEOREM SendsGated == Spec => DispatchGated
<1>1. TInv /\ ControlInv /\ PrerequisiteInv /\ [Next]_vars => SendsUnstopped
  <2> SUFFICES ASSUME TInv, ControlInv, [Next]_vars, NEW a \in Agents,
                      dispatched'[a] \ dispatched[a] # {}, ~Over(a)
               PROVE  Stops(a, Here(a)) = {}
    BY DEF SendsUnstopped
  <2>1. Dispatch(a)
    BY OnlyDispatchBegins
  <2>2. runCause = "none"
    BY DEF Over, Cause
  <2>3. check[a].phase # "none" /\ check[a].own = "none"
    BY <2>1, DispatchFacts DEF Over, Cause
  <2>4. \A s \in canceled \cup skipped : s \in ValidScopes /\ ~Covers(s, a, Here(a))
    BY <2>2, <2>3 DEF ControlInv, Informed, TInv, TypeOK, RunTypeOK
  <2>5. \A s \in canceled \cup skipped : ~Names(s, a, Here(a))
    BY <2>3, <2>4, SelectedNames
  <2>. QED BY <2>5 DEF Stops
<1>2. TInv /\ ControlInv /\ PrerequisiteInv /\ [Next]_vars => SendsAfterPrerequisites
  <2> SUFFICES ASSUME TInv, ControlInv, PrerequisiteInv, [Next]_vars, NEW a \in Agents,
                      NEW i \in dispatched'[a] \ dispatched[a], Agenda[a][i].kind \in Selective
               PROVE  /\ \A j \in Before(a, i) :
                           /\ Agenda[a][j].required => steps[a][j] = "pass"
                           /\ steps[a][j] \notin {"skip", "canceled"}
                      /\ Agenda[a][i].rotation = "per_round" =>
                           \E j \in 1 .. i - 1 : /\ Agenda[a][j].kind = "rotateBefore"
                                                 /\ Agenda[a][j].ssid = Agenda[a][i].ssid
                                                 /\ steps[a][j] = "pass"
    BY DEF SendsAfterPrerequisites
  <2>1. Dispatch(a) /\ i = work[a].pos
    BY OnlyDispatchBegins
  <2>2. ~Done(a) /\ eng = "round" /\ check[a].phase # "none"
    BY <2>1, DispatchFacts
  <2>3. Here(a).kind \in Selective
    BY <2>1 DEF Here
  <2>4. Kind(a, Inside) /\ work[a].gate = "open"
    BY <2>2, <2>3 DEF Kind, Inside, ControlInv, Placed
  <2>5. Ready(a, i) /\ Rotations(a)
    BY <2>1, <2>4 DEF PrerequisiteInv
  <2>. QED BY <2>1, <2>5 DEF Ready, Rotations
<1>. QED BY <1>1, <1>2, TypeCorrect, Controlled, PrerequisitesHold, PTL DEF Spec, DispatchGated

-----------------------------------------------------------------------------
(* Cleanup                                                                 *)

InBlock(a) == ~Done(a) /\ Here(a).kind \in Inside

Begun(a) == \E j \in dispatched[a] \cap (Before(a, work[a].pos) \cup {work[a].pos}) :
             Agenda[a][j].kind = "connect"

(* A target counts as attempted once its connect began, and only until     *)
(* it is left; the cleanup operations done are the first of those it asks. *)
Owed(a) ==
  /\ dispatched[a] \subseteq 1 .. work[a].pos
  /\ work[a].attempted <=> InBlock(a) /\ Begun(a)

Cleaning(a) ==
  /\ work[a].cleaned # <<>> => ~Done(a) /\ Here(a).kind = "cleanup" /\ work[a].attempted
  /\ \A i \in DOMAIN work[a].cleaned :
       i \in DOMAIN Here(a).after /\ work[a].cleaned[i].op = Here(a).after[i]

CleanupInv == \A a \in Agents : Owed(a) /\ Cleaning(a)

LEMMA CleanupFrame ==
  ASSUME CleanupInv, NEW a \in Agents, dispatched'[a] = dispatched[a],
         work'[a].pos = work[a].pos, work'[a].attempted = work[a].attempted,
         work'[a].cleaned = work[a].cleaned
  PROVE  Owed(a)' /\ Cleaning(a)'
<1>1. UNCHANGED <<Done(a), Here(a)>>
  BY DEF Done, Here
<1>2. InBlock(a)' <=> InBlock(a)
  BY DEF InBlock, Done, Here
<1>3. Begun(a)' <=> Begun(a)
  BY DEF Begun, Before
<1>4. Owed(a)'
  BY <1>2, <1>3 DEF CleanupInv, Owed
<1>5. Cleaning(a)'
  BY <1>1 DEF CleanupInv, Cleaning
<1>. QED BY <1>4, <1>5

(* At the end of its block an agent has nothing left to clean up.          *)
LEMMA BlockEnds ==
  ASSUME TInv, NEW a \in Agents, ~Done(a), Here(a).kind \in (Inside \ {"cleanup"}) \cup {"target"}
  PROVE  work[a].pos + 1 \in DOMAIN Agenda[a] /\ Agenda[a][work[a].pos + 1].kind \in Inside
<1>1. work[a].pos \in DOMAIN Agenda[a] /\ work[a].pos \in Nat
  BY PlaceFacts DEF TInv
<1>2. work[a].pos < Len(Agenda[a]) /\ Agenda[a][work[a].pos + 1].kind \in Inside
  BY <1>1, AgendaAssumption DEF Here
<1>. QED BY <1>1, <1>2, AgendaFacts

LEMMA CleanupMove ==
  ASSUME TInv, TInv', ControlInv, CleanupInv, NEW a \in Agents, Moves(a)
  PROVE  Owed(a)' /\ Cleaning(a)'
<1> DEFINE p == work[a].pos
           q == p + 1
<1>1. /\ ~Done(a) /\ dispatched' = dispatched /\ p \in DOMAIN Agenda[a] /\ p \in Nat \ {0}
      /\ work'[a].pos = q
  BY MovesOn, PlaceFacts DEF TInv
<1>2. PICK o : MoveOf(a, o)
  BY MovesOn
<1>3. /\ dispatched[a] \subseteq 1 .. p /\ q \notin dispatched[a]
      /\ dispatched'[a] \subseteq 1 .. q
  BY <1>1 DEF CleanupInv, Owed
<1>4. EndCheck(a) => Here(a).kind \in Checked
  BY DEF EndCheck, Reached, InCheck, ControlInv, Placed
<1>5. IF Here(a).kind = "cleanup"
      THEN LeaveTarget(a) /\ work'[a].attempted = FALSE /\ work'[a].cleaned = <<>>
      ELSE work'[a].attempted = work[a].attempted /\ work'[a].cleaned = work[a].cleaned
  <2>1. CASE EndCheck(a)
    <3>1. FinalOutcome(a) \in Outcomes
      BY DEF FinalOutcome, Outcomes, TInv, TypeOK, AgentsTypeOK, Checks
    <3>2. PICK w \in AfterCheck(a, FinalOutcome(a)) :
            work'[a].attempted = w.attempted /\ work'[a].cleaned = w.cleaned
      <4>1. ~EnterTarget(a) /\ ~LeaveTarget(a) /\ ~SkippedStep(a) /\ ~PassOver(a)
        BY <2>1, <1>4 DEF EndCheck, Reached, InCheck, EnterTarget, LeaveTarget, SkippedStep,
                          PassOver, Kind, Checked
      <4>. QED BY <4>1, <1>2 DEF MoveOf
    <3>3. w.attempted = work[a].attempted /\ w.cleaned = work[a].cleaned
      BY <1>1, <3>1, AfterCheckFields DEF TInv
    <3>. QED BY <2>1, <1>4, <3>2, <3>3 DEF Checked
  <2>2. CASE LeaveTarget(a)
    <3>1. Here(a).kind = "cleanup"
      BY <2>2 DEF LeaveTarget, Kind
    <3>2. ~EnterTarget(a) /\ ~EndCheck(a) /\ ~SkippedStep(a) /\ ~PassOver(a)
      BY <3>1, <1>4 DEF EnterTarget, SkippedStep, PassOver, Kind, Checked, Selective
    <3>. QED BY <2>2, <3>1, <3>2, <1>2 DEF MoveOf
  <2>3. CASE EnterTarget(a) \/ SkippedStep(a) \/ PassOver(a)
    <3>1. Here(a).kind # "cleanup"
      BY <2>3 DEF EnterTarget, SkippedStep, PassOver, Kind, Selective
    <3>2. ~EndCheck(a) /\ ~LeaveTarget(a)
      BY <2>3, <3>1, <1>4 DEF EnterTarget, SkippedStep, PassOver, LeaveTarget, EndCheck, Kind,
                              Reached, InCheck, Checked
    <3>. QED BY <3>1, <3>2, <1>2 DEF MoveOf
  <2>. QED BY <1>2, <2>1, <2>2, <2>3 DEF MoveOf
<1>6. Cleaning(a)'
  <2>1. work'[a].cleaned = <<>>
    BY <1>5 DEF CleanupInv, Cleaning
  <2>. QED BY <2>1 DEF Cleaning
<1>7. work'[a].attempted <=> InBlock(a)' /\ Begun(a)'
  <2>1. Done(a)' <=> q > Len(Agenda[a])
    BY <1>1 DEF Done
  <2>2. Here(a)' = Agenda[a][q]
    BY <1>1 DEF Here
  <2>3. Begun(a)' <=> \E j \in dispatched[a] \cap (Before(a, q) \cup {q}) :
                       Agenda[a][j].kind = "connect"
    BY <1>1 DEF Begun, Before
  <2>4. InBlock(a)' => q \in DOMAIN Agenda[a] /\ Agenda[a][q].kind \in Inside
    BY <2>1, <2>2, <1>1, AgendaFacts DEF InBlock
  <2>5. Len(Agenda[a]) \in Nat /\ (q \in DOMAIN Agenda[a] => q <= Len(Agenda[a]))
    BY AgendaFacts
  <2>6. q - 1 = p
    BY <1>1
  <2>. HIDE DEF q
  <2>7. CASE Here(a).kind = "target"
    <3>1. q \in DOMAIN Agenda[a] /\ Agenda[a][q].kind \in Inside
      BY <2>7, <1>1, BlockEnds DEF q
    <3>2. Before(a, q) = {p}
      BY <3>1, <2>6, <2>7, BlockFacts DEF Here
    <3>3. ~Begun(a)'
      BY <2>3, <3>2, <1>3, <2>7 DEF Here
    <3>4. ~InBlock(a)
      BY <2>7 DEF InBlock, Inside, Selective
    <3>. QED BY <2>7, <3>3, <3>4, <1>5 DEF CleanupInv, Owed
  <2>8. CASE Here(a).kind \in Inside \ {"cleanup"}
    <3>1. q \in DOMAIN Agenda[a] /\ Agenda[a][q].kind \in Inside
      BY <2>8, <1>1, BlockEnds DEF q
    <3>2. Before(a, q) = Before(a, p) \cup {p}
      <4>1. Agenda[a][q - 1].kind # "target"
        BY <2>6, <2>8 DEF Here, Inside, Selective
      <4>. QED BY <3>1, <4>1, <2>6, BlockFacts
    <3>3. Begun(a)' <=> Begun(a)
      BY <2>3, <3>2, <1>3 DEF Begun
    <3>4. InBlock(a) /\ InBlock(a)'
      <4>1. ~Done(a)'
        BY <2>1, <2>5, <3>1
      <4>. QED BY <4>1, <3>1, <2>2, <2>8, <1>1 DEF InBlock
    <3>. QED BY <2>8, <3>3, <3>4, <1>5 DEF CleanupInv, Owed
  <2>9. CASE Here(a).kind \notin (Inside \ {"cleanup"}) \cup {"target"}
    <3>1. ~work'[a].attempted
      <4>1. Here(a).kind # "cleanup" => ~InBlock(a)
        BY <2>9 DEF InBlock
      <4>. QED BY <4>1, <1>5 DEF CleanupInv, Owed
    <3>2. ~InBlock(a)'
      <4>1. ASSUME q \in DOMAIN Agenda[a], Agenda[a][q].kind \in Inside PROVE FALSE
        BY <4>1, <2>6, <2>9, BlockFacts DEF Here
      <4>. QED BY <4>1, <2>4
    <3>. QED BY <3>1, <3>2
  <2>. QED BY <2>7, <2>8, <2>9
<1>. QED BY <1>1, <1>3, <1>6, <1>7 DEF Owed

LEMMA CleanupBegin ==
  ASSUME TInv, ControlInv, CleanupInv, NEW a \in Agents, Dispatch(a)
  PROVE  Owed(a)' /\ Cleaning(a)'
<1> DEFINE p == work[a].pos
<1>1. /\ ~Done(a) /\ Here(a).kind \in Checked
      /\ work'[a].pos = p /\ work'[a].cleaned = work[a].cleaned
      /\ p \in Nat \ {0} /\ work[a].attempted \in BOOLEAN /\ DOMAIN dispatched = Agents
      /\ work'[a].attempted = (work[a].attempted \/ Here(a).kind = "connect")
      /\ dispatched' = [dispatched EXCEPT ![a] = @ \cup {p}]
  BY DispatchFacts, PlaceFacts DEF TInv, TypeOK, AgentsTypeOK, Works
<1>2. dispatched'[a] = dispatched[a] \cup {p}
  BY <1>1
<1>3. dispatched'[a] \subseteq 1 .. p
  BY <1>1, <1>2 DEF CleanupInv, Owed
<1>4. InBlock(a)' <=> InBlock(a)
  BY <1>1 DEF InBlock, Done, Here
<1>5. Begun(a)' <=> Begun(a) \/ Here(a).kind = "connect"
  BY <1>1, <1>2 DEF Begun, Before, Here
<1>6. Here(a).kind = "connect" => InBlock(a)
  BY <1>1 DEF InBlock, Inside, Selective
<1>7. work'[a].attempted <=> InBlock(a)' /\ Begun(a)'
  BY <1>1, <1>4, <1>5, <1>6 DEF CleanupInv, Owed
<1>8. work[a].cleaned = <<>>
  BY <1>1 DEF CleanupInv, Cleaning, Checked
<1>9. Cleaning(a)'
  BY <1>1, <1>8 DEF Cleaning
<1>. QED BY <1>1, <1>3, <1>7, <1>9 DEF Owed

LEMMA CleanupStep ==
  ASSUME TInv, CleanupInv, NEW a \in Agents, CleanupOp(a)
  PROVE  Owed(a)' /\ Cleaning(a)'
<1> DEFINE c == work[a].cleaned
           R == [op : Cleanups, outcome : Outcomes]
<1>1. /\ dispatched' = dispatched /\ Kind(a, {"cleanup"}) /\ work'[a].pos = work[a].pos
      /\ work'[a].attempted = work[a].attempted /\ work[a].attempted
      /\ Len(c) + 1 \in DOMAIN Here(a).after
  BY CleanupOpFacts
<1>2. PICK o \in Outcomes :
        work'[a].cleaned = Append(c, [op |-> Here(a).after[Len(c) + 1], outcome |-> o])
  BY CleanupOpFacts
<1> DEFINE e == [op |-> Here(a).after[Len(c) + 1], outcome |-> o]
<1>3. Owed(a)'
  <2>1. InBlock(a)' <=> InBlock(a)
    BY <1>1 DEF InBlock, Done, Here
  <2>2. Begun(a)' <=> Begun(a)
    BY <1>1 DEF Begun, Before
  <2>. QED BY <1>1, <2>1, <2>2 DEF CleanupInv, Owed
<1>4. Cleaning(a)'
  <2>1. c \in Seq(R) /\ Here(a)' = Here(a) /\ ~Done(a)' /\ Here(a).kind = "cleanup"
    BY <1>1 DEF TInv, TypeOK, AgentsTypeOK, Works, Here, Done, Kind
  <2>2. work'[a].cleaned = Append(c, e) /\ e.op = Here(a).after[Len(c) + 1]
    BY <1>2
  <2>3. \A i \in DOMAIN c : i \in DOMAIN Here(a).after /\ c[i].op = Here(a).after[i]
    BY DEF CleanupInv, Cleaning
  <2>. HIDE DEF c, e, R
  <2>4. ASSUME NEW i \in DOMAIN Append(c, e)
        PROVE  i \in DOMAIN Here(a).after /\ Append(c, e)[i].op = Here(a).after[i]
    <3>1. CASE i \in DOMAIN c
      BY <3>1, <2>1, <2>3
    <3>2. CASE i = Len(c) + 1
      BY <3>2, <2>1, <2>2, <1>1 DEF c
    <3>. QED BY <3>1, <3>2, <2>1
  <2>. QED BY <1>1, <2>1, <2>2, <2>4 DEF Cleaning
<1>. QED BY <1>3, <1>4

LEMMA CleanupInit == Init => CleanupInv
<1> SUFFICES ASSUME Init, NEW a \in Agents PROVE Owed(a) /\ Cleaning(a)
  BY DEF CleanupInv
<1>1. work[a] = AtStart /\ dispatched[a] = {}
  BY DEF Init
<1>. QED BY <1>1 DEF AtStart, Owed, Cleaning, Begun

LEMMA CleanupNext ==
  TInv /\ TInv' /\ ControlInv /\ CleanupInv /\ [Next]_vars => CleanupInv'
<1> SUFFICES ASSUME TInv, TInv', ControlInv, CleanupInv, [Next]_vars PROVE CleanupInv'
  OBVIOUS
<1>1. ASSUME Engine \/ (\E r \in Requests : Request(r)) \/ ExternalCancel \/ UNCHANGED vars
      PROVE  CleanupInv'
  <2>1. ASSUME NEW a \in Agents, work'[a] = AtStart, dispatched'[a] = {}
        PROVE  Owed(a)' /\ Cleaning(a)'
    BY <2>1 DEF AtStart, Owed, Cleaning, Begun
  <2>. QED BY <1>1, <2>1, AgentsKept, CleanupFrame DEF CleanupInv
<1>2. ASSUME NEW a \in Agents, Worker(a) \/ PolicyTimeout(a) PROVE CleanupInv'
  <2>1. ASSUME NEW b \in Agents \ {a} PROVE Owed(b)' /\ Cleaning(b)'
    BY <1>2, OthersKept, CleanupFrame
  <2>2. Owed(a)' /\ Cleaning(a)'
    BY <1>2, Workers, CleanupMove, CleanupBegin, CleanupStep, StaysPut, CleanupFrame
  <2>. QED BY <2>1, <2>2 DEF CleanupInv
<1>. QED BY <1>1, <1>2 DEF Next

(* In every run cleanup is owed exactly from the connect that began        *)
(* until the target is left (runTarget, cleanup).                          *)
THEOREM CleanupAccounted == Spec => []CleanupInv
  BY TypeCorrect, Controlled, CleanupInit, CleanupNext, PTL DEF Spec

(* In every run an agent that leaves a target has tried exactly the        *)
(* operations the target asks for, in order, if its connect began, and     *)
(* none otherwise, cancellations included (README: bounded disconnect-     *)
(* then-forget).                                                           *)
THEOREM CleansUpExactly == Spec => CleanupExact
<1>1. TInv /\ ControlInv /\ CleanupInv /\ [Next]_vars => CleansExactly
  <2> SUFFICES ASSUME TInv, ControlInv, CleanupInv, [Next]_vars, NEW a \in Agents,
                      work'[a].pos # work[a].pos, Kind(a, {"cleanup"})
               PROVE  LET begun == \E j \in dispatched[a] \cap Before(a, work[a].pos) :
                                      Agenda[a][j].kind = "connect"
                          ops   == [i \in DOMAIN work[a].cleaned |-> work[a].cleaned[i].op]
                      IN ops = IF begun THEN Here(a).after ELSE <<>>
    BY DEF CleansExactly
  <2> DEFINE c == work[a].cleaned
             after == Here(a).after
             ops == [i \in DOMAIN c |-> c[i].op]
  <2>1. eng = "round" /\ ~Done(a) /\ Here(a).kind = "cleanup"
    BY DEF Kind
  <2>2. LeaveTarget(a)
    <3>1. ~(Engine \/ (\E r \in Requests : Request(r)) \/ ExternalCancel \/ UNCHANGED vars)
      BY <2>1, AgentsKept DEF StartRound
    <3>2. PICK b \in Agents : Worker(b) \/ PolicyTimeout(b)
      BY <3>1 DEF Next
    <3>3. b = a
      BY <3>2, OthersKept
    <3>4. Moves(a)
      BY <3>2, <3>3, Workers, StaysPut, DispatchFacts, CleanupOpFacts
    <3>5. ~EndCheck(a)
      BY <2>1 DEF EndCheck, Reached, InCheck, ControlInv, Placed, Checked
    <3>. QED BY <2>1, <3>4, <3>5 DEF Moves, EnterTarget, SkippedStep, PassOver, Kind, Selective
  <2>3. CleanupLeft(a) = 0
    BY <2>2 DEF LeaveTarget
  <2>4. /\ after \in Seq(Cleanups) /\ c \in Seq([op : Cleanups, outcome : Outcomes])
        /\ \A i \in DOMAIN c : i \in DOMAIN after /\ c[i].op = after[i]
    <3>1. work[a].pos \in DOMAIN Agenda[a]
      BY <2>1, PlaceFacts DEF TInv
    <3>. QED BY <3>1, AgendaAssumption DEF Here, TInv, TypeOK, AgentsTypeOK, Works,
                                           CleanupInv, Cleaning
  <2>5. work[a].attempted <=> \E j \in dispatched[a] \cap Before(a, work[a].pos) :
                                 Agenda[a][j].kind = "connect"
    BY <2>1 DEF CleanupInv, Owed, InBlock, Begun, Inside, Here
  <2>6. CASE work[a].attempted
    <3>1. Len(after) = Len(c)
      <4>1. Len(after) - Len(c) = 0
        BY <2>3, <2>6 DEF CleanupLeft, CleanupContext
      <4>2. Len(after) \in Nat /\ Len(c) \in Nat
        BY <2>4
      <4>. QED BY <4>1, <4>2
    <3>. HIDE DEF c, after
    <3>2. ops = after
      BY <2>4, <3>1
    <3>. QED BY <3>2, <2>5, <2>6 DEF c, after
  <2>7. CASE ~work[a].attempted
    <3>1. c = <<>>
      BY <2>7 DEF CleanupInv, Cleaning
    <3>2. ops = <<>>
      BY <3>1
    <3>. QED BY <3>2, <2>5, <2>7
  <2>. QED BY <2>6, <2>7
<1>. QED BY <1>1, TypeCorrect, Controlled, CleanupAccounted, PTL DEF Spec, CleanupExact

-----------------------------------------------------------------------------
(* Outcomes                                                                *)

(* The run's outcome never gets better.                                    *)
LEMMA OutcomeGrows ==
  ASSUME TInv, [Next]_vars
  PROVE  /\ Rank(outcome) <= Rank(outcome') /\ (outcome = "fail" => outcome' = "fail")
         /\ outcome \in Outcomes /\ outcome' \in Outcomes
<1>1. /\ "pass" \in Outcomes /\ "skip" \in Outcomes /\ "canceled" \in Outcomes
      /\ "fail" \in Outcomes /\ {} \in SUBSET AllProblems
      /\ round \in 0 .. Rounds /\ 0 \in 0 .. Rounds /\ outcome \in Outcomes
  BY HarnessAssumption DEF Outcomes, TInv, TypeOK, RunTypeOK
<1>2. outcome' \in {outcome, "fail", CombineOutcome(outcome, "canceled")}
      \/ \E o \in Outcomes, r \in 0 .. Rounds, ps \in SUBSET AllProblems : Publish(o, ps, r)
  <2>1. CASE Engine
    BY <2>1, <1>1 DEF Engine, Start, StartRound, Barrier, LeaveLoop, EndRun, NotifyEnding,
       CloseSinks, DropSinks, NotifyFinished, Return, Quiet, Verdict, EndVerdict
  <2>2. ASSUME NEW a \in Agents, EndCheck(a)
        PROVE  \E o \in Outcomes, r \in 0 .. Rounds, ps \in SUBSET AllProblems : Publish(o, ps, r)
    <3>1. FinalOutcome(a) \in Outcomes
      BY DEF FinalOutcome, Outcomes, TInv, TypeOK, AgentsTypeOK, Checks
    <3> DEFINE ps == IF FinalOutcome(a) # "pass" /\ check[a].err THEN {Problem("primary", round)} ELSE {}
    <3>2. ps \in SUBSET AllProblems
      BY <1>1 DEF Problem, AllProblems
    <3>3. Publish(FinalOutcome(a), ps, round)
      BY <2>2 DEF EndCheck
    <3>. QED BY <1>1, <3>1, <3>2, <3>3
  <2>3. ASSUME NEW a \in Agents, Worker(a) \/ PolicyTimeout(a), ~EndCheck(a)
        PROVE  \/ outcome' \in {outcome, "fail"}
               \/ Publish("pass", {}, 0) \/ Publish("pass", {}, round) \/ Publish("skip", {}, round)
    BY <2>3 DEF Worker, PolicyTimeout, EnterTarget, SkippedStep, PassOver, StartCheck, Refuse,
       Block, Admit, Dispatch, Returns, Delay, CleanupOp, LeaveTarget, Quiet
  <2>4. ASSUME NEW r \in Requests, Request(r) PROVE outcome' \in {outcome, "fail"}
    BY <2>4 DEF Request
  <2>5. CASE ExternalCancel \/ UNCHANGED vars
    BY <2>5 DEF ExternalCancel, vars
  <2>. QED BY <1>1, <2>1, <2>2, <2>3, <2>4, <2>5 DEF Next
<1>3. /\ Rank(outcome) <= Rank("fail") /\ Rank(outcome) <= Rank(outcome)
      /\ Rank(outcome) <= Rank(CombineOutcome(outcome, "canceled"))
      /\ CombineOutcome(outcome, "canceled") \in Outcomes
  BY <1>1, RankOrder
<1>4. Rank(outcome) <= Rank(outcome') /\ outcome' \in Outcomes
  BY <1>1, <1>2, <1>3, PublishFacts DEF TInv
<1>5. outcome = "fail" => outcome' = "fail"
  BY <1>4 DEF Rank, Outcomes
<1>. QED BY <1>1, <1>4, <1>5

(* A cleanup that did not pass has failed the run already.                 *)
CleanedCounts == \A a \in Agents : \A i \in DOMAIN work[a].cleaned :
  work[a].cleaned[i].outcome # "pass" => outcome = "fail"

CoverInv == OutcomesCover /\ CleanedCounts

CoversAgent(a) ==
  /\ \A i \in DOMAIN steps[a] :
       steps[a][i] \in Outcomes => Rank(steps[a][i]) <= Rank(agentOutcome[a])
  /\ Rank(agentOutcome[a]) <= Rank(outcome)
  /\ \A i \in DOMAIN work[a].cleaned : work[a].cleaned[i].outcome # "pass" => outcome = "fail"

LEMMA CoverFrame ==
  ASSUME TInv, [Next]_vars, NEW a \in Agents, CoversAgent(a), steps'[a] = steps[a],
         agentOutcome'[a] = agentOutcome[a], work'[a].cleaned = work[a].cleaned
  PROVE  CoversAgent(a)'
<1>1. Rank(outcome) <= Rank(outcome') /\ (outcome = "fail" => outcome' = "fail")
  BY OutcomeGrows
<1>2. /\ Rank(agentOutcome[a]) \in 0 .. 4 /\ Rank(outcome) \in 0 .. 4 /\ Rank(outcome') \in 0 .. 4
  BY RankOrder, OutcomeGrows DEF TInv, TypeOK, AgentsTypeOK
<1>3. Rank(agentOutcome[a]) <= Rank(outcome')
  BY <1>1, <1>2 DEF CoversAgent
<1>. QED BY <1>1, <1>3 DEF CoversAgent

(* What a move leaves counts in the outcome of the agent and of the run.   *)
LEMMA CoverMove ==
  ASSUME TInv, TInv', ControlInv, [Next]_vars, NEW a \in Agents, CoversAgent(a), Moves(a)
  PROVE  CoversAgent(a)'
<1> DEFINE p == work[a].pos
<1>1. PICK o \in ItemOutcomes : MoveOf(a, o) /\ steps'[a] = Append(steps[a], o)
  BY MovesOn
<1>2. /\ outcome \in Outcomes /\ outcome' \in Outcomes /\ agentOutcome[a] \in Outcomes
      /\ Rank(outcome) <= Rank(outcome') /\ (outcome = "fail" => outcome' = "fail")
      /\ steps[a] \in Seq(ItemOutcomes) /\ "pass" \in Outcomes /\ "skip" \in Outcomes
      /\ round \in 0 .. Rounds /\ {} \in SUBSET AllProblems
  BY OutcomeGrows DEF TInv, TypeOK, RunTypeOK, AgentsTypeOK, Outcomes
<1>3. \A i \in DOMAIN work'[a].cleaned : work'[a].cleaned[i].outcome # "pass" => outcome' = "fail"
  <2>1. work'[a].cleaned = work[a].cleaned \/ work'[a].cleaned = <<>>
    <3>1. CASE EndCheck(a)
      <4>1. FinalOutcome(a) \in Outcomes /\ ~Done(a)
        BY MovesOn DEF FinalOutcome, Outcomes, TInv, TypeOK, AgentsTypeOK, Checks
      <4>. QED BY <3>1, <4>1, <1>1, AfterCheckFields DEF MoveOf, TInv
    <3>2. CASE ~EndCheck(a)
      BY <3>2, <1>1 DEF MoveOf
    <3>. QED BY <3>1, <3>2
  <2>. QED BY <2>1, <1>2 DEF CoversAgent
<1>4. /\ Rank(agentOutcome[a]) <= Rank(agentOutcome'[a])
      /\ Rank(agentOutcome'[a]) <= Rank(outcome')
      /\ o \in Outcomes => Rank(o) <= Rank(agentOutcome'[a])
  <2>1. Rank(agentOutcome[a]) \in 0 .. 4 /\ Rank(outcome) \in 0 .. 4 /\ Rank(outcome') \in 0 .. 4
    BY <1>2, RankOrder
  <2>2. Rank(agentOutcome[a]) <= Rank(outcome')
    BY <1>2, <2>1 DEF CoversAgent
  <2>3. ASSUME NEW r \in Outcomes, Progress(a, r), Rank(r) <= Rank(outcome')
        PROVE  /\ Rank(agentOutcome[a]) <= Rank(agentOutcome'[a])
               /\ Rank(agentOutcome'[a]) <= Rank(outcome') /\ Rank(r) <= Rank(agentOutcome'[a])
    <3>1. agentOutcome'[a] = CombineOutcome(agentOutcome[a], r)
      BY <2>3, ProgressFacts DEF TInv
    <3>2. agentOutcome'[a] \in {agentOutcome[a], r}
      BY <3>1 DEF CombineOutcome
    <3>. QED BY <3>1, <3>2, <2>2, <2>3, <1>2, RankOrder
  <2>4. CASE (EnterTarget(a) /\ o = "none") \/ (PassOver(a) /\ o = "none")
    <3>1. agentOutcome' = agentOutcome /\ "none" \notin Outcomes
      BY <2>4 DEF EnterTarget, PassOver, Outcomes
    <3>. QED BY <2>1, <2>2, <2>4, <3>1
  <2>5. CASE SkippedStep(a) /\ o = "prereq"
    <3>1. Progress(a, "skip") /\ Publish("skip", {}, round) /\ "prereq" \notin Outcomes
      BY <2>5 DEF SkippedStep, Outcomes
    <3>2. Rank("skip") <= Rank(outcome')
      BY <3>1, <1>2, PublishFacts DEF TInv
    <3>. QED BY <2>3, <2>5, <3>1, <3>2, <1>2
  <2>6. CASE LeaveTarget(a) /\ o = CleanupOutcome(a)
    <3>1. Progress(a, o) /\ o \in Outcomes
      BY <2>6, CleanupOutcomeType DEF LeaveTarget, TInv
    <3>2. Rank(o) <= Rank(outcome')
      <4>1. CASE o = "pass"
        BY <4>1, <1>2, RankOrder
      <4>2. CASE o # "pass"
        <5>1. outcome = "fail"
          BY <2>6, <4>2, CleanupOutcomeType DEF CoversAgent, TInv
        <5>. QED BY <5>1, <1>2, <3>1, RankOrder
      <4>. QED BY <4>1, <4>2
    <3>. QED BY <2>3, <3>1, <3>2
  <2>7. CASE EndCheck(a) /\ o = FinalOutcome(a)
    <3> DEFINE ps == IF o # "pass" /\ check[a].err THEN {Problem("primary", round)} ELSE {}
    <3>1. o \in Outcomes
      BY <2>7 DEF FinalOutcome, Outcomes, TInv, TypeOK, AgentsTypeOK, Checks
    <3>2. ps \in SUBSET AllProblems
      BY <1>2 DEF Problem, AllProblems
    <3>3. Progress(a, o) /\ Publish(o, ps, round)
      BY <2>7 DEF EndCheck
    <3>. HIDE DEF ps
    <3>4. Rank(o) <= Rank(outcome')
      BY <3>1, <3>2, <3>3, <1>2, PublishFacts DEF TInv
    <3>. QED BY <2>3, <3>1, <3>3, <3>4
  <2>. QED BY <1>1, <2>4, <2>5, <2>6, <2>7 DEF MoveOf
<1>5. ASSUME NEW i \in DOMAIN steps'[a], steps'[a][i] \in Outcomes
      PROVE  Rank(steps'[a][i]) <= Rank(agentOutcome'[a])
  <2>1. agentOutcome'[a] \in Outcomes
    BY DEF TInv, TypeOK, AgentsTypeOK
  <2>2. CASE i \in DOMAIN steps[a]
    <3>1. steps'[a][i] = steps[a][i]
      BY <2>2, <1>1, <1>2
    <3>2. Rank(steps'[a][i]) <= Rank(agentOutcome[a])
      BY <3>1, <2>2, <1>5 DEF CoversAgent
    <3>3. /\ Rank(steps'[a][i]) \in 0 .. 4 /\ Rank(agentOutcome[a]) \in 0 .. 4
          /\ Rank(agentOutcome'[a]) \in 0 .. 4
      BY <1>2, <1>5, <2>1, RankOrder
    <3>. QED BY <3>2, <3>3, <1>4
  <2>3. CASE i = Len(steps[a]) + 1
    <3>1. steps'[a][i] = o
      BY <2>3, <1>1, <1>2
    <3>. QED BY <3>1, <1>4, <1>5
  <2>4. i \in DOMAIN steps[a] \/ i = Len(steps[a]) + 1
    BY <1>1, <1>2
  <2>. QED BY <2>2, <2>3, <2>4
<1>. QED BY <1>3, <1>4, <1>5 DEF CoversAgent

LEMMA CoverCleanup ==
  ASSUME TInv, [Next]_vars, NEW a \in Agents, CoversAgent(a), CleanupOp(a)
  PROVE  CoversAgent(a)'
<1>1. PICK o \in Outcomes :
        /\ work'[a].cleaned =
             Append(work[a].cleaned,
                    [op |-> Here(a).after[Len(work[a].cleaned) + 1], outcome |-> o])
        /\ o = "pass" \/ outcome' = "fail"
  BY CleanupOpFacts
<1> DEFINE c == work[a].cleaned
           e == [op |-> Here(a).after[Len(c) + 1], outcome |-> o]
           R == [op : Cleanups, outcome : Outcomes]
<1>2. c \in Seq(R) /\ work'[a].cleaned = Append(c, e) /\ e.outcome = o
  BY <1>1 DEF TInv, TypeOK, AgentsTypeOK, Works
<1>3. /\ steps' = steps /\ agentOutcome' = agentOutcome
      /\ outcome = "fail" => outcome' = "fail"
  BY CleanupOpFacts
<1>4. \A i \in DOMAIN c : c[i].outcome # "pass" => outcome = "fail"
  BY DEF CoversAgent
<1>5. ASSUME NEW i \in DOMAIN work'[a].cleaned, work'[a].cleaned[i].outcome # "pass"
      PROVE  outcome' = "fail"
  <2>. HIDE DEF c, e, R
  <2>1. CASE i \in DOMAIN c
    BY <2>1, <1>2, <1>3, <1>4, <1>5
  <2>2. CASE i = Len(c) + 1
    BY <2>2, <1>1, <1>2, <1>5
  <2>3. i \in DOMAIN c \/ i = Len(c) + 1
    BY <1>2
  <2>. QED BY <2>1, <2>2, <2>3
<1>6. Rank(agentOutcome[a]) <= Rank(outcome')
  <2>1. /\ Rank(agentOutcome[a]) \in 0 .. 4 /\ Rank(outcome) \in 0 .. 4
        /\ Rank(outcome') \in 0 .. 4 /\ Rank(outcome) <= Rank(outcome')
    BY RankOrder, OutcomeGrows DEF TInv, TypeOK, AgentsTypeOK
  <2>. QED BY <2>1 DEF CoversAgent
<1>. QED BY <1>3, <1>5, <1>6 DEF CoversAgent

LEMMA CoverInit == Init => CoverInv
  BY DEF Init, CoverInv, OutcomesCover, CleanedCounts, AtStart, Rank

LEMMA CoverNext == TInv /\ TInv' /\ ControlInv /\ CoverInv /\ [Next]_vars => CoverInv'
<1> SUFFICES ASSUME TInv, TInv', ControlInv, \A a \in Agents : CoversAgent(a), [Next]_vars
             PROVE  \A a \in Agents : CoversAgent(a)'
  BY DEF CoverInv, CoversAgent, CleanedCounts, OutcomesCover
<1>1. ASSUME Engine \/ (\E r \in Requests : Request(r)) \/ ExternalCancel \/ UNCHANGED vars,
             NEW a \in Agents
      PROVE  CoversAgent(a)'
  <2>1. ASSUME work'[a] = AtStart, steps'[a] = <<>>, agentOutcome'[a] = "pass"
        PROVE  CoversAgent(a)'
    <3>1. Rank("pass") <= Rank(outcome')
      BY OutcomeGrows, RankOrder
    <3>2. work'[a].cleaned = <<>>
      BY <2>1 DEF AtStart
    <3>. QED BY <2>1, <3>1, <3>2 DEF CoversAgent
  <2>. QED BY <1>1, <2>1, AgentsKept, CoverFrame
<1>2. ASSUME NEW a \in Agents, Worker(a) \/ PolicyTimeout(a), NEW b \in Agents PROVE CoversAgent(b)'
  <2>1. CASE b # a
    BY <1>2, <2>1, OthersKept, CoverFrame
  <2>2. CASE b = a
    BY <1>2, <2>2, Workers, CoverMove, CoverCleanup, StaysPut, DispatchFacts, CoverFrame
  <2>. QED BY <2>1, <2>2
<1>. QED BY <1>1, <1>2 DEF Next

(* In every run no step or cleanup is worse than its agent's outcome, nor  *)
(* an agent than the run (progress, record, Execute).                      *)
THEOREM OutcomesNest == Spec => []OutcomesCover
<1>1. CoverInv => OutcomesCover
  BY DEF CoverInv
<1>. QED BY <1>1, TypeCorrect, Controlled, CoverInit, CoverNext, PTL DEF Spec

-----------------------------------------------------------------------------
(* The verdict                                                             *)

(* A step that leaves the problems ps in the report, or some of them.      *)
Reported(ps) ==
  /\ problems \subseteq problems' /\ problems' \subseteq problems \cup ps
  /\ problems' # problems => outcome' = "fail"
  /\ runCause # "none" => runCause' = runCause

(* But for an eviction, problems only come in, each of this round or of    *)
(* the run, and each makes the outcome a failure; a cause stays.           *)
LEMMA ReportFacts ==
  ASSUME TInv, [Next]_vars, ~StartRound
  PROVE  /\ problems \subseteq problems' /\ UNCHANGED <<round, evicted>>
         /\ problems' # problems => outcome' = "fail"
         /\ \A p \in problems' : p \in problems \/ p.round \in {0, round}
         /\ runCause # "none" => runCause' = runCause
<1>1. /\ "pass" \in Outcomes /\ "skip" \in Outcomes /\ {} \in SUBSET AllProblems
      /\ round \in 0 .. Rounds /\ 0 \in 0 .. Rounds
      /\ \A k, r : Problem(k, r).round = r
  BY HarnessAssumption DEF Outcomes, TInv, TypeOK, RunTypeOK, Problem
<1>2. UNCHANGED <<round, evicted>>
  <2>1. CASE Engine
    BY <2>1 DEF Engine, Start, Barrier, LeaveLoop, EndRun, NotifyEnding, CloseSinks, DropSinks,
                NotifyFinished, Return
  <2>2. ASSUME NEW a \in Agents, Worker(a) \/ PolicyTimeout(a) PROVE UNCHANGED <<round, evicted>>
    BY <2>2, OthersKept DEF run
  <2>3. CASE (\E r \in Requests : Request(r)) \/ ExternalCancel \/ UNCHANGED vars
    BY <2>3 DEF Request, ExternalCancel, vars, run
  <2>. QED BY <2>1, <2>2, <2>3 DEF Next
<1>3. \E ps : Reported(ps) /\ \A p \in ps : p.round \in {0, round}
  <2>1. ASSUME NEW o \in Outcomes, NEW r \in {0, round}, Publish(o, {}, r)
        PROVE  Reported({Problem("delivery", r)})
    BY <2>1, <1>1, PublishFacts DEF TInv, Reported
  <2>2. CASE Engine
    <3>1. CASE Start \/ Barrier \/ NotifyEnding \/ NotifyFinished
      <4>1. Publish("pass", {}, 0) \/ Publish("pass", {}, round)
        BY <3>1 DEF Start, Barrier, NotifyEnding, NotifyFinished
      <4>2. PICK r \in {0, round} : Publish("pass", {}, r)
        BY <4>1
      <4>3. Reported({Problem("delivery", r)})
        BY <4>2, <2>1, <1>1
      <4>. QED BY <4>3, <1>1
    <3>2. CASE LeaveLoop \/ EndRun \/ DropSinks \/ Return
      <4>1. Reported({})
        BY <3>2 DEF LeaveLoop, Quiet, EndRun, DropSinks, Return, Reported
      <4>. QED BY <4>1
    <3>3. CASE CloseSinks
      <4>1. Reported({Problem("delivery", 0)})
        BY <3>3 DEF CloseSinks, Reported
      <4>. QED BY <4>1, <1>1
    <3>. QED BY <2>2, <3>1, <3>2, <3>3 DEF Engine
  <2>3. ASSUME NEW a \in Agents, EndCheck(a)
        PROVE  \E ps : Reported(ps) /\ \A p \in ps : p.round \in {0, round}
    <3> DEFINE ps == IF FinalOutcome(a) # "pass" /\ check[a].err THEN {Problem("primary", round)} ELSE {}
    <3>1. FinalOutcome(a) \in Outcomes
      BY DEF FinalOutcome, Outcomes, TInv, TypeOK, AgentsTypeOK, Checks
    <3>2. ps \in SUBSET AllProblems /\ \A p \in ps : p.round = round
      BY <1>1 DEF Problem, AllProblems
    <3>3. Publish(FinalOutcome(a), ps, round)
      BY <2>3 DEF EndCheck
    <3>. HIDE DEF ps
    <3>4. Reported(ps \cup {Problem("delivery", round)})
      BY <3>1, <3>2, <3>3, <1>1, PublishFacts DEF TInv, Reported
    <3>5. \A p \in ps \cup {Problem("delivery", round)} : p.round \in {0, round}
      BY <3>2, <1>1
    <3>. QED BY <3>4, <3>5
  <2>4. ASSUME NEW a \in Agents, CleanupOp(a)
        PROVE  Reported({Problem("cleanup", round)})
    BY <2>4 DEF CleanupOp, Reported
  <2>5. ASSUME NEW a \in Agents, Worker(a) \/ PolicyTimeout(a), ~EndCheck(a), ~CleanupOp(a)
        PROVE  \/ Quiet \/ Publish("pass", {}, 0) \/ Publish("pass", {}, round)
               \/ Publish("skip", {}, round)
    BY <2>5 DEF Worker, PolicyTimeout, EnterTarget, SkippedStep, PassOver, StartCheck, Refuse,
       Block, Admit, Dispatch, Returns, Delay, LeaveTarget
  <2>6. ASSUME NEW a \in Agents, Worker(a) \/ PolicyTimeout(a), ~EndCheck(a)
        PROVE  \E ps : Reported(ps) /\ \A p \in ps : p.round \in {0, round}
    <3>1. CASE CleanupOp(a)
      <4>. QED BY <3>1, <2>4, <1>1
    <3>2. CASE Quiet
      <4>1. Reported({})
        BY <3>2 DEF Quiet, Reported
      <4>. QED BY <4>1
    <3>3. CASE \E o \in Outcomes, r \in {0, round} : Publish(o, {}, r)
      <4>1. PICK r \in {0, round} : Reported({Problem("delivery", r)})
        BY <3>3, <2>1
      <4>. QED BY <4>1, <1>1
    <3>. QED BY <2>5, <2>6, <3>1, <3>2, <3>3, <1>1
  <2>7. ASSUME NEW r \in Requests, Request(r) PROVE Reported({Problem("delivery", 0)})
    BY <2>7 DEF Request, Reported
  <2>8. CASE ExternalCancel \/ UNCHANGED vars
    <3>1. Reported({})
      BY <2>8 DEF ExternalCancel, vars, Reported
    <3>. QED BY <3>1
  <2>. QED BY <1>1, <2>2, <2>3, <2>6, <2>7, <2>8 DEF Next
<1>. QED BY <1>2, <1>3 DEF Reported

(* Up to the verdict nothing is decided; a failure is decided only over a  *)
(* listed problem, a stop only over a cause.                               *)
VerdictInv ==
  /\ problems # {} \/ evicted => outcome = "fail"
  /\ RetainsTwoRounds
  /\ eng \in {"new", "interval", "round", "ending"} => state = "running"
  /\ state = "failed" => problems # {}
  /\ state = "stopped" => runCause # "none" /\ outcome # "pass"
  /\ eng = "finished" /\ problems # {} => state = "failed"

LEMMA VerdictInit == Init => VerdictInv
  BY DEF Init, VerdictInv, RetainsTwoRounds

LEMMA VerdictRound == TInv /\ VerdictInv /\ StartRound => VerdictInv'
<1> SUFFICES ASSUME TInv, VerdictInv, StartRound PROVE VerdictInv'
  OBVIOUS
<1> DEFINE r == round + 1
<1>1. PICK failed \in Deliveries :
        /\ problems' = (problems \ Old(r)) \cup (IF failed THEN {Problem("delivery", r)} ELSE {})
        /\ outcome'  = IF failed THEN "fail" ELSE outcome
        /\ runCause' = IF failed THEN "delivery" ELSE runCause
  BY DEF StartRound
<1>2. /\ round' = r /\ evicted' = (evicted \/ Old(r) # {}) /\ eng = "interval" /\ eng' = "round"
      /\ state' = state
  BY DEF StartRound
<1>3. round \in Nat /\ \A p \in problems : p.round \in Nat
  BY HarnessAssumption DEF TInv, TypeOK, RunTypeOK, AllProblems
<1>4. state' = "running"
  BY <1>2 DEF VerdictInv
<1>5. problems' # {} \/ evicted' => outcome' = "fail"
  <2>1. Old(r) \subseteq problems
    BY DEF Old
  <2>2. CASE failed
    BY <1>1, <2>2
  <2>3. CASE ~failed /\ problems # {}
    BY <1>1, <2>3 DEF VerdictInv
  <2>4. CASE ~failed /\ problems = {}
    <3>1. Old(r) = {} /\ problems' = {}
      BY <1>1, <2>1, <2>4
    <3>2. evicted' => evicted
      BY <3>1, <1>2
    <3>. QED BY <1>1, <2>4, <3>1, <3>2 DEF VerdictInv
  <2>. QED BY <2>2, <2>3, <2>4
<1>6. RetainsTwoRounds'
  <2> SUFFICES ASSUME Loop, NEW p \in problems' PROVE p.round = 0 \/ p.round >= r - 1
    BY <1>2 DEF RetainsTwoRounds
  <2>1. CASE p = Problem("delivery", r)
    <3>1. p.round = r
      BY <2>1 DEF Problem
    <3>. QED BY <3>1, <1>3
  <2>2. CASE p \in problems /\ p \notin Old(r)
    <3>1. r > 2 /\ p.round # 0 => ~(p.round < r - 1)
      BY <2>2 DEF Old
    <3>. QED BY <3>1, <2>2, <1>3
  <2>. QED BY <2>1, <2>2, <1>1
<1>. QED BY <1>2, <1>4, <1>5, <1>6 DEF VerdictInv

LEMMA VerdictNext == TInv /\ TInv' /\ VerdictInv /\ [Next]_vars => VerdictInv'
<1> SUFFICES ASSUME TInv, TInv', VerdictInv, [Next]_vars, ~StartRound PROVE VerdictInv'
  BY VerdictRound
<1>1. /\ problems \subseteq problems' /\ UNCHANGED <<round, evicted>>
      /\ problems' # problems => outcome' = "fail"
      /\ \A p \in problems' : p \in problems \/ p.round \in {0, round}
      /\ runCause # "none" => runCause' = runCause
  BY ReportFacts
<1>2. /\ outcome = "fail" => outcome' = "fail"
      /\ outcome # "pass" => outcome' # "pass"
  <2>1. /\ Rank(outcome) <= Rank(outcome') /\ outcome \in Outcomes
        /\ outcome = "fail" => outcome' = "fail"
    BY OutcomeGrows
  <2>2. outcome # "pass" => Rank(outcome) >= 1 /\ Rank(outcome) \in Nat
    BY <2>1 DEF Rank, Outcomes
  <2>3. Rank("pass") = 0
    BY DEF Rank
  <2>. QED BY <2>1, <2>2, <2>3
<1>3. problems' # {} \/ evicted' => outcome' = "fail"
  BY <1>1, <1>2 DEF VerdictInv
<1>4. eng' = "round" => eng = "round"
  BY OthersKept, AgentsKept DEF Next, run, Engine, Start, StartRound, Barrier, LeaveLoop, EndRun,
     NotifyEnding, CloseSinks, DropSinks, NotifyFinished, Return
<1>5. RetainsTwoRounds'
  <2> SUFFICES ASSUME Loop, eng' = "round", NEW p \in problems'
               PROVE  p.round = 0 \/ p.round >= round' - 1
    BY DEF RetainsTwoRounds
  <2>1. eng = "round" /\ round \in Nat
    BY <1>4, HarnessAssumption DEF TInv, TypeOK, RunTypeOK
  <2>2. CASE p \in problems
    BY <2>1, <2>2, <1>1 DEF VerdictInv, RetainsTwoRounds
  <2>3. CASE p.round \in {0, round}
    BY <2>1, <2>3, <1>1
  <2>. QED BY <2>2, <2>3, <1>1
<1>6. CASE EndRun
  <2>1. runCause' = runCause /\ problems' = problems /\ eng' = "notify"
    BY <1>6 DEF EndRun
  <2>2. CASE problems # {}
    BY <1>1, <1>3, <1>5, <1>6, <2>1, <2>2 DEF EndRun, EndVerdict, Verdict, VerdictInv
  <2>3. CASE problems = {} /\ runCause # "none"
    <3>1. state' = "stopped" /\ outcome' = CombineOutcome(outcome, "canceled")
      BY <1>6, <2>3 DEF EndRun, EndVerdict, Verdict
    <3>2. outcome' # "pass"
      BY <3>1, <1>2 DEF CombineOutcome, Rank
    <3>. QED BY <1>3, <1>5, <2>1, <2>3, <3>1, <3>2 DEF VerdictInv
  <2>4. CASE problems = {} /\ runCause = "none"
    BY <1>3, <1>5, <1>6, <2>1, <2>4 DEF EndRun, EndVerdict, Verdict, VerdictInv
  <2>. QED BY <2>2, <2>3, <2>4
<1>7. CASE DropSinks \/ Return
  <2>1. /\ UNCHANGED <<runCause, problems>> /\ eng' \in {"dropped", "finished"}
        /\ state' = IF problems # {} THEN "failed" ELSE state
    BY <1>7 DEF DropSinks, Return, Verdict
  <2>. QED BY <1>2, <1>3, <1>5, <2>1 DEF VerdictInv
<1>8. CASE ~EndRun /\ ~DropSinks /\ ~Return
  <2>1. /\ state' = state
        /\ eng' \in {"new", "interval", "round", "ending"} => eng \in {"new", "interval", "round", "ending"}
        /\ eng' = "finished" => eng = "finished" /\ problems' = problems
    <3>1. CASE Engine
      BY <1>8, <3>1 DEF Engine, Start, Barrier, LeaveLoop, NotifyEnding, CloseSinks, NotifyFinished
    <3>2. ASSUME NEW a \in Agents, Worker(a) \/ PolicyTimeout(a)
          PROVE  UNCHANGED run /\ eng = "round"
      <4>1. UNCHANGED run
        BY <3>2, OthersKept
      <4>2. eng = "round"
        BY <3>2 DEF Worker, PolicyTimeout, EnterTarget, SkippedStep, PassOver, StartCheck, Refuse,
           Block, Admit, Dispatch, Returns, Delay, EndCheck, CleanupOp, LeaveTarget, Kind, Reached, InCheck
      <4>. QED BY <4>1, <4>2
    <3>3. ASSUME NEW r \in Requests, Request(r) PROVE UNCHANGED run /\ eng # "finished"
      BY <3>3 DEF Request, Bound
    <3>4. CASE ExternalCancel \/ UNCHANGED vars
      BY <3>4 DEF ExternalCancel, vars, run
    <3>. QED BY <3>1, <3>2, <3>3, <3>4 DEF Next, run
  <2>. QED BY <1>1, <1>2, <1>3, <1>5, <2>1 DEF VerdictInv
<1>. QED BY <1>6, <1>7, <1>8

(* In every run, of any number of rounds, what a loop evicts still counts, *)
(* and the report returned is a failure exactly if it lists a problem and  *)
(* never a plain pass of a stopped run (evictBefore, Execute).             *)
THEOREM VerdictStands == Spec => []VerdictRemembers
<1>1. VerdictInv => VerdictRemembers
  BY DEF VerdictInv, VerdictRemembers, FinalVerdict
<1>. QED BY <1>1, TypeCorrect, VerdictInit, VerdictNext, PTL DEF Spec

(***************************************************************************)
(* What one attempt of a check is judged by: the answers of its parts      *)
(* (ProbeEvidence) and the findings on a report (WifiEvidence, IpStatus),  *)
(* for every report, where the runs judge bounded ones.                    *)
(***************************************************************************)
Probe == INSTANCE ProbeEvidence
Wifi == INSTANCE WifiEvidence
Ip == INSTANCE IpStatus

(* An answer of one part; Words are the agent's words for a status.        *)
Answers(Words) ==
  [error : BOOLEAN, nil : BOOLEAN, status : Words, payload : BOOLEAN, scan : {"none", "fresh", "cached"}]

LEMMA Listed == ASSUME NEW V, NEW n \in Nat, NEW h \in [1 .. n -> V] PROVE h \in Seq(V) /\ Len(h) = n
  OBVIOUS

(* ProbeEvidence!FreshIsFresh (ExecuteOperation, evaluateAttempt), for all *)
(* answers of the agent, all required hops and all traces: a check that    *)
(* asked for a fresh scan passes only on one.                              *)
THEOREM FreshAsAsked ==
  ASSUME NEW wantFresh \in BOOLEAN, NEW Words, NEW fresh \in Answers(Words), NEW main \in Answers(Words),
         NEW Hops, NEW required \in Seq(Hops), NEW trace, trace.payload \in BOOLEAN
  PROVE  Probe!FreshIsFresh(wantFresh, fresh, main, required, trace)
<1> DEFINE r == Probe!ExecuteOperation(wantFresh, fresh, main, required, trace)
           parts == IF wantFresh THEN 2 ELSE 1
           hops == Probe!ViaFindings(required, trace)
           scan == IF wantFresh THEN Probe!FreshFinding(fresh) ELSE <<>>
           lack == Probe!PayloadFinding(main)
           found == lack \o scan \o hops
           refused == [fresh EXCEPT !.error = fresh.error \/ fresh.nil, !.payload = FALSE,
                                    !.scan = Probe!ScanSource(fresh)]
           merged == [main EXCEPT
                        !.status = IF wantFresh /\ ~main.nil THEN Probe!MergedStatus(fresh, main) ELSE @,
                        !.scan = IF wantFresh /\ ~main.nil /\ main.payload THEN Probe!ScanSource(fresh) ELSE @]
           With(answer, findings, n) ==
             [error |-> answer.error, nil |-> answer.nil, status |-> answer.status,
              payload |-> answer.payload, scan |-> answer.scan, findings |-> findings, parts |-> n]
<1>. SUFFICES ASSUME Probe!EvaluateAttempt(r, <<>>) = "pass"
              PROVE  /\ ~main.error /\ main.status = "ok" /\ main.payload
                     /\ wantFresh => fresh.status = "ok" /\ r.parts = 2 /\ r.scan = "fresh"
                     /\ Len(required) > 0 => Probe!TraceObservations(trace).observed
  <2>1. Probe!TraceObservations(trace).observed => trace.reached # {} /\ trace.observationError = ""
    BY Zenon DEF Probe!TraceObservations
  <2>. QED BY <2>1, Zenon DEF Probe!FreshIsFresh
<1>1. /\ ~r.error /\ ~r.nil /\ r.payload /\ r.status = "ok"
      /\ \A i \in DOMAIN (r.findings \o <<>>) : (r.findings \o <<>>)[i] \notin {"fail", "missing"}
  BY Zenon DEF Probe!EvaluateAttempt
<1>2. r = IF wantFresh /\ Probe!StopsAfterFresh(fresh) THEN With(refused, <<>>, 1)
          ELSE IF main.error THEN With(main, <<>>, parts) ELSE With(merged, found, parts)
  BY Zenon DEF Probe!ExecuteOperation
<1>3. refused.payload = FALSE
  BY DEF Answers
<1>4. ~(wantFresh /\ Probe!StopsAfterFresh(fresh))
  <2>. SUFFICES ASSUME wantFresh /\ Probe!StopsAfterFresh(fresh) PROVE FALSE
    OBVIOUS
  <2>1. r = With(refused, <<>>, 1)
    BY <1>2
  <2>. HIDE DEF refused, r
  <2>. QED BY <1>1, <1>3, <2>1
<1>5. ~main.error
  <2>. SUFFICES ASSUME main.error PROVE FALSE
    OBVIOUS
  <2>1. r = With(main, <<>>, parts)
    BY <1>2, <1>4
  <2>. HIDE DEF r
  <2>. QED BY <1>1, <2>1
<1>6. r = With(merged, found, parts)
  BY <1>2, <1>4, <1>5
<1>7. merged.nil = main.nil /\ merged.payload = main.payload
  BY DEF Answers
<1>8. ~main.nil /\ main.payload /\ merged.status = "ok" /\ r.findings = found /\ r.parts = parts
      /\ r.scan = merged.scan
  <2>. HIDE DEF merged, r, found, parts
  <2>. QED BY <1>1, <1>6, <1>7
<1>. HIDE DEF r
<1>9. wantFresh => merged.status = Probe!MergedStatus(fresh, main) /\ merged.scan = Probe!ScanSource(fresh)
  BY <1>8 DEF Answers
<1>10. ~wantFresh => merged.status = main.status
  BY DEF Answers
<1>. HIDE DEF merged
<1>11. /\ lack \in Seq({"fail", "missing", "pass"}) /\ scan \in Seq({"fail", "missing", "pass"})
       /\ hops \in Seq({"fail", "missing", "pass"}) /\ Len(hops) = Len(required)
       /\ \A i \in 1 .. Len(required) : ~Probe!TraceObservations(trace).observed => hops[i] = "missing"
       /\ scan = <<>> \/ (wantFresh /\ scan = Probe!FreshFinding(fresh) /\ scan \in {<<"fail">>, <<"missing">>})
       /\ wantFresh => scan = Probe!FreshFinding(fresh)
  <2>0. /\ <<>> \in Seq({"fail", "missing", "pass"})
        /\ <<"fail">> \in Seq({"fail", "missing", "pass"})
        /\ <<"missing">> \in Seq({"fail", "missing", "pass"})
    OBVIOUS
  <2>1. lack \in Seq({"fail", "missing", "pass"})
    <3>1. lack \in {<<>>, <<"missing">>}
      BY Zenon DEF Probe!PayloadFinding
    <3>. HIDE DEF lack
    <3>. QED BY <2>0, <3>1, Zenon
  <2>2. Probe!FreshFinding(fresh) \in {<<>>, <<"fail">>, <<"missing">>}
    BY DEF Probe!FreshFinding
  <2>3. scan \in Seq({"fail", "missing", "pass"})
    <3>1. scan \in {<<>>, <<"fail">>, <<"missing">>}
      BY <2>2, Zenon
    <3>. HIDE DEF scan
    <3>. QED BY <2>0, <3>1, Zenon
  <2> DEFINE seen(i) == \E k \in DOMAIN trace.hops : required[i] \in trace.hops[k]
             known == Probe!TraceObservations(trace).observed
  <2>4. hops = [i \in 1 .. Len(required) |-> Probe!Judge(known, seen(i))]
    BY DEF Probe!ViaFindings
  <2>5. \A ok, holds : /\ Probe!Judge(ok, holds) \in {"fail", "missing", "pass"}
                       /\ ~ok => Probe!Judge(ok, holds) = "missing"
    BY DEF Probe!Judge
  <2>. HIDE DEF hops, seen
  <2>6. \A i \in 1 .. Len(required) : hops[i] = Probe!Judge(known, seen(i))
    BY <2>4
  <2>7. \A i \in 1 .. Len(required) :
          hops[i] \in {"fail", "missing", "pass"} /\ (~known => hops[i] = "missing")
    BY <2>5, <2>6, Zenon
  <2>8. hops \in Seq({"fail", "missing", "pass"}) /\ Len(hops) = Len(required)
    <3>1. hops \in [1 .. Len(required) -> {"fail", "missing", "pass"}]
      BY <2>4, <2>7
    <3>2. Len(required) \in Nat
      OBVIOUS
    <3>. HIDE DEF hops
    <3>. QED BY <3>1, <3>2, Listed
  <2>. QED BY <2>1, <2>2, <2>3, <2>7, <2>8
<1>. HIDE DEF lack, scan, hops
<1>12. \A i \in 1 .. Len(found) : found[i] \notin {"fail", "missing"}
  <2>1. found \in Seq({"fail", "missing", "pass"})
    BY <1>11 DEF found
  <2>. HIDE DEF found
  <2>2. found \o <<>> = found /\ DOMAIN found = 1 .. Len(found)
    BY <2>1
  <2>3. r.findings \o <<>> = found
    BY <1>8, <2>2
  <2>. QED BY <1>1, <2>2, <2>3
<1>13. scan = <<>>
  <2>. SUFFICES ASSUME scan # <<>> PROVE FALSE
    OBVIOUS
  <2>1. scan \in {<<"fail">>, <<"missing">>}
    BY <1>11
  <2>2. Len(lack) + 1 \in 1 .. Len(found) /\ found[Len(lack) + 1] = scan[1]
    BY <1>11, <2>1 DEF found
  <2>. QED BY <1>12, <2>1, <2>2
<1>14. Len(required) > 0 => Probe!TraceObservations(trace).observed
  <2>. SUFFICES ASSUME Len(required) > 0, ~Probe!TraceObservations(trace).observed PROVE FALSE
    OBVIOUS
  <2>1. hops[1] = "missing" /\ Len(hops) > 0
    BY <1>11
  <2>2. found = lack \o hops
    BY <1>11, <1>13 DEF found
  <2>3. Len(lack) + 1 \in 1 .. Len(found) /\ found[Len(lack) + 1] = hops[1]
    BY <1>11, <2>1, <2>2
  <2>. QED BY <1>12, <2>1, <2>3
<1>15. wantFresh => fresh.status = "ok" /\ main.status = "ok" /\ merged.scan = "fresh"
  <2>. SUFFICES ASSUME wantFresh PROVE fresh.status = "ok" /\ main.status = "ok" /\ merged.scan = "fresh"
    OBVIOUS
  <2>1. Probe!FreshFinding(fresh) = <<>>
    BY <1>11, <1>13
  <2>2. ~fresh.nil /\ fresh.scan # "none" /\ fresh.status = "ok"
    BY <2>1 DEF Probe!FreshFinding
  <2>3. Probe!MergedStatus(fresh, main) = main.status
    BY <2>1 DEF Probe!MergedStatus
  <2>. QED BY <1>8, <1>9, <2>2, <2>3 DEF Probe!ScanSource
<1>. QED BY <1>5, <1>8, <1>10, <1>14, <1>15

(* WifiEvidence!BetweenSound (OrderedMetric.Between), for all ranges and   *)
(* values: the two findings of a range pass exactly on a value in it.      *)
THEOREM RangeSound ==
  ASSUME NEW low \in Int, NEW high \in Int, NEW obs \in [ok : BOOLEAN, value : Int]
  PROVE  Wifi!BetweenSound(low, high, obs)
<1> DEFINE both == Wifi!Evaluate(Wifi!Between(low, high), obs)
           gated == Wifi!Gate(obs.ok, obs.value > low)
           bools == Wifi!EvaluateBool(<<TRUE, FALSE>>, gated)
<1>0. obs.value \in Int /\ obs.ok \in BOOLEAN
  OBVIOUS
<1>1. PICK v \in Int, ok \in BOOLEAN : obs.value = v /\ obs.ok = ok
  BY <1>0, Zenon
<1> DEFINE least == [op |-> ">=", value |-> low]
           most == [op |-> "<=", value |-> high]
<1>2. DOMAIN both = {1, 2} /\ both[1] = Wifi!Judge(ok, ok /\ v >= low) /\ both[2] = Wifi!Judge(ok, ok /\ v <= high)
  <2>1. Wifi!Between(low, high) = <<least, most>>
    BY DEF Wifi!Between
  <2>2. (Wifi!Holds(least, v) <=> v >= low) /\ (Wifi!Holds(most, v) <=> v <= high)
    BY DEF Wifi!Holds
  <2>. HIDE DEF least, most
  <2>3. /\ DOMAIN both = {1, 2}
        /\ both[1] = Wifi!Judge(obs.ok, obs.ok /\ Wifi!Holds(least, obs.value))
        /\ both[2] = Wifi!Judge(obs.ok, obs.ok /\ Wifi!Holds(most, obs.value))
    BY <2>1 DEF Wifi!Evaluate
  <2>. HIDE DEF both
  <2>. QED BY <1>1, <2>2, <2>3, Zenon DEF Wifi!Judge
<1>. HIDE DEF both
<1>4. (\A i \in DOMAIN both : both[i] = "pass") <=> ok /\ v \in low .. high
  <2>1. v \in low .. high <=> v >= low /\ v <= high
    OBVIOUS
  <2>. QED BY <1>2, <2>1, Zenon DEF Wifi!Judge
<1>5. ~Wifi!BetweenValid(low, high) => \E i \in DOMAIN both : both[i] # "pass"
  <2>. SUFFICES ASSUME ~(low <= high) PROVE both[1] # "pass" \/ both[2] # "pass"
    BY <1>2 DEF Wifi!BetweenValid
  <2>1. ~(v >= low) \/ ~(v <= high)
    OBVIOUS
  <2>2. CASE ~(v >= low)
    BY <1>2, <2>2 DEF Wifi!Judge
  <2>3. CASE ~(v <= high)
    BY <1>2, <2>3 DEF Wifi!Judge
  <2>. QED BY <2>1, <2>2, <2>3
<1>6. bools[1] # bools[2] \/ bools = <<"missing", "missing">>
  <2> DEFINE wanted == <<TRUE, FALSE>>
             found(i) == Wifi!Judge(gated.ok, gated.value = wanted[i])
  <2>1. bools = <<Wifi!Judge(gated.ok, gated.value = TRUE), Wifi!Judge(gated.ok, gated.value = FALSE)>>
    <3>1. DOMAIN wanted = 1 .. 2 /\ wanted[1] = TRUE /\ wanted[2] = FALSE
      OBVIOUS
    <3>. HIDE DEF gated
    <3>2. bools = [i \in DOMAIN wanted |-> found(i)]
      BY Zenon DEF Wifi!EvaluateBool
    <3>. HIDE DEF wanted
    <3>3. bools = [i \in 1 .. 2 |-> found(i)]
      BY <3>1, <3>2
    <3>. HIDE DEF found
    <3>4. bools = <<found(1), found(2)>>
      BY <3>3
    <3>. QED BY <3>1, <3>4, Zenon DEF found
  <2>2. CASE ok
    <3>1. gated.ok = TRUE /\ gated.value = (v > low)
      BY <1>1, <2>2 DEF Wifi!Gate, Wifi!Observed
    <3>2. bools[1] # bools[2]
      BY <2>1, <3>1 DEF Wifi!Judge
    <3>. QED BY <3>2
  <2>3. CASE ~ok
    <3>1. gated.ok = FALSE
      BY <1>1, <2>3 DEF Wifi!Gate, Wifi!Unobserved
    <3>. QED BY <2>1, <3>1 DEF Wifi!Judge
  <2>. QED BY <2>2, <2>3
<1>. QED BY <1>1, <1>4, <1>5, <1>6 DEF Wifi!BetweenSound, both

(* WifiEvidence!SupportDecides, for every report: a capability that is     *)
(* found supported and unsupported is on both lists of it.                 *)
THEOREM CapabilityDecided ==
  ASSUME NEW caps, caps.payload \in BOOLEAN, NEW kind, NEW value
  PROVE  Wifi!SupportDecides(caps, kind, value)
<1> DEFINE v   == Wifi!NormalizeCapability(kind, value)
           in  == v \in Wifi!NormalizeAll(kind, caps.supported[kind])
           out == v \in Wifi!NormalizeAll(kind, caps.unsupported[kind])
           yes == Wifi!Support(caps, kind, value, TRUE)
           no  == Wifi!Support(caps, kind, value, FALSE)
<1>1. /\ yes = Wifi!Judge(caps.payload /\ (in \/ out), in)
      /\ no = Wifi!Judge(caps.payload /\ (in \/ out), out)
  BY DEF Wifi!Support
<1>2. yes # "missing" => caps.payload
  BY <1>1, Zenon DEF Wifi!Judge
<1>3. (yes = "missing" <=> no = "missing") /\ ({yes, no} = {"pass"} => in /\ out)
  <2>. HIDE DEF in, out
  <2>1. /\ yes \in {"pass", "fail", "missing"} /\ no \in {"pass", "fail", "missing"}
        /\ yes = "missing" <=> ~(caps.payload /\ (in \/ out))
        /\ no = "missing" <=> ~(caps.payload /\ (in \/ out))
        /\ yes = "pass" => in
        /\ no = "pass" => out
    BY <1>1, Zenon DEF Wifi!Judge
  <2>. HIDE DEF yes, no
  <2>. QED BY <2>1
<1>4. caps.payload => Wifi!CapabilityErrors(caps).ok
  BY DEF Wifi!CapabilityErrors, Wifi!Gate, Wifi!Observed
<1>5. Wifi!FieldEq(caps, "a", 1) = "pass" => caps.payload
  BY Zenon DEF Wifi!FieldEq
<1>. QED BY <1>2, <1>3, <1>4, <1>5, Zenon DEF Wifi!SupportDecides, Wifi!Support

LEMMA Least == ASSUME NEW S, S \subseteq Nat, S # {} PROVE \E m \in S : \A n \in S : m <= n
<1> DEFINE R == OpToRel(<, Nat)
<1>1. PICK m \in S : \A n \in S : ~ (<<n, m>> \in R)
  BY NatLessThanWellFounded, WFMin, Zenon
<1>2. \A n \in S : ~ (<<n, m>> \in {ss \in Nat \X Nat : ss[1] < ss[2]})
  BY <1>1, Zenon DEF OpToRel
<1>3. \A n \in S : m <= n
  <2>. SUFFICES ASSUME NEW n \in S PROVE m <= n
    OBVIOUS
  <2>1. <<n, m>> \in Nat \X Nat /\ n \in Nat /\ m \in Nat
    OBVIOUS
  <2>2. ~(n < m)
    BY <1>2, <2>1
  <2>. QED BY <2>1, <2>2
<1>. QED BY <1>3

(* The strings of a report: prefixes and addresses of the two families,    *)
(* with any numbers, and any words.                                        *)
Tokens(Words) ==
  {Ip!Prefix(f, n, l) : f \in {"ipv4", "ipv6"}, n \in Nat, l \in Nat}
    \cup {Ip!Addr(f, n) : f \in {"ipv4", "ipv6"}, n \in Nat} \cup {Ip!Word(w) : w \in Words}

LEMMA Pair == \A a, b : <<a, b>>[1] = a /\ <<a, b>>[2] = b
  OBVIOUS

Empty(w) == w = ""

LEMMA PrefixTokens ==
  ASSUME NEW Words, NEW t \in Tokens(Words), t.k = "prefix"
  PROVE  t.fam \in {"ipv4", "ipv6"} /\ t.w # "default" /\ ~Empty(t.fam)
<1>1. CASE \E f \in {"ipv4", "ipv6"}, n \in Nat, l \in Nat : t = Ip!Prefix(f, n, l)
  <2>1. t.fam \in {"ipv4", "ipv6"} /\ t.w # "default"
    BY <1>1 DEF Ip!Prefix
  <2>2. ~Empty("ipv4") /\ ~Empty("ipv6")
    BY Zenon DEF Empty
  <2>. QED BY <2>1, <2>2
<1>2. CASE \E f \in {"ipv4", "ipv6"}, n \in Nat : t = Ip!Addr(f, n)
  <2>1. t.k = "addr"
    BY <1>2 DEF Ip!Addr
  <2>. QED BY <2>1
<1>3. CASE \E w \in Words : t = Ip!Word(w)
  <2>1. PICK w \in Words : t = Ip!Word(w)
    BY <1>3
  <2> DEFINE none == ""
  <2>2. t = [k |-> "word", fam |-> none, num |-> 0, len |-> 0, w |-> w]
    BY <2>1, Zenon DEF Ip!Word
  <2>. HIDE DEF none
  <2>3. t.k = "word"
    BY <2>2
  <2>. QED BY <2>3
<1>. QED BY <1>1, <1>2, <1>3 DEF Tokens

LEMMA PrefixFamily ==
  ASSUME NEW t, t.w # "default", t.k = "prefix", t.len = 0
  PROVE  Ip!RouteDestinationFamily(t) = <<t.fam, TRUE>>
<1> DEFINE other == <<"", FALSE>>
           bare == <<"", TRUE>>
<1>1. Ip!RouteDestinationFamily(t) =
        IF t.w = "default" THEN bare ELSE IF t.k = "prefix" /\ t.len = 0 THEN <<t.fam, TRUE>> ELSE other
  BY Zenon DEF Ip!RouteDestinationFamily
<1>. HIDE DEF other, bare
<1>. QED BY <1>1

(* The route the typed reader takes for a default route is one for YAML.   *)
LEMMA TypedIsDefault ==
  ASSUME NEW Words, NEW fields \in Seq(Tokens(Words)), Ip!ParseRoute(fields).default
  PROVE  /\ Ip!DefaultRouteFamily(fields)[2] = TRUE
         /\ Ip!DefaultRouteFamily(fields)[1] = Ip!ParseRoute(fields).family
         /\ Ip!DefaultRouteFamily(fields) = <<Ip!ParseRoute(fields).family, TRUE>>
<1> DEFINE first == fields[1]
           r == Ip!ParseRoute(fields)
           to == Ip!RouteDestinationFamily(first)
<1>1. fields # <<>> /\ first.k = "prefix" /\ Ip!IsDefaultPrefix(first) /\ r.family = first.fam
  BY Zenon DEF Ip!ParseRoute
<1>2. first \in Tokens(Words)
  BY <1>1
<1>3. first.w # "default" /\ ~Empty(first.fam) /\ first.len = 0
  BY <1>1, <1>2, PrefixTokens DEF Ip!IsDefaultPrefix
<1>4. to = <<first.fam, TRUE>>
  BY <1>1, <1>3, PrefixFamily
<1>5. to[1] = first.fam /\ to[2] = TRUE
  BY <1>4
<1>6. Ip!DefaultRouteFamily(fields) = to
  BY <1>1, <1>3, <1>5, Zenon DEF Ip!DefaultRouteFamily, Empty
<1>. QED BY <1>1, <1>4, <1>5, <1>6, Zenon

(* So is the route the gateway to ping is read from.                       *)
LEMMA GatewayIsDefault ==
  ASSUME NEW fields, Ip!GatewayOf(fields) # Ip!NoGateway
  PROVE  Ip!DefaultRouteFamily(fields)[2] = TRUE
<1> DEFINE to == Ip!RouteDestinationFamily(fields[1])
           gates == {i \in Ip!After(fields, {"->", "via"}) : fields[i + 1].k \in {"addr", "prefix"}}
<1>1. fields # <<>> /\ to[2]
  BY Zenon DEF Ip!GatewayOf
<1>2. to[2] = TRUE
  <2>1. \/ to = <<"", TRUE>> \/ to = <<"", FALSE>> \/ to = <<fields[1].fam, TRUE>>
    BY Zenon DEF Ip!RouteDestinationFamily
  <2>. QED BY <1>1, <2>1, Pair, Zenon
<1>3. \/ Ip!DefaultRouteFamily(fields) = to
      \/ Ip!DefaultRouteFamily(fields) = <<fields[Ip!Min(gates) + 1].fam, TRUE>>
  BY <1>1, Zenon DEF Ip!DefaultRouteFamily
<1>. QED BY <1>2, <1>3, Pair, Zenon

LEMMA FirstFound ==
  ASSUME NEW routes, DOMAIN routes \subseteq Nat, NEW f,
         Ip!DefaultGatewayOf(routes, f) # Ip!NoGateway
  PROVE  \E i \in DOMAIN routes : Ip!DefaultGatewayOf(routes, f) = Ip!GatewayOf(routes[i])
<1> DEFINE hit == {i \in DOMAIN routes : Ip!GatewayOf(routes[i]).family = f}
<1>1. hit # {} /\ Ip!DefaultGatewayOf(routes, f) = Ip!GatewayOf(routes[Ip!Min(hit)])
  BY Zenon DEF Ip!DefaultGatewayOf
<1>2. hit \subseteq Nat /\ hit \subseteq DOMAIN routes
  OBVIOUS
<1>. HIDE DEF hit
<1>3. \E m \in hit : \A n \in hit : m <= n
  BY <1>1, <1>2, Least
<1>4. Ip!Min(hit) \in hit
  BY <1>3, Zenon DEF Ip!Min
<1>. QED BY <1>1, <1>2, <1>4, Zenon

LEMMA Greatest ==
  ASSUME NEW n \in Nat, NEW S, S \subseteq 1 .. n, S # {}
  PROVE  Ip!Max(S) \in S /\ \A x \in S : Ip!Max(S) >= x
<1> DEFINE D == {n - x : x \in S}
<1>1. D \subseteq Nat /\ D # {}
  <2>1. \A x \in 1 .. n : n - x \in Nat
    OBVIOUS
  <2>. QED BY <2>1, Zenon
<1>2. PICK m \in D : \A d \in D : m <= d
  BY <1>1, Least
<1>3. PICK x \in S : m = n - x
  BY <1>2
<1>4. \A y \in S : x >= y
  <2>. TAKE y \in S
  <2>1. n - x <= n - y /\ x \in 1 .. n /\ y \in 1 .. n
    BY <1>2, <1>3
  <2>. QED BY <2>1
<1>. QED BY <1>4, Zenon DEF Ip!Max

LEMMA GreatestOfPart ==
  ASSUME NEW n \in Nat, NEW S, S \subseteq 1 .. n, NEW T, T \subseteq S, Ip!Max(S) \in T
  PROVE  Ip!Max(T) = Ip!Max(S)
<1>1. T # {} /\ S # {} /\ T \subseteq 1 .. n
  OBVIOUS
<1>2. Ip!Max(T) \in T /\ Ip!Max(T) >= Ip!Max(S)
  BY <1>1, Greatest
<1>3. Ip!Max(S) >= Ip!Max(T)
  BY <1>1, <1>2, Greatest
<1>4. Ip!Max(T) \in 1 .. n /\ Ip!Max(S) \in 1 .. n
  BY <1>1, <1>2
<1>. QED BY <1>2, <1>3, <1>4

(* What the typed reader's record holds.                                   *)
LEMMA TypedParts ==
  ASSUME NEW r, r # <<>>
  PROVE  LET typed == Ip!ParseRoute(r)
             gates == {i \in Ip!After(r, {"->", "via"}) : r[i + 1].k = "addr"}
             devs  == Ip!After(r, {"dev"})
             end   == r[Len(r)]
         IN /\ typed.default <=> r[1].k = "prefix" /\ Ip!IsDefaultPrefix(r[1])
            /\ gates # {} => typed.hasGateway /\ typed.gateway = r[Ip!Max(gates) + 1]
            /\ devs # {} => typed.interface = r[Ip!Max(devs) + 1].w
            /\ devs = {} /\ end.k = "word" /\ ~Empty(end.w) /\ end.w \notin {"unreachable", "->"}
                 => typed.interface = end.w
<1>1. Ip!ParseRoute(r).default <=> r[1].k = "prefix" /\ Ip!IsDefaultPrefix(r[1])
  BY Zenon DEF Ip!ParseRoute
<1> DEFINE typed == Ip!ParseRoute(r)
           gates == {i \in Ip!After(r, {"->", "via"}) : r[i + 1].k = "addr"}
           devs  == Ip!After(r, {"dev"})
           end   == r[Len(r)]
<1>2. gates # {} => typed.hasGateway /\ typed.gateway = r[Ip!Max(gates) + 1]
  BY Zenon DEF Ip!ParseRoute
<1>3. devs # {} => typed.interface = r[Ip!Max(devs) + 1].w
  BY Zenon DEF Ip!ParseRoute
<1>4. devs = {} /\ end.k = "word" /\ ~Empty(end.w) /\ end.w \notin {"unreachable", "->"}
        => typed.interface = end.w
  BY Zenon DEF Ip!ParseRoute, Empty
<1>. QED BY <1>1, <1>2, <1>3, <1>4, Zenon

(* What the gateway reader takes for a gateway is the typed reader's.      *)
LEMMA GatewayParts ==
  ASSUME NEW r, Ip!GatewayOf(r) # Ip!NoGateway
  PROVE  LET gates == Ip!After(r, {"->", "via"})
             devs  == Ip!After(r, {"dev"})
         IN /\ r # <<>> /\ gates # {} /\ r[Ip!Max(gates) + 1].k = "addr"
            /\ Ip!GatewayOf(r).gateway = r[Ip!Max(gates) + 1]
            /\ devs # {} => Ip!GatewayOf(r).interface = r[Ip!Max(devs) + 1].w
  BY Zenon DEF Ip!GatewayOf

LEMMA OneRoute ==
  ASSUME NEW Words, NEW r \in Seq(Tokens(Words)), r # <<>>
  PROVE  Ip!RouteAgrees(r)
<1> DEFINE typed == Ip!ParseRoute(r)
           yaml == Ip!DefaultRouteFamily(r)
           g == Ip!GatewayOf(r)
           all == Ip!After(r, {"->", "via"})
           gates == {i \in all : r[i + 1].k = "addr"}
           devs == Ip!After(r, {"dev"})
           end == r[Len(r)]
           named == devs # {} \/ (end = Ip!Word(g.interface) /\ g.interface \notin {"unreachable", "->"})
<1>1. typed.default => yaml = <<typed.family, TRUE>>
  BY TypedIsDefault, Zenon
<1>2. yaml[2] => typed.default \/ r[1].w = "default" \/ r[1].num # 0
  <2>. SUFFICES ASSUME yaml[2], r[1].w # "default" PROVE typed.default \/ r[1].num # 0
    BY Zenon
  <2> DEFINE to == Ip!RouteDestinationFamily(r[1])
             no == <<"", FALSE>>
  <2>1. to[2]
    <3>1. ~to[2] => yaml = no
      BY Zenon DEF Ip!DefaultRouteFamily
    <3>2. no[2] = FALSE
      BY Pair, Zenon
    <3>. QED BY <3>1, <3>2, Zenon
  <2>2. r[1].k = "prefix" /\ r[1].len = 0
    <3>1. ~(r[1].k = "prefix" /\ r[1].len = 0) => to = no
      BY Zenon DEF Ip!RouteDestinationFamily
    <3>2. no[2] = FALSE
      BY Pair, Zenon
    <3>. QED BY <2>1, <3>1, <3>2, Zenon
  <2>. QED BY <2>2, TypedParts, Zenon DEF Ip!IsDefaultPrefix
<1>3. all \subseteq 1 .. (Len(r) - 1) /\ Len(r) - 1 \in Nat
  BY DEF Ip!After
<1>4. g # Ip!NoGateway => yaml[2] /\ typed.hasGateway /\ typed.gateway = g.gateway
  <2>. SUFFICES ASSUME g # Ip!NoGateway PROVE yaml[2] /\ typed.hasGateway /\ typed.gateway = g.gateway
    BY Zenon
  <2>1. yaml[2]
    BY GatewayIsDefault, Zenon
  <2>2. all # {} /\ r[Ip!Max(all) + 1].k = "addr" /\ g.gateway = r[Ip!Max(all) + 1]
    BY GatewayParts, Zenon
  <2>3. Ip!Max(all) \in all
    BY <1>3, <2>2, Greatest, Zenon
  <2>4. Ip!Max(all) \in gates /\ gates \subseteq all
    BY <2>2, <2>3, Zenon
  <2>5. Ip!Max(gates) = Ip!Max(all)
    <3>. HIDE DEF gates, all
    <3>. QED BY <1>3, <2>4, GreatestOfPart
  <2>6. typed.hasGateway /\ typed.gateway = r[Ip!Max(gates) + 1]
    BY <2>4, TypedParts, Zenon
  <2>. QED BY <2>1, <2>2, <2>5, <2>6, Zenon
<1>5. ~Empty(g.interface) /\ named => typed.interface = g.interface
  <2>. SUFFICES ASSUME ~Empty(g.interface), named PROVE typed.interface = g.interface
    BY Zenon
  <2>1. g # Ip!NoGateway
    <3> DEFINE none == ""
    <3>1. Ip!NoGateway = [gateway |-> Ip!Word(none), interface |-> none, family |-> none]
      BY Zenon DEF Ip!NoGateway
    <3>2. Empty(none)
      BY Zenon DEF Empty
    <3>. HIDE DEF none
    <3>3. Ip!NoGateway.interface = none
      BY <3>1
    <3>. QED BY <3>2, <3>3, Zenon
  <2>2. CASE devs # {}
    BY <2>1, <2>2, GatewayParts, TypedParts, Zenon
  <2>3. CASE devs = {}
    <3>1. end = Ip!Word(g.interface) /\ g.interface \notin {"unreachable", "->"}
      BY <2>3, Zenon
    <3>2. end.k = "word" /\ end.w = g.interface
      <4> DEFINE n == g.interface
                 none == ""
      <4>1. end = [k |-> "word", fam |-> none, num |-> 0, len |-> 0, w |-> n]
        BY <3>1, Zenon DEF Ip!Word
      <4>. HIDE DEF none, n, end
      <4>2. end.k = "word" /\ end.w = n
        BY <4>1
      <4>. QED BY <4>2, Zenon DEF n
    <3>. QED BY <2>3, <3>1, <3>2, TypedParts, Zenon
  <2>. QED BY <2>2, <2>3, Zenon
<1>. QED BY <1>1, <1>2, <1>4, <1>5, Zenon DEF Ip!RouteAgrees, Empty

(* IpStatus!ReadersAgree (ip.go, metrics.go, gateway.go), for every list   *)
(* of routes of any tokens: which routes are default routes for the typed  *)
(* and the YAML reader, in both directions and but for the two spellings   *)
(* named there, that the gateway to ping is one's gateway for the others,  *)
(* and where its interface is the typed reader's too.                      *)
THEOREM RouteReadersAgree ==
  ASSUME NEW Words, NEW st, NEW routes \in Seq(Seq(Tokens(Words))), st.routes = routes
  PROVE  Ip!ReadersAgree(st)
<1> DEFINE family(i) == Ip!DefaultRouteFamily(routes[i])
           typed(i) == Ip!ParseRoute(routes[i])
           Default(f) == Ip!RouteWith(Ip!ParsedRoute(f), "default", TRUE)
<1>1. DOMAIN routes \subseteq Nat /\ \A i \in DOMAIN routes : routes[i] \in Seq(Tokens(Words))
  OBVIOUS
<1>2. ASSUME NEW f, Ip!HasDefaultRoute(st.routes, f) PROVE Ip!HasDefaultRouteForFamily(st.routes, f)
  <2>1. PICK i \in DOMAIN routes : typed(i).default /\ f \in {"any", typed(i).family}
    BY <1>2, Zenon DEF Ip!HasDefaultRoute
  <2>2. family(i)[2] = TRUE /\ family(i)[1] = typed(i).family
    BY <1>1, <2>1, TypedIsDefault, Zenon
  <2>. QED BY <2>1, <2>2, Zenon DEF Ip!HasDefaultRouteForFamily
<1>3. ASSUME NEW f, NEW i PROVE Ip!RouteMatches(Default(f), typed(i)) <=>
                                  typed(i).default /\ f \in {"any", typed(i).family}
  <2> DEFINE s == [family |-> f, defaultOnly |-> TRUE, destination |-> {}, gateway |-> {},
                   iface |-> {}, err |-> FALSE]
             p == Ip!ParsedRoute(f)
  <2>1. Default(f) = [p EXCEPT !.defaultOnly = TRUE]
    BY DEF Ip!RouteWith
  <2>2. Default(f) = s
    BY <2>1 DEF Ip!ParsedRoute
  <2>. HIDE DEF Default, typed
  <2>3. s.family = f /\ s.defaultOnly = TRUE /\ s.destination = {} /\ s.gateway = {} /\ s.iface = {}
    OBVIOUS
  <2>. HIDE DEF s
  <2>. QED BY <2>2, <2>3, Zenon DEF Ip!RouteMatches
<1>4. ASSUME NEW f PROVE Ip!HasDefaultRoute(st.routes, f) <=> Ip!RoutesMatching(st, Default(f)) # {}
  <2>1. Ip!RoutesMatching(st, Default(f)) = {i \in DOMAIN routes : Ip!RouteMatches(Default(f), typed(i))}
    BY Zenon DEF Ip!RoutesMatching
  <2>2. Ip!HasDefaultRoute(st.routes, f) <=>
          \E i \in DOMAIN routes : typed(i).default /\ f \in {"any", typed(i).family}
    BY Zenon DEF Ip!HasDefaultRoute
  <2>. HIDE DEF Default, typed
  <2>. QED BY <1>3, <2>1, <2>2, Zenon
<1>5. ASSUME NEW f, Ip!GatewayHost(st, f).ok PROVE Ip!HasDefaultRouteForFamily(st.routes, "any")
  <2>1. Ip!DefaultGateway(routes, f) # Ip!NoGateway
    <3> DEFINE g == Ip!DefaultGateway(routes, f)
               zoned == g.family = "ipv6" /\ "link-local" \in Ip!Kinds(g.gateway)
               no(h, z) == [ok |-> FALSE, host |-> h, zone |-> z]
    <3>1. \A h, z : no(h, z).ok = FALSE
      OBVIOUS
    <3>. HIDE DEF no
    <3>2. g = Ip!NoGateway => Ip!GatewayHost(st, f) = no(Ip!NoGateway, "")
      BY Zenon DEF Ip!GatewayHost, no
    <3>. QED BY <1>5, <3>1, <3>2, Zenon
  <2>2. \E h \in {"ipv4", "ipv6", f} : Ip!DefaultGateway(routes, f) = Ip!DefaultGatewayOf(routes, h)
    BY Zenon DEF Ip!DefaultGateway
  <2>3. PICK i \in DOMAIN routes : Ip!GatewayOf(routes[i]) # Ip!NoGateway
    BY <1>1, <2>1, <2>2, FirstFound, Zenon
  <2>4. family(i)[2] = TRUE
    BY <2>3, GatewayIsDefault, Zenon
  <2>. QED BY <2>3, <2>4, Zenon DEF Ip!HasDefaultRouteForFamily
<1>6. ASSUME NEW i \in DOMAIN st.routes, st.routes[i] # <<>> PROVE Ip!RouteAgrees(st.routes[i])
  BY <1>1, <1>6, OneRoute, Zenon
<1>. QED BY <1>2, <1>4, <1>5, <1>6, Zenon DEF Ip!ReadersAgree

=============================================================================

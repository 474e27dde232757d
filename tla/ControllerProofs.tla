-------------------------- MODULE ControllerProofs --------------------------
(***************************************************************************)
(* Five parts of the controller, each in a section of its own.             *)
(*                                                                         *)
(* CheckPolicy: for every policy a plan can give, every duration of        *)
(* operations and every intervention of the operator, normalizePolicy      *)
(* computes without a wrap exactly what the policy may need; and the loops *)
(* of checkAttempted keep to that budget of attempts and to that time, a   *)
(* repeat that passes has watched its window, and a check passes only if   *)
(* each of its repeats did.  The invariants are layered: IInv on the       *)
(* verdicts, PolicyInv on the policy in force, LoopInv on the loops,       *)
(* BudgetInv and TimeInv on their cost.                                    *)
(*                                                                         *)
(* SessionStart: no start leaves a reverse rule behind and no wait misses  *)
(* an agent.  Workflow: a run kept for review is complete.  WatchState:    *)
(* when a round is over the dashboard says what the round reported, and    *)
(* before it the current target and the cells are true of the agents.      *)
(* PlanCompiler and Commands: for every request and every plan, a wait     *)
(* outlasts the agent's own limit and a command stays on its target; a     *)
(* selector means the same agent to all its readers.                       *)
(***************************************************************************)
EXTENDS CheckPolicy, FiniteSetTheorems, SequenceTheorems, TLAPS

CONSTANTS Targets, MaxAttempts, ReadyCap, MaxJoins

VARIABLES step, attempt, started, reversed, err, serving, rules, leaked, infos, announcing, ready,
          joins

CONSTANTS Agents, Capacity, MaxReports, MaxPlans, MaxRuns, MaxSteps, MaxControls

VARIABLES phase, loading, compiled, source, selected, rerunReview, active, shown, pauseAcks,
          globalControl, runs, review, ui, reader, message, run, paused, eventMu, waiting, loads,
          begun, controls

CONSTANTS Networks, Checks, Name, MaxRound, MaxHistory, HotspotWindow

VARIABLES cursor, owed, reported, clock, round, roundStatus, display, targets, progress, passing,
          failed

CONSTANTS IntMax, UintMax

Dial == INSTANCE SessionStart
Flow == INSTANCE Workflow WITH MaxRetained <- MaxReports, started <- begun
Board == INSTANCE WatchState WITH Targets <- Networks, report <- reported, now <- clock,
                                  phase <- display, at <- cursor
Plan == INSTANCE PlanCompiler

-----------------------------------------------------------------------------
(* CheckPolicy *)

Results == {"pass", "fail", "missing", "canceled", "skip"}
Active  == {"repeat", "attempt", "delay", "judge", "poll", "watch"}

(* The part of the state that the argument is about.                       *)
EndsTyped ==
  /\ pc \in Active \cup {"done", "rejected"}
  /\ repeat \in Nat \ {0} /\ last \in Results /\ report \in Results
  /\ cause \in {"none", "skip", "cancel"}
  /\ ends \in Seq(Results)

(* One verdict for each repeat behind the current one; a check is done     *)
(* after its last repeat or after a skip or cancel.                        *)
EndsCounted ==
  /\ pc \in Active => Len(ends) = repeat - 1
  /\ pc = "done" => Len(ends) = pol.repeat \/ report \in {"canceled", "skip"}

(* The report stays at pass only while every repeat passed.                *)
ReportHonest == report = "pass" => \A i \in DOMAIN ends : ends[i] = "pass"

IInv == EndsTyped /\ EndsCounted /\ ReportHonest

LEMMA ContextOutcomeType == ContextOutcome \in {"fail", "canceled", "skip"}
  BY DEF ContextOutcome

(* The end of a repeat keeps the invariant: what is appended is a pass     *)
(* exactly when the report is left alone.                                  *)
LEMMA EndRepeatKeeps ==
  ASSUME IInv, pc \in Active, pol' = pol,
         NEW o \in {"kept", "fail", "missing", "canceled", "skip"}, EndRepeat(o),
         last' \in Results, cause' \in {"none", "skip", "cancel"}
  PROVE  IInv'
<1> DEFINE e == IF o = "kept" THEN "pass" ELSE o
<1>1. /\ e \in Results /\ ends' = Append(ends, e) /\ ends \in Seq(Results)
      /\ Len(ends) = repeat - 1 /\ repeat \in Nat \ {0} /\ report \in Results
  BY DEF IInv, EndsTyped, EndsCounted, EndRepeat, Results
<1>2. /\ ends' \in Seq(Results) /\ Len(ends') = Len(ends) + 1
      /\ \A i \in DOMAIN ends' : ends'[i] = e \/ (i \in DOMAIN ends /\ ends'[i] = ends[i])
  BY <1>1
<1>3. report' = IF o = "kept" THEN report ELSE o
  BY DEF EndRepeat, ReportAfter
<1>4. /\ \/ pc' = "done" /\ repeat' = repeat /\ (report' \in {"canceled", "skip"} \/ repeat = pol.repeat)
         \/ pc' = "repeat" /\ repeat' = repeat + 1
  BY DEF EndRepeat
<1>5. EndsTyped'
  BY <1>1, <1>2, <1>3, <1>4 DEF EndsTyped, Results, Active
<1>6. EndsCounted'
  BY <1>1, <1>2, <1>4 DEF EndsCounted, Active
<1>7. ReportHonest'
  <2>1. report' = "pass" => o = "kept" /\ report = "pass"
    BY <1>3
  <2>2. report' = "pass" => \A i \in DOMAIN ends : ends[i] = "pass"
    BY <2>1 DEF IInv, ReportHonest
  <2>. QED BY <2>1, <2>2, <1>2 DEF ReportHonest
<1>. QED BY <1>5, <1>6, <1>7 DEF IInv

(* A step inside a repeat keeps the invariant.                             *)
LEMMA InsideRepeat ==
  ASSUME IInv, pc \in Active, pc' \in Active, pol' = pol,
         repeat' = repeat, report' = report, ends' = ends,
         last' \in Results, cause' \in {"none", "skip", "cancel"}
  PROVE  IInv'
<1>1. EndsTyped'
  BY DEF IInv, EndsTyped
<1>2. EndsCounted'
  BY DEF IInv, EndsCounted, Active
<1>3. ReportHonest'
  BY DEF IInv, ReportHonest
<1>. QED BY <1>1, <1>2, <1>3 DEF IInv

LEMMA InitIInv == Init => IInv
<1> SUFFICES ASSUME Init PROVE IInv
  OBVIOUS
<1>1. ends = <<>> /\ report = "pass" /\ repeat = 1 /\ last = "missing" /\ cause = "none"
      /\ pc \in {"repeat", "rejected"}
  BY DEF Init
<1>2. EndsTyped
  BY <1>1 DEF EndsTyped, Results, Active
<1>3. EndsCounted
  BY <1>1 DEF EndsCounted, Active
<1>4. ReportHonest
  BY <1>1 DEF ReportHonest
<1>. QED BY <1>2, <1>3, <1>4 DEF IInv

LEMMA StepIInv == IInv /\ [Next]_vars => IInv'
<1> SUFFICES ASSUME IInv, [Next]_vars PROVE IInv'
  OBVIOUS
<1> USE PolicyAssumption
<1>0. last \in Results /\ cause \in {"none", "skip", "cancel"}
  BY DEF IInv, EndsTyped
<1>1. CASE BeginRepeat
  BY <1>1, <1>0, InsideRepeat DEF BeginRepeat, Active, Results
<1>2. CASE NoAttempt
  BY <1>2, <1>0, InsideRepeat, ContextOutcomeType DEF NoAttempt, Active, Results
<1>3. CASE Delay
  BY <1>3, <1>0, InsideRepeat, ContextOutcomeType DEF Delay, Active, Results
<1>4. CASE Judge
  <2>0. pc = "judge" /\ pol' = pol /\ last' = last /\ cause' = cause
    BY <1>4 DEF Judge
  <2>1. CASE last \in {"canceled", "skip"} \/ Over(now)
    <3>1. EndRepeat(IF last = "pass" THEN "fail" ELSE last)
      BY <1>4, <2>1 DEF Judge
    <3>2. (IF last = "pass" THEN "fail" ELSE last) \in {"kept", "fail", "missing", "canceled", "skip"}
      BY <1>0 DEF Results
    <3>. QED BY <2>0, <3>1, <3>2, <1>0, EndRepeatKeeps DEF Active
  <2>2. CASE last \notin {"canceled", "skip", "pass"} /\ ~Over(now)
    <3>1. \/ pc' = "poll" /\ UNCHANGED <<report, ends, repeat>>
          \/ EndRepeat(last)
      BY <1>4, <2>2 DEF Judge
    <3>2. last \in {"kept", "fail", "missing", "canceled", "skip"}
      BY <1>0, <2>2 DEF Results
    <3>3. CASE pc' = "poll" /\ UNCHANGED <<report, ends, repeat>>
      BY <3>3, <2>0, <1>0, InsideRepeat DEF Active
    <3>4. CASE EndRepeat(last)
      BY <3>4, <3>2, <2>0, <1>0, EndRepeatKeeps DEF Active
    <3>. QED BY <3>1, <3>3, <3>4
  <2>3. CASE last = "pass" /\ ~Over(now)
    <3>1. \/ pc' = "watch" /\ UNCHANGED <<report, ends, repeat>>
          \/ EndRepeat("kept")
      BY <1>4, <2>3 DEF Judge
    <3>2. CASE pc' = "watch" /\ UNCHANGED <<report, ends, repeat>>
      BY <3>2, <2>0, <1>0, InsideRepeat DEF Active
    <3>3. CASE EndRepeat("kept")
      BY <3>3, <2>0, <1>0, EndRepeatKeeps DEF Active
    <3>. QED BY <3>1, <3>2, <3>3
  <2>. QED BY <2>1, <2>2, <2>3
<1>5. ASSUME NEW at \in {"poll", "watch"}, NEW deadline, NextSample(at, deadline) PROVE IInv'
  <2>0. pc \in Active /\ pol' = pol /\ cause' = cause
    BY <1>5 DEF NextSample, Active
  <2>1. \/ /\ pc' = "attempt" /\ last' = "missing" /\ UNCHANGED <<report, ends, repeat>>
        \/ EndRepeat(ContextOutcome) /\ last' = last
    BY <1>5 DEF NextSample
  <2>2. CASE pc' = "attempt" /\ last' = "missing" /\ UNCHANGED <<report, ends, repeat>>
    BY <2>2, <2>0, <1>0, InsideRepeat DEF Active, Results
  <2>3. CASE EndRepeat(ContextOutcome) /\ last' = last
    BY <2>3, <2>0, <1>0, EndRepeatKeeps, ContextOutcomeType
  <2>. QED BY <2>1, <2>2, <2>3
<1>6. CASE Poll
  BY <1>6, <1>5 DEF Poll
<1>7. CASE Watch
  BY <1>7, <1>5 DEF Watch
<1>8. ASSUME NEW d \in 0 .. MaxOp, NEW raw \in Raw, Attempt(d, raw) PROVE IInv'
  <2>1. PICK c \in {"none"} \cup Causes :
          /\ cause' = c
          /\ last' \in {"fail", "skip", "canceled", raw}
    BY <1>8 DEF Attempt
  <2>2. last' \in Results /\ cause' \in {"none", "skip", "cancel"}
    BY <2>1, PolicyAssumption DEF PolicyAssumption, Results
  <2>. QED BY <1>8, <2>2, InsideRepeat DEF Attempt, Active
<1>9. ASSUME NEW c \in Causes, Intervene(c) PROVE IInv'
  <2>1. cause' \in {"none", "skip", "cancel"}
    BY <1>9, PolicyAssumption DEF Intervene, PolicyAssumption
  <2>. QED BY <1>9, <2>1, <1>0, InsideRepeat DEF Intervene, Active
<1>10. CASE UNCHANGED vars
  BY <1>10 DEF vars, IInv, EndsTyped, EndsCounted, ReportHonest
<1>. QED BY <1>1, <1>2, <1>3, <1>4, <1>6, <1>7, <1>8, <1>9, <1>10 DEF Next

(* A check that is reported as passed has run all its repeats and every    *)
(* one of them ended in a pass (checkAttempted, report.Outcome).           *)
THEOREM PassEarned == Spec => []PassIsEarned
<1>1. IInv => PassIsEarned
  BY DEF IInv, EndsCounted, ReportHonest, PassIsEarned
<1>. QED BY InitIInv, StepIInv, <1>1, PTL DEF Spec

-----------------------------------------------------------------------------
(* The arithmetic of normalizePolicy                                       *)

LEMMA DivBounds ==
  ASSUME NEW m \in Nat, NEW b \in Nat \ {0}
  PROVE  /\ m \div b \in Nat /\ (m \div b) * b <= m /\ m < ((m \div b) + 1) * b
OBVIOUS

LEMMA ProductGrows ==
  ASSUME NEW x \in Nat, NEW y \in Nat, x <= y, NEW b \in Nat
  PROVE  x * b <= y * b
OBVIOUS

LEMMA ProductNat ==
  ASSUME NEW x \in Nat, NEW b \in Nat
  PROVE  x * b \in Nat
OBVIOUS

LEMMA ProductNext ==
  ASSUME NEW x \in Nat, NEW b \in Nat
  PROVE  (x + 1) * b = x * b + b
OBVIOUS

(* A product that is compared with a limit by a division, as the code does *)
(* where the product might wrap.                                           *)
LEMMA DivTest ==
  ASSUME NEW a \in Nat, NEW m \in Nat, NEW b \in Nat \ {0}
  PROVE  a > m \div b <=> a * b > m
<1> DEFINE q == m \div b
<1>1. q \in Nat /\ q * b <= m /\ m < (q + 1) * b
  BY DivBounds
<1>. HIDE DEF q
<1>2. CASE a > q
  <2>1. (q + 1) * b <= a * b
    BY <1>1, <1>2, ProductGrows
  <2>2. a * b \in Nat /\ (q + 1) * b \in Nat
    BY <1>1, ProductNat
  <2>. QED BY <1>1, <1>2, <2>1, <2>2 DEF q
<1>3. CASE a <= q
  <2>1. a * b <= q * b
    BY <1>1, <1>3, ProductGrows
  <2>2. a * b \in Nat /\ q * b \in Nat
    BY <1>1, ProductNat
  <2>. QED BY <1>1, <1>3, <2>1, <2>2 DEF q
<1>. QED BY <1>1, <1>2, <1>3

LEMMA ProductPositive ==
  ASSUME NEW x \in Nat \ {0}, NEW b \in Nat
  PROVE  b <= x * b /\ x * b \in Nat /\ (b # 0 => x * b # 0)
<1>1. 1 * b <= x * b
  BY ProductGrows
<1>. QED BY <1>1, ProductNat

(* A sum of durations wraps exactly when it does not fit.                  *)
LEMMA PlusFacts ==
  ASSUME NEW x \in 0 .. MaxDuration, NEW y \in 0 .. MaxDuration
  PROVE  /\ Plus(x, y) < x <=> x + y > MaxDuration
         /\ x + y <= MaxDuration => Plus(x, y) = x + y
         /\ x + y > MaxDuration => Plus(x, y) < 0
BY PolicyAssumption DEF Plus

LEMMA SamplesFacts ==
  ASSUME NEW w \in Nat, NEW i \in Nat \ {0}
  PROVE  /\ Samples(w, i) \in Nat \ {0}
         /\ \A n \in Nat : n * i <= w => n + 1 <= Samples(w, i)
         /\ \A n \in Nat : w > 0 /\ n * i <= w => n + 2 <= Samples(w, i)
<1>1. \A n \in Nat : n * i <= w => n <= w \div i
  BY DivTest, DivBounds, ProductNat
<1>2. w \div i \in Nat
  BY DivBounds
<1>3. CASE w > 0
  BY <1>1, <1>2, <1>3 DEF Samples
<1>4. CASE w = 0
  <2>1. \A n \in Nat : n * i <= w => n = 0
    BY <1>4, ProductPositive
  <2>. QED BY <1>4, <2>1 DEF Samples
<1>. QED BY <1>3, <1>4

(* A policy that passed the checks before its timeout is computed.         *)
Sound(p) ==
  /\ p.attempts \in Nat \ {0} /\ p.repeat \in Nat \ {0}
  /\ p.delay \in 0 .. MaxDuration /\ p.eventually \in 0 .. MaxDuration
  /\ p.stableFor \in 0 .. MaxDuration /\ p.interval \in 1 .. MaxDuration

LEMMA TimeoutForCases ==
  ASSUME NEW p, NEW samples, NEW window \in Nat, NEW per \in Int,
         per = Plus(OpTimeout, p.delay), MaxDuration \div p.repeat \in Nat
  PROVE  /\ per <= 0 \/ per < OpTimeout => TimeoutFor(p, samples, window) = -1
         /\ window > MaxDuration \div p.repeat => TimeoutFor(p, samples, window) = -1
         /\ per > 0 /\ per >= OpTimeout /\ window <= MaxDuration \div p.repeat =>
              TimeoutFor(p, samples, window) =
                IF \/ p.attempts > MaxDuration \div p.repeat
                   \/ p.attempts * p.repeat > MaxDuration \div samples
                   \/ p.attempts * p.repeat * samples > (MaxDuration - window * p.repeat) \div per
                THEN -1 ELSE p.attempts * p.repeat * samples * per + window * p.repeat
<1>. OpTimeout \in Nat \ {0}
  BY PolicyAssumption
<1>1. CASE per <= 0 \/ per < OpTimeout
  BY <1>1 DEF TimeoutFor
<1>2. CASE per > 0 /\ per >= OpTimeout /\ window > MaxDuration \div p.repeat
  BY <1>2 DEF TimeoutFor
<1>3. CASE per > 0 /\ per >= OpTimeout /\ window <= MaxDuration \div p.repeat
  BY <1>3 DEF TimeoutFor
<1>. QED BY <1>1, <1>2, <1>3

(* TimeoutFor is exact: -1 when the time a policy may need does not fit in *)
(* a duration, and that time otherwise.                                    *)
LEMMA TimeoutForExact ==
  ASSUME NEW p, Sound(p), Window(p) <= MaxDuration
  PROVE  TimeoutFor(p, Samples(Window(p), p.interval), Window(p))
           = IF Need(p) <= MaxDuration THEN Need(p) ELSE -1
<1> DEFINE W == Window(p)
           S == Samples(W, p.interval)
           per == OpTimeout + p.delay
           n == p.attempts * p.repeat
<1>1. /\ W \in Nat /\ S \in Nat \ {0} /\ per \in Nat \ {0} /\ MaxDuration \in Nat
      /\ p.attempts \in Nat \ {0} /\ p.repeat \in Nat \ {0}
  <2>1. W \in Nat /\ per \in Nat \ {0} /\ p.interval \in Nat \ {0} /\ MaxDuration \in Nat
    BY PolicyAssumption DEF Sound, Window
  <2>2. S \in Nat \ {0}
    BY <2>1, SamplesFacts
  <2>. QED BY <2>1, <2>2 DEF Sound
<1>2. n \in Nat \ {0} /\ n * S \in Nat \ {0} /\ n <= n * S
  <2>1. n \in Nat \ {0}
    BY <1>1, ProductPositive
  <2>2. S * n \in Nat \ {0} /\ n <= S * n
    BY <1>1, <2>1, ProductPositive
  <2>3. S * n = n * S
    BY <1>1, <2>1
  <2>. QED BY <2>1, <2>2, <2>3
<1>3. /\ (n * S) * per \in Nat /\ n * S <= (n * S) * per /\ per <= (n * S) * per
      /\ W * p.repeat \in Nat
  <2>1. per <= (n * S) * per /\ (n * S) * per \in Nat
    BY <1>1, <1>2, ProductPositive
  <2>2. n * S <= per * (n * S)
    BY <1>1, <1>2, ProductPositive
  <2>3. per * (n * S) = (n * S) * per
    BY <1>1, <1>2
  <2>. QED BY <1>1, <2>1, <2>2, <2>3, ProductNat
<1>4. Need(p) = (n * S) * per + W * p.repeat
  <2>1. Need(p) = (p.attempts * p.repeat * S) * per + p.repeat * W
    BY DEF Need, Attempted
  <2>2. p.repeat * W = W * p.repeat
    BY <1>1
  <2>. QED BY <2>1, <2>2
<1>5. CASE per > MaxDuration
  <2>1. Plus(OpTimeout, p.delay) < 0 /\ Plus(OpTimeout, p.delay) \in Int
    BY <1>5, PlusFacts, PolicyAssumption DEF Sound, Plus
  <2>2. TimeoutFor(p, S, W) = -1
    BY <1>1, <2>1, TimeoutForCases, DivBounds
  <2>. QED BY <1>1, <1>3, <1>4, <1>5, <2>2
<1>6. CASE per <= MaxDuration
  <2>1. Plus(OpTimeout, p.delay) = per /\ per > 0 /\ per >= OpTimeout
    BY <1>6, PlusFacts, PolicyAssumption DEF Sound
  <2>2. W > MaxDuration \div p.repeat <=> W * p.repeat > MaxDuration
    BY <1>1, DivTest
  <2>3. CASE W * p.repeat > MaxDuration
    <3>1. TimeoutFor(p, S, W) = -1
      BY <1>1, <2>1, <2>2, <2>3, TimeoutForCases, DivBounds
    <3>. QED BY <1>1, <1>3, <1>4, <2>3, <3>1
  <2>4. CASE W * p.repeat <= MaxDuration
    <3>1. /\ p.attempts > MaxDuration \div p.repeat <=> n > MaxDuration
          /\ n > MaxDuration \div S <=> n * S > MaxDuration
          /\ n * S > (MaxDuration - W * p.repeat) \div per
               <=> (n * S) * per > MaxDuration - W * p.repeat
      <4>1. MaxDuration - W * p.repeat \in Nat
        BY <1>1, <1>3, <2>4
      <4>. QED BY <1>1, <1>2, <4>1, DivTest
    <3>2. W <= MaxDuration \div p.repeat
      BY <1>1, <2>2, <2>4, DivBounds
    <3>3. TimeoutFor(p, S, W)
            = IF \/ p.attempts > MaxDuration \div p.repeat
                 \/ n > MaxDuration \div S
                 \/ n * S > (MaxDuration - W * p.repeat) \div per
              THEN -1 ELSE (n * S) * per + W * p.repeat
      BY <1>1, <2>1, <3>2, TimeoutForCases, DivBounds
    <3>4. (n > MaxDuration \/ n * S > MaxDuration \/ (n * S) * per > MaxDuration - W * p.repeat)
            <=> Need(p) > MaxDuration
      BY <1>1, <1>2, <1>3, <1>4, <2>4
    <3>5. TimeoutFor(p, S, W) = IF Need(p) > MaxDuration THEN -1 ELSE Need(p)
      BY <1>4, <3>1, <3>3, <3>4
    <3>6. Need(p) \in Nat
      BY <1>3, <1>4
    <3>. QED BY <1>1, <3>5, <3>6
  <2>. QED BY <1>1, <1>3, <2>3, <2>4
<1>. QED BY <1>1, <1>5, <1>6

(* What a policy may need is a positive time.                              *)
LEMMA NeedFacts ==
  ASSUME NEW p, Sound(p)
  PROVE  /\ Need(p) \in Nat \ {0} /\ Window(p) \in Nat
         /\ Samples(Window(p), p.interval) \in Nat \ {0}
         /\ Attempted(p) = p.attempts * p.repeat * Samples(Window(p), p.interval)
         /\ Attempted(p) \in Nat \ {0} /\ p.attempts * p.repeat \in Nat \ {0}
         /\ p.attempts * p.repeat <= Attempted(p)
<1> DEFINE S == Samples(Window(p), p.interval)
           n == p.attempts * p.repeat
<1>1. Window(p) \in Nat /\ p.interval \in Nat \ {0} /\ OpTimeout + p.delay \in Nat \ {0}
  BY PolicyAssumption DEF Sound, Window
<1>2. S \in Nat \ {0}
  BY <1>1, SamplesFacts
<1>3. n \in Nat \ {0}
  BY ProductPositive DEF Sound
<1>4. Attempted(p) = n * S
  BY DEF Attempted
<1>. HIDE DEF n, S
<1>5. n * S \in Nat \ {0} /\ n <= n * S
  <2>1. S * n \in Nat \ {0} /\ n <= S * n
    BY <1>2, <1>3, ProductPositive
  <2>. QED BY <1>2, <1>3, <2>1
<1>6. Attempted(p) * (OpTimeout + p.delay) \in Nat \ {0} /\ p.repeat * Window(p) \in Nat
  BY <1>1, <1>4, <1>5, ProductPositive, ProductNat DEF Sound
<1>7. Need(p) \in Nat \ {0}
  BY <1>6 DEF Need
<1>. QED BY <1>1, <1>2, <1>3, <1>4, <1>5, <1>7 DEF n, S

(* The policy in force: typed, and accepted exactly when it fits.          *)
PolicyInv ==
  /\ pol.ok \in BOOLEAN
  /\ pc = "rejected" <=> ~pol.ok
  /\ TimeoutExact
  /\ pol.ok => /\ Sound(pol) /\ pol.timeout \in 1 .. MaxDuration
               /\ Window(pol) <= MaxDuration /\ Attempted(pol) <= MaxRetained
               /\ pol.given.timeout = 0 => pol.timeout = Need(pol)

(* normalizePolicy of any policy a plan can give.                          *)
LEMMA InitPolicy == Init => PolicyInv
<1> SUFFICES ASSUME NEW in \in Inputs, pol = NormalizePolicy(in),
                    pc = IF pol.ok THEN "repeat" ELSE "rejected"
             PROVE  PolicyInv
  BY DEF Init
<1> DEFINE p == [in EXCEPT !.attempts = Default(@, 1), !.repeat = Default(@, 1),
                           !.interval = Default(@, Second)]
           W == Plus(p.eventually, p.stableFor)
           S == Samples(W, p.interval)
           T == IF p.timeout # 0 THEN p.timeout ELSE TimeoutFor(p, S, W)
           refused == \/ Negative(p)
                      \/ W < p.eventually
                      \/ p.attempts > MaxRetained \div p.repeat
                      \/ p.attempts * p.repeat > MaxRetained \div S
                      \/ T < 0
           taken == [ok |-> TRUE, attempts |-> p.attempts, repeat |-> p.repeat, delay |-> p.delay,
                     eventually |-> p.eventually, stableFor |-> p.stableFor,
                     interval |-> p.interval, timeout |-> T, given |-> in]
<1>1. pol = IF refused THEN [ok |-> FALSE, given |-> in] ELSE taken
  BY DEF NormalizePolicy
<1>2. /\ p.attempts \in Nat \ {0} /\ p.repeat \in Nat \ {0}
      /\ p.delay \in Durations /\ p.eventually \in Durations /\ p.stableFor \in Durations
      /\ p.interval \in Durations \ {0} /\ p.timeout \in Durations /\ p.timeout = in.timeout
  BY InputsAssumption, PolicyAssumption DEF Default, Durations
<1>3. pol.given = in /\ p = [pol.given EXCEPT !.attempts = Default(@, 1), !.repeat = Default(@, 1),
                                              !.interval = Default(@, Second)]
  BY <1>1
<1>. HIDE DEF p
<1>4. CASE Negative(p)
  <2>1. pol.ok = FALSE
    BY <1>1, <1>4
  <2>2. TimeoutExact
    BY <1>3, <1>4, <2>1 DEF TimeoutExact
  <2>. QED BY <2>1, <2>2 DEF PolicyInv
<1>5. CASE ~Negative(p)
  <2>1. Sound(p) /\ p.timeout \in 0 .. MaxDuration
    BY <1>2, <1>5, PolicyAssumption DEF Negative, Sound, Durations
  <2>2. W < p.eventually <=> Window(p) > MaxDuration
    BY <2>1, PlusFacts DEF Sound, Window
  <2>3. CASE Window(p) > MaxDuration
    <3>1. pol.ok = FALSE /\ ~(Window(p) <= MaxDuration)
      BY <1>1, <2>1, <2>2, <2>3, NeedFacts, PolicyAssumption
    <3>2. TimeoutExact
      BY <1>3, <3>1 DEF TimeoutExact
    <3>. QED BY <3>1, <3>2 DEF PolicyInv
  <2>4. CASE Window(p) <= MaxDuration
    <3>1. W = Window(p) /\ ~(W < p.eventually)
      BY <2>1, <2>2, <2>4, PlusFacts, PolicyAssumption, NeedFacts DEF Sound, Window
    <3>2. S = Samples(Window(p), p.interval)
      BY <3>1
    <3>3. (\/ p.attempts > MaxRetained \div p.repeat
           \/ p.attempts * p.repeat > MaxRetained \div S) <=> Attempted(p) > MaxRetained
      <4>1. p.attempts > MaxRetained \div p.repeat <=> p.attempts * p.repeat > MaxRetained
        BY <1>2, DivTest, PolicyAssumption
      <4>2. p.attempts * p.repeat > MaxRetained \div S <=> p.attempts * p.repeat * S > MaxRetained
        BY <2>1, <3>2, DivTest, NeedFacts, PolicyAssumption
      <4>3. Attempted(p) = p.attempts * p.repeat * S /\ p.attempts * p.repeat <= Attempted(p)
            /\ Attempted(p) \in Nat /\ p.attempts * p.repeat \in Nat
        BY <2>1, <3>2, NeedFacts
      <4>. QED BY <4>1, <4>2, <4>3, PolicyAssumption
    <3>4. /\ T < 0 <=> p.timeout = 0 /\ Need(p) > MaxDuration
          /\ T >= 0 => T \in 1 .. MaxDuration
          /\ T >= 0 /\ p.timeout = 0 => T = Need(p)
      <4>1. p.timeout = 0 => T = IF Need(p) <= MaxDuration THEN Need(p) ELSE -1
        BY <2>1, <2>4, <3>1, <3>2, TimeoutForExact
      <4>2. p.timeout # 0 => T = p.timeout
        OBVIOUS
      <4>3. Need(p) \in Nat \ {0} /\ MaxDuration \in Nat
        BY <2>1, NeedFacts, PolicyAssumption
      <4>. HIDE DEF T
      <4>. QED BY <2>1, <4>1, <4>2, <4>3
    <3>. HIDE DEF T, W, S
    <3>5. refused <=> Attempted(p) > MaxRetained \/ (p.timeout = 0 /\ Need(p) > MaxDuration)
      BY <1>5, <3>1, <3>3, <3>4
    <3>6. Attempted(p) \in Nat /\ Need(p) \in Nat /\ MaxRetained \in Nat /\ MaxDuration \in Nat
      BY <2>1, NeedFacts, PolicyAssumption
    <3>7. CASE refused
      <4>1. pol.ok = FALSE
        BY <1>1, <3>7
      <4>2. TimeoutExact
        <5>1. ~(Attempted(p) <= MaxRetained /\ (p.timeout = 0 => Need(p) <= MaxDuration))
          BY <3>5, <3>6, <3>7
        <5>. QED BY <1>3, <4>1, <5>1 DEF TimeoutExact
      <4>. QED BY <4>1, <4>2 DEF PolicyInv
    <3>8. CASE ~refused
      <4>1. pol = taken
        BY <1>1, <3>8
      <4>2. /\ pol.ok = TRUE /\ pol.attempts = p.attempts /\ pol.repeat = p.repeat
            /\ pol.delay = p.delay /\ pol.eventually = p.eventually /\ pol.timeout = T
            /\ pol.stableFor = p.stableFor /\ pol.interval = p.interval
        BY <4>1
      <4>3. T \in 1 .. MaxDuration /\ (p.timeout = 0 => T = Need(p))
        <5>1. ~(T < 0)
          BY <3>8
        <5>2. T \in Int
          BY <2>1, <2>4, <3>1, <3>2, TimeoutForExact, NeedFacts DEF T
        <5>. QED BY <3>4, <5>1, <5>2
      <4>4. Sound(pol) /\ Window(pol) = Window(p)
        BY <2>1, <4>2 DEF Sound, Window
      <4>5. Attempted(pol) = Attempted(p)
        BY <4>2, <4>4 DEF Attempted
      <4>6. Need(pol) = Need(p)
        BY <4>2, <4>4, <4>5 DEF Need
      <4>7. Attempted(p) <= MaxRetained /\ (p.timeout = 0 => Need(p) <= MaxDuration)
        BY <3>5, <3>6, <3>8
      <4>8. TimeoutExact
        BY <1>3, <1>5, <2>4, <4>2, <4>3, <4>7 DEF TimeoutExact
      <4>9. pc = "repeat"
        BY <4>2
      <4>. QED BY <1>2, <1>3, <2>4, <4>2, <4>3, <4>4, <4>5, <4>6, <4>7, <4>8, <4>9 DEF PolicyInv
    <3>. QED BY <3>7, <3>8
  <2>5. Window(p) \in Nat /\ MaxDuration \in Nat
    BY <2>1, NeedFacts, PolicyAssumption
  <2>. QED BY <2>3, <2>4, <2>5
<1>. QED BY <1>4, <1>5

-----------------------------------------------------------------------------
(* The loops of checkAttempted                                             *)

InRepeat == pc \in {"attempt", "delay", "judge", "poll", "watch"}

(* When the repeat in progress began.                                      *)
Start == eventual - pol.eventually

(* The counters and deadlines of the loops, and how they lie in time.      *)
LoopInv == pol.ok =>
  /\ repeat \in 1 .. pol.repeat /\ number \in 1 .. pol.attempts
  /\ now \in Nat /\ tally \in Nat /\ eventual \in Int /\ stable \in Nat \cup {-1}
  /\ pc = "delay" => number < pol.attempts
  /\ InRepeat => Start \in Nat /\ Start <= now
  /\ pc = "poll" => stable = -1 /\ now < eventual
  /\ pc = "watch" => stable # -1 /\ now < stable
  /\ stable # -1 => /\ firstPass \in Nat /\ firstPass <= now
                    /\ stable = firstPass + pol.stableFor /\ pol.stableFor > 0

LoopsOK == IInv /\ PolicyInv /\ LoopInv

(* The policy of a running check, as numbers.                              *)
LEMMA PolicyFacts ==
  ASSUME PolicyInv, pol.ok
  PROVE  /\ pol.attempts \in Nat \ {0} /\ pol.repeat \in Nat \ {0} /\ pol.delay \in Nat
         /\ pol.eventually \in Nat /\ pol.stableFor \in Nat /\ pol.interval \in Nat \ {0}
         /\ pol.timeout \in Nat \ {0}
BY PolicyAssumption DEF PolicyInv, Sound

LEMMA PolicyStep == PolicyInv /\ [Next]_vars => PolicyInv'
<1> SUFFICES ASSUME PolicyInv, [Next]_vars PROVE PolicyInv'
  OBVIOUS
<1>1. pol' = pol
  BY DEF Next, vars, BeginRepeat, NoAttempt, Delay, Judge, Poll, Watch, NextSample, Attempt, Intervene
<1>2. pc = "rejected" <=> pc' = "rejected"
  BY DEF Next, vars, BeginRepeat, NoAttempt, Delay, Judge, Poll, Watch, NextSample, Attempt,
     Intervene, EndRepeat
<1>. QED BY <1>1, <1>2 DEF PolicyInv, TimeoutExact

(* A sleep takes at most its time, and exactly its time if it succeeds.    *)
LEMMA SleepFacts ==
  ASSUME NEW d \in Nat, now \in Nat, pol.timeout \in Nat, Sleep(d)
  PROVE  /\ now' \in Nat /\ now <= now' /\ now' <= now + d
         /\ Slept(d) => now' = now + d
BY DEF Sleep, Slept, Over, TimedOut, Min2

(* So does an attempt, which a poll does not carry past its deadline.      *)
LEMMA AttemptFacts ==
  ASSUME NEW d \in Nat, NEW raw, now \in Nat, eventual \in Int, pol.timeout \in Nat,
         Attempt(d, raw)
  PROVE  now' \in Nat /\ now <= now' /\ now' <= now + d /\ (Polling => now < eventual)
<1>1. now < pol.timeout /\ (Polling => now < eventual)
  BY DEF Attempt, Over, TimedOut
<1>2. now' = Min2(now + d, IF Polling THEN Min2(eventual, pol.timeout) ELSE pol.timeout)
  BY DEF Attempt
<1>. QED BY <1>1, <1>2 DEF Min2

(* The end of a repeat: the check is over or the next repeat begins.       *)
LEMMA EndRepeatFacts ==
  ASSUME LoopsOK, pol.ok, NEW o, EndRepeat(o)
  PROVE  /\ repeat' \in 1 .. pol.repeat
         /\ \/ pc' = "done" /\ repeat' = repeat
            \/ pc' = "repeat" /\ repeat' = repeat + 1
BY PolicyFacts DEF LoopsOK, LoopInv, EndRepeat

(* What Judge decides, and what it leaves alone.                           *)
LEMMA JudgeCases ==
  ASSUME Judge, last \in Results, cause \in {"none", "skip", "cancel"}
  PROVE  /\ pc = "judge" /\ UNCHANGED <<pol, now, number, eventual, last, cause, tally>>
         /\ \/ /\ last # "pass" \/ Over(now)
               /\ \E o \in {"fail", "missing", "canceled", "skip"} : EndRepeat(o)
               /\ UNCHANGED <<stable, firstPass>>
            \/ /\ last # "pass" /\ Polling /\ now < eventual /\ pc' = "poll"
               /\ UNCHANGED <<report, ends, repeat, stable, firstPass>>
            \/ /\ last = "pass" /\ stable = -1 /\ pol.stableFor = 0
               /\ EndRepeat("kept") /\ firstPass' = now /\ stable' = stable
            \/ /\ last = "pass" /\ stable = -1 /\ pol.stableFor # 0 /\ pc' = "watch"
               /\ firstPass' = now /\ stable' = now + pol.stableFor
               /\ UNCHANGED <<report, ends, repeat>>
            \/ /\ last = "pass" /\ stable # -1 /\ WindowOver /\ EndRepeat("kept")
               /\ UNCHANGED <<stable, firstPass>>
            \/ /\ last = "pass" /\ stable # -1 /\ ~WindowOver /\ pc' = "watch"
               /\ UNCHANGED <<report, ends, repeat, stable, firstPass>>
<1>1. pc = "judge" /\ UNCHANGED <<pol, now, number, eventual, last, cause, tally>>
  BY DEF Judge
<1>2. CASE last \in {"canceled", "skip"} \/ Over(now)
  <2>1. EndRepeat(IF last = "pass" THEN "fail" ELSE last) /\ UNCHANGED <<stable, firstPass>>
    BY <1>2 DEF Judge
  <2>2. (IF last = "pass" THEN "fail" ELSE last) \in {"fail", "missing", "canceled", "skip"}
    BY DEF Results
  <2>. QED BY <1>1, <1>2, <2>1, <2>2
<1>3. CASE last \notin {"canceled", "skip", "pass"} /\ ~Over(now)
  <2>1. /\ UNCHANGED <<stable, firstPass>>
        /\ IF Polling /\ now < eventual THEN pc' = "poll" /\ UNCHANGED <<report, ends, repeat>>
           ELSE EndRepeat(last)
    BY <1>3 DEF Judge
  <2>2. last \in {"fail", "missing", "canceled", "skip"}
    BY <1>3 DEF Results
  <2>. QED BY <1>1, <1>3, <2>1, <2>2
<1>4. CASE last = "pass" /\ ~Over(now) /\ stable = -1
  <2>1. /\ firstPass' = now
        /\ IF pol.stableFor = 0 THEN EndRepeat("kept") /\ UNCHANGED stable
           ELSE /\ stable' = now + pol.stableFor
                /\ pc' = "watch" /\ UNCHANGED <<report, ends, repeat>>
    BY <1>4 DEF Judge
  <2>. QED BY <1>1, <1>4, <2>1
<1>5. CASE last = "pass" /\ ~Over(now) /\ stable # -1
  <2>1. /\ UNCHANGED <<stable, firstPass>>
        /\ IF WindowOver THEN EndRepeat("kept")
           ELSE pc' = "watch" /\ UNCHANGED <<report, ends, repeat>>
    BY <1>5 DEF Judge
  <2>. QED BY <1>1, <1>5, <2>1
<1>. QED BY <1>2, <1>3, <1>4, <1>5

(* What the sleep before the next sample comes to.                         *)
LEMMA SampleCases ==
  ASSUME LoopsOK, pol.ok, NEW at \in {"poll", "watch"}, NEW deadline \in Nat, now < deadline,
         NextSample(at, deadline)
  PROVE  /\ pc = at /\ UNCHANGED <<pol, eventual, stable, cause, tally, firstPass>>
         /\ now' \in Nat /\ now <= now' /\ now' <= deadline /\ number' \in 1 .. pol.attempts
         /\ \/ /\ pc' = "attempt" /\ number' = 1 /\ UNCHANGED <<report, ends, repeat>>
               /\ now' = now + pol.interval \/ now' = deadline
            \/ \E o \in {"fail", "canceled", "skip"} : EndRepeat(o)
<1> DEFINE d == Min2(pol.interval, deadline - now)
<1>0. now \in Nat /\ pol.timeout \in Nat /\ pol.interval \in Nat /\ number \in 1 .. pol.attempts
      /\ pol.attempts \in Nat \ {0}
  BY PolicyFacts DEF LoopsOK, LoopInv
<1>1. d \in Nat /\ now + d <= deadline /\ (d = pol.interval \/ now + d = deadline)
  BY <1>0 DEF Min2
<1>2. /\ pc = at /\ UNCHANGED <<pol, eventual, stable, cause, tally, firstPass>> /\ Sleep(d)
      /\ IF Slept(d)
         THEN pc' = "attempt" /\ number' = 1 /\ last' = "missing" /\ UNCHANGED <<report, ends, repeat>>
         ELSE EndRepeat(ContextOutcome) /\ UNCHANGED <<number, last>>
  BY DEF NextSample
<1>. HIDE DEF d
<1>3. now' \in Nat /\ now <= now' /\ now' <= now + d /\ (Slept(d) => now' = now + d)
  BY <1>0, <1>1, <1>2, SleepFacts
<1>4. CASE Slept(d)
  BY <1>0, <1>1, <1>2, <1>3, <1>4
<1>5. CASE ~Slept(d)
  BY <1>0, <1>1, <1>2, <1>3, <1>5, ContextOutcomeType
<1>. QED BY <1>4, <1>5

LEMMA LoopInit == Init => LoopInv
<1> SUFFICES ASSUME Init, pol.ok PROVE LoopInv
  BY DEF LoopInv
<1>1. PolicyInv
  BY InitPolicy
<1>2. pc = "repeat" /\ now = 0 /\ tally = 0 /\ eventual = 0 /\ stable = -1 /\ repeat = 1 /\ number = 1
  BY DEF Init
<1>. QED BY <1>1, <1>2, PolicyFacts DEF LoopInv, InRepeat

LEMMA LoopStep ==
  ASSUME LoopsOK, [Next]_vars
  PROVE  LoopInv'
<1>1. pol' = pol
  BY DEF Next, vars, BeginRepeat, NoAttempt, Delay, Judge, Poll, Watch, NextSample, Attempt, Intervene
<1> SUFFICES ASSUME pol.ok PROVE LoopInv'
  BY <1>1 DEF LoopInv
<1>2. /\ pol.attempts \in Nat \ {0} /\ pol.repeat \in Nat \ {0} /\ pol.delay \in Nat
      /\ pol.eventually \in Nat /\ pol.stableFor \in Nat /\ pol.timeout \in Nat
  BY PolicyFacts DEF LoopsOK
<1>3. /\ repeat \in 1 .. pol.repeat /\ number \in 1 .. pol.attempts
      /\ now \in Nat /\ tally \in Nat /\ eventual \in Int /\ stable \in Nat \cup {-1}
      /\ last \in Results /\ cause \in {"none", "skip", "cancel"}
      /\ stable # -1 => /\ firstPass \in Nat /\ firstPass <= now
                        /\ stable = firstPass + pol.stableFor /\ pol.stableFor > 0
  BY DEF LoopsOK, LoopInv, IInv, EndsTyped
<1>4. CASE BeginRepeat
  BY <1>1, <1>2, <1>3, <1>4 DEF BeginRepeat, LoopInv, InRepeat, Start
<1>5. CASE NoAttempt
  BY <1>1, <1>2, <1>3, <1>5 DEF NoAttempt, LoopsOK, LoopInv, InRepeat, Start
<1>6. CASE Delay
  <2>1. now' \in Nat /\ now <= now'
    BY <1>2, <1>3, <1>6, SleepFacts DEF Delay
  <2>2. number < pol.attempts /\ Start \in Nat /\ Start <= now
    BY <1>6 DEF Delay, LoopsOK, LoopInv, InRepeat
  <2>3. number' \in 1 .. pol.attempts /\ pc' \in {"attempt", "judge"}
        /\ UNCHANGED <<repeat, tally, eventual, stable, firstPass>>
    BY <1>2, <1>3, <1>6, <2>2 DEF Delay
  <2>. QED BY <1>1, <1>2, <1>3, <2>1, <2>2, <2>3 DEF LoopInv, InRepeat, Start
<1>7. CASE Judge
  <2>1. Start \in Nat /\ Start <= now /\ pc = "judge"
        /\ UNCHANGED <<pol, now, number, eventual, last, cause, tally>>
    BY <1>3, <1>7, JudgeCases DEF LoopsOK, LoopInv, InRepeat
  <2>2. ASSUME NEW o, EndRepeat(o), \/ UNCHANGED <<stable, firstPass>>
                                    \/ firstPass' = now /\ stable' = stable /\ stable = -1
        PROVE  LoopInv'
    <3>1. repeat' \in 1 .. pol.repeat /\ pc' \in {"done", "repeat"}
      BY <2>2, EndRepeatFacts
    <3>. QED BY <1>1, <1>3, <2>1, <2>2, <3>1 DEF LoopInv, InRepeat
  <2>3. ASSUME pc' = "poll", Polling, now < eventual, UNCHANGED <<repeat, stable, firstPass>>
        PROVE  LoopInv'
    BY <1>1, <1>3, <2>1, <2>3 DEF LoopInv, InRepeat, Start, Polling
  <2>4. ASSUME pc' = "watch", stable = -1, pol.stableFor # 0, firstPass' = now,
               stable' = now + pol.stableFor, UNCHANGED repeat
        PROVE  LoopInv'
    BY <1>1, <1>2, <1>3, <2>1, <2>4 DEF LoopInv, InRepeat, Start
  <2>5. ASSUME pc' = "watch", stable # -1, ~WindowOver, UNCHANGED <<repeat, stable, firstPass>>
        PROVE  LoopInv'
    BY <1>1, <1>3, <2>1, <2>5 DEF LoopInv, InRepeat, Start, WindowOver
  <2>. QED BY <1>3, <1>7, <2>2, <2>3, <2>4, <2>5, JudgeCases
<1>8. ASSUME NEW at \in {"poll", "watch"}, NEW deadline \in Nat, now < deadline,
             NextSample(at, deadline)
      PROVE  LoopInv'
  <2>1. Start \in Nat /\ Start <= now
    BY <1>8 DEF NextSample, LoopsOK, LoopInv, InRepeat
  <2>2. /\ UNCHANGED <<eventual, stable, tally, firstPass>>
        /\ now' \in Nat /\ now <= now' /\ number' \in 1 .. pol.attempts
        /\ \/ pc' = "attempt" /\ UNCHANGED repeat
           \/ \E o \in {"fail", "canceled", "skip"} : EndRepeat(o)
    BY <1>8, SampleCases
  <2>3. pc' \in {"attempt", "done", "repeat"} /\ repeat' \in 1 .. pol.repeat
    BY <1>3, <2>2, EndRepeatFacts
  <2>. QED BY <1>1, <1>2, <1>3, <2>1, <2>2, <2>3 DEF LoopInv, InRepeat, Start
<1>9. CASE Poll
  <2>1. pc = "poll" /\ eventual \in Nat /\ now < eventual
    BY <1>3, <1>9 DEF Poll, NextSample, LoopsOK, LoopInv
  <2>. QED BY <1>8, <1>9, <2>1 DEF Poll
<1>10. CASE Watch
  <2>1. pc = "watch" /\ stable \in Nat /\ now < stable
    BY <1>3, <1>10 DEF Watch, NextSample, LoopsOK, LoopInv
  <2>. QED BY <1>8, <1>10, <2>1 DEF Watch
<1>11. ASSUME NEW d \in 0 .. MaxOp, NEW raw \in Raw, Attempt(d, raw)
       PROVE  LoopInv'
  <2>1. now' \in Nat /\ now <= now'
    BY <1>2, <1>3, <1>11, AttemptFacts, PolicyAssumption
  <2>2. Start \in Nat /\ Start <= now
    BY <1>11 DEF Attempt, LoopsOK, LoopInv, InRepeat
  <2>3. /\ UNCHANGED <<repeat, number, eventual, stable, firstPass>> /\ tally' = tally + 1
        /\ pc' \in {"judge", "delay"} /\ (pc' = "delay" => number # pol.attempts)
    BY <1>11 DEF Attempt, LastAttempt
  <2>. QED BY <1>1, <1>2, <1>3, <2>1, <2>2, <2>3 DEF LoopInv, InRepeat, Start
<1>12. ASSUME NEW c \in Causes, Intervene(c) PROVE LoopInv'
  BY <1>1, <1>3, <1>12 DEF Intervene, LoopsOK, LoopInv, InRepeat, Start
<1>13. CASE UNCHANGED vars
  BY <1>13 DEF vars, LoopsOK, LoopInv, InRepeat, Start
<1>. QED BY <1>4, <1>5, <1>6, <1>7, <1>9, <1>10, <1>11, <1>12, <1>13 DEF Next

(* The loops' invariant holds of every policy.                             *)
THEOREM LoopsTyped == Spec => []LoopsOK
<1>1. Init => LoopsOK
  BY InitIInv, InitPolicy, LoopInit DEF LoopsOK
<1>2. LoopsOK /\ [Next]_vars => LoopsOK'
  BY StepIInv, PolicyStep, LoopStep DEF LoopsOK
<1>. QED BY <1>1, <1>2, PTL DEF Spec

(* A repeat that passes has seen a pass at least StableFor after its first *)
(* one: the whole window was watched (execute.go:433-443).                 *)
THEOREM WindowWatched == Spec => StableWindowWatched
<1>1. ASSUME LoopsOK, [Next]_vars, Len(ends') > Len(ends), ends'[Len(ends')] = "pass"
      PROVE  firstPass' # -1 /\ last = "pass" /\ now - firstPass' >= pol.stableFor
  <2>1. ends \in Seq(Results) /\ last \in Results /\ cause \in {"none", "skip", "cancel"}
    BY <1>1 DEF LoopsOK, IInv, EndsTyped
  <2>2. ASSUME NEW o \in {"fail", "missing", "canceled", "skip"}, EndRepeat(o)
        PROVE  FALSE
    BY <1>1, <2>1, <2>2 DEF EndRepeat, Results
  <2>3. ASSUME UNCHANGED ends PROVE FALSE
    BY <1>1, <2>1, <2>3
  <2>4. pol.ok
    BY <1>1, <2>3 DEF LoopsOK, PolicyInv, Next, vars, BeginRepeat, NoAttempt, Delay, Judge, Poll, Watch,
       NextSample, Attempt, Intervene
  <2>5. now \in Nat /\ stable \in Nat \cup {-1} /\ pol.stableFor \in Nat
        /\ (stable # -1 => firstPass \in Nat /\ stable = firstPass + pol.stableFor)
    BY <1>1, <2>4, PolicyFacts DEF LoopsOK, LoopInv
  <2>6. CASE Judge
    BY <2>1, <2>2, <2>3, <2>5, <2>6, JudgeCases DEF WindowOver
  <2>7. ASSUME NEW at, NEW deadline, NextSample(at, deadline)
        PROVE  FALSE
    <3>1. UNCHANGED ends \/ EndRepeat(ContextOutcome)
      BY <2>7 DEF NextSample
    <3>. QED BY <2>2, <2>3, <3>1, ContextOutcomeType
  <2>. QED
    BY <1>1, <2>3, <2>6, <2>7
    DEF Next, vars, BeginRepeat, NoAttempt, Delay, Poll, Watch, Attempt, Intervene
<1>2. LoopsOK /\ [Next]_vars =>
        [(Len(ends') > Len(ends) /\ ends'[Len(ends')] = "pass") =>
           firstPass' # -1 /\ last = "pass" /\ now - firstPass' >= pol.stableFor]_vars
  BY <1>1
<1>. QED BY <1>2, LoopsTyped, PTL DEF Spec, StableWindowWatched

-----------------------------------------------------------------------------
(* The budget of attempts                                                  *)

(* Attempts a repeat may make, and those the repeats before this one had.  *)
PerRepeat == Samples(Window(pol), pol.interval) * pol.attempts
Before    == (repeat - 1) * PerRepeat

(* The attempts of n samples, and the time of n sleeps of an interval.     *)
Whole(n) == n * pol.attempts
Span(n)  == n * pol.interval

(* Attempts made in the current sample, at most.                           *)
Made == IF pc = "attempt" THEN number - 1 ELSE IF pc = "delay" THEN number ELSE pol.attempts

(* The current sample of a repeat follows n sleeps of a whole interval:    *)
(* before the first pass (Polled), after it (Watched), after a last sleep  *)
(* that the deadline cut (Last); or the deadline for a first pass cut the  *)
(* sleep, and no attempt is left (Missed).                                 *)
Polled(n) ==
  /\ stable = -1 /\ Span(n) <= pol.eventually
  /\ Span(n) <= now - Start
  /\ tally <= Before + Whole(n) + Made

Missed(n) ==
  /\ stable = -1 /\ Span(n) <= pol.eventually
  /\ pc \in {"attempt", "judge"} /\ pol.eventually > 0 /\ now >= eventual
  /\ pc = "judge" => last # "pass"
  /\ tally <= Before + Whole(n + 1)

Watched(n) ==
  /\ stable # -1 /\ Span(n) <= Window(pol)
  /\ Span(n) <= pol.eventually + (now - firstPass)
  /\ tally <= Before + Whole(n) + Made

Last(n) ==
  /\ stable # -1 /\ Span(n) <= Window(pol)
  /\ pc \in {"attempt", "delay", "judge"} /\ now >= stable
  /\ tally <= Before + Whole(n + 1) + Made

InSample(n) == Polled(n) \/ Missed(n) \/ Watched(n) \/ Last(n)

BudgetInv == pol.ok =>
  /\ pc = "repeat" => tally <= Before
  /\ pc = "done" => tally <= repeat * PerRepeat
  /\ InRepeat => \E n \in Nat : InSample(n)

(* The products of the budget.                                             *)
LEMMA BudgetFacts ==
  ASSUME LoopsOK, pol.ok
  PROVE  /\ PerRepeat \in Nat /\ Before \in Nat /\ Window(pol) \in Nat
         /\ Before + PerRepeat = repeat * PerRepeat
         /\ Whole(0) = 0 /\ Span(0) = 0
         /\ \A n \in Nat : /\ Whole(n) \in Nat /\ Span(n) \in Nat
                           /\ Whole(n + 1) = Whole(n) + pol.attempts
                           /\ Span(n + 1) = Span(n) + pol.interval
<1>1. /\ pol.attempts \in Nat \ {0} /\ pol.interval \in Nat \ {0} /\ repeat \in Nat \ {0}
      /\ Samples(Window(pol), pol.interval) \in Nat /\ Window(pol) \in Nat
  BY PolicyFacts, NeedFacts DEF LoopsOK, LoopInv, PolicyInv, IInv, EndsTyped
<1>2. PerRepeat \in Nat
  BY <1>1, ProductNat DEF PerRepeat
<1>3. Before \in Nat /\ Before + PerRepeat = repeat * PerRepeat
  <2>1. repeat - 1 \in Nat
    BY <1>1
  <2>. QED BY <1>1, <1>2, <2>1, ProductNat DEF Before
<1>. QED BY <1>1, <1>2, <1>3, ProductNat DEF Whole, Span

(* A sample leaves the attempts of its repeat within the budget.           *)
LEMMA SampleWithin ==
  ASSUME LoopsOK, pol.ok, NEW n \in Nat, InSample(n), InRepeat
  PROVE  tally <= Before + PerRepeat
<1> DEFINE S == Samples(Window(pol), pol.interval)
<1>1. /\ pol.attempts \in Nat \ {0} /\ pol.interval \in Nat \ {0}
      /\ pol.eventually \in Nat /\ pol.stableFor \in Nat
      /\ S \in Nat /\ Window(pol) \in Nat /\ tally \in Nat
      /\ stable # -1 => pol.stableFor > 0
  BY PolicyFacts, NeedFacts DEF LoopsOK, LoopInv, PolicyInv, IInv, EndsTyped
<1>2. /\ Before \in Nat /\ Whole(n) \in Nat /\ Span(n) \in Nat
      /\ Whole(n + 1) = Whole(n) + pol.attempts
      /\ Whole(n + 2) = Whole(n + 1) + pol.attempts
  <2>1. n + 1 \in Nat /\ (n + 1) + 1 = n + 2
    OBVIOUS
  <2>. QED BY <2>1, BudgetFacts
<1>3. Made \in Int /\ Made <= pol.attempts
  BY <1>1 DEF LoopsOK, LoopInv, InRepeat, Made
<1>4. pol.eventually <= Window(pol) /\ (stable # -1 => Window(pol) > 0)
  BY <1>1 DEF Window
<1>5. Span(n) <= Window(pol)
  BY <1>1, <1>2, <1>4 DEF InSample, Polled, Missed, Watched, Last
<1>6. n + 1 <= S /\ (stable # -1 => n + 2 <= S)
  BY <1>1, <1>4, <1>5, SamplesFacts DEF Span
<1>7. /\ Whole(n + 1) <= S * pol.attempts
      /\ stable # -1 => Whole(n + 2) <= S * pol.attempts
  <2>1. n + 1 \in Nat /\ n + 2 \in Nat
    OBVIOUS
  <2>. QED BY <1>1, <1>6, <2>1, ProductGrows DEF Whole
<1>8. tally <= Before + Whole(n + 1)
      \/ (stable # -1 /\ tally <= Before + Whole(n + 2))
  BY <1>1, <1>2, <1>3 DEF InSample, Polled, Missed, Watched, Last
<1>9. PerRepeat = S * pol.attempts /\ PerRepeat \in Nat
  BY BudgetFacts DEF PerRepeat
<1>. HIDE DEF S
<1>. QED BY <1>1, <1>2, <1>7, <1>8, <1>9

(* The end of a repeat that kept to its budget.                            *)
LEMMA EndWithin ==
  ASSUME LoopsOK, pol.ok, NEW o, EndRepeat(o), tally <= Before + PerRepeat,
         UNCHANGED <<pol, tally>>
  PROVE  BudgetInv'
<1>1. PerRepeat' = PerRepeat
  BY DEF PerRepeat, Window, Samples
<1>2. Before + PerRepeat = repeat * PerRepeat /\ repeat \in Nat
  BY BudgetFacts DEF LoopsOK, IInv, EndsTyped
<1>3. \/ pc' = "done" /\ repeat' = repeat
      \/ pc' = "repeat" /\ repeat' = repeat + 1
  BY EndRepeatFacts
<1>4. pc' = "repeat" => Before' = repeat * PerRepeat
  BY <1>1, <1>2, <1>3 DEF Before
<1>. QED BY <1>1, <1>2, <1>3, <1>4 DEF BudgetInv, InRepeat

LEMMA BudgetInit == Init => BudgetInv
<1> SUFFICES ASSUME Init, pol.ok PROVE BudgetInv
  BY DEF BudgetInv
<1>1. LoopsOK
  BY InitIInv, InitPolicy, LoopInit DEF LoopsOK
<1>2. pc = "repeat" /\ tally = 0 /\ repeat = 1
  BY DEF Init
<1>3. Before \in Nat
  BY <1>1, BudgetFacts
<1>. QED BY <1>2, <1>3 DEF BudgetInv, InRepeat

(* A bound that moves with what it bounds.                                 *)
LEMMA SumMoves ==
  ASSUME NEW t \in Int, NEW u \in Int, NEW m \in Int, NEW k \in Int, NEW b \in Int,
         u + m <= t + k, t <= b + m
  PROVE  u <= b + k
OBVIOUS

(* A step that stays in the sample and makes no more attempts than the     *)
(* sample has left.                                                        *)
LEMMA SampleStays ==
  ASSUME LoopsOK, LoopInv', pol.ok, NEW n \in Nat, InSample(n),
         UNCHANGED <<pol, eventual, stable, firstPass, repeat>>, now <= now',
         tally' + Made <= tally + Made',
         Last(n) => pc' \in {"attempt", "delay", "judge"},
         Missed(n) => /\ pc' \in {"attempt", "judge"} /\ (pc' = "judge" => last' # "pass")
                      /\ tally' = tally
  PROVE  InSample(n)'
<1>1. /\ now \in Nat /\ tally \in Nat /\ eventual \in Int /\ stable \in Nat \cup {-1}
      /\ now' \in Nat /\ tally' \in Nat /\ number \in Int /\ number' \in Int
      /\ pol.attempts \in Nat /\ pol.eventually \in Nat
      /\ stable # -1 => firstPass \in Nat
  BY PolicyFacts DEF LoopsOK, LoopInv
<1>2. Made \in Int /\ Made' \in Int
  BY <1>1 DEF Made
<1>3. Before' = Before /\ Window(pol') = Window(pol) /\ Start' = Start
      /\ Whole(n)' = Whole(n) /\ Whole(n + 1)' = Whole(n + 1) /\ Span(n)' = Span(n)
  BY DEF Before, PerRepeat, Samples, Window, Start, Whole, Span
<1>4. Before \in Nat /\ Whole(n) \in Nat /\ Whole(n + 1) \in Nat /\ Span(n) \in Nat
      /\ Window(pol) \in Nat
  BY BudgetFacts
<1>5. Start \in Int
  BY <1>1 DEF Start
<1>10. \A b \in Int : tally <= b + Made => tally' <= b + Made'
  <2>1. tally \in Int /\ tally' \in Int
    BY <1>1
  <2>. QED BY <1>2, <2>1, SumMoves
<1>6. CASE Polled(n)
  <2>1. stable' = -1 /\ Span(n)' <= pol'.eventually
    BY <1>3, <1>6 DEF Polled
  <2>2. Span(n)' <= now' - Start'
    BY <1>1, <1>3, <1>4, <1>5, <1>6 DEF Polled
  <2>3. tally <= Before + Whole(n) + Made
    BY <1>6 DEF Polled
  <2>4. tally' <= Before + Whole(n) + Made'
    BY <1>4, <1>10, <2>3
  <2>5. Polled(n)'
    BY <1>3, <2>1, <2>2, <2>4 DEF Polled
  <2>. QED BY <2>5 DEF InSample
<1>7. CASE Missed(n)
  <2>1. stable' = -1 /\ Span(n)' <= pol'.eventually /\ pol'.eventually > 0
    BY <1>3, <1>7 DEF Missed
  <2>2. now' >= eventual' /\ tally' <= Before' + Whole(n + 1)'
    BY <1>1, <1>3, <1>4, <1>7 DEF Missed
  <2>. QED BY <1>7, <2>1, <2>2 DEF Missed, InSample
<1>8. CASE Watched(n)
  <2>1. stable' # -1 /\ Span(n)' <= Window(pol)'
    BY <1>3, <1>8 DEF Watched
  <2>2. Span(n)' <= pol'.eventually + (now' - firstPass')
    BY <1>1, <1>3, <1>4, <1>8 DEF Watched
  <2>3. tally <= Before + Whole(n) + Made
    BY <1>8 DEF Watched
  <2>4. tally' <= Before + Whole(n) + Made'
    BY <1>4, <1>10, <2>3
  <2>5. Watched(n)'
    BY <1>3, <2>1, <2>2, <2>4 DEF Watched
  <2>. QED BY <2>5 DEF InSample
<1>9. CASE Last(n)
  <2>1. stable' # -1 /\ Span(n)' <= Window(pol)'
    BY <1>3, <1>9 DEF Last
  <2>2. now' >= stable' /\ pc' \in {"attempt", "delay", "judge"}
    BY <1>1, <1>9 DEF Last
  <2>3. tally <= Before + Whole(n + 1) + Made
    BY <1>9 DEF Last
  <2>4. tally' <= Before + Whole(n + 1) + Made'
    BY <1>4, <1>10, <2>3
  <2>5. Last(n)'
    BY <1>3, <2>1, <2>2, <2>4 DEF Last
  <2>. QED BY <2>5 DEF InSample
<1>. QED BY <1>6, <1>7, <1>8, <1>9 DEF InSample

LEMMA BudgetStep ==
  ASSUME LoopsOK, LoopInv', BudgetInv, [Next]_vars
  PROVE  BudgetInv'
<1>1. pol' = pol
  BY DEF Next, vars, BeginRepeat, NoAttempt, Delay, Judge, Poll, Watch, NextSample, Attempt, Intervene
<1> SUFFICES ASSUME pol.ok PROVE BudgetInv'
  BY <1>1 DEF BudgetInv
<1>2. /\ pol.attempts \in Nat \ {0} /\ pol.delay \in Nat /\ pol.interval \in Nat \ {0}
      /\ pol.eventually \in Nat /\ pol.stableFor \in Nat /\ pol.timeout \in Nat
      /\ Window(pol) = pol.eventually + pol.stableFor
  BY PolicyFacts DEF LoopsOK, Window
<1>3. /\ number \in 1 .. pol.attempts /\ repeat \in Nat
      /\ now \in Nat /\ tally \in Nat /\ eventual \in Int /\ stable \in Nat \cup {-1}
      /\ last \in Results /\ cause \in {"none", "skip", "cancel"}
      /\ stable # -1 => /\ firstPass \in Nat /\ firstPass <= now
                        /\ stable = firstPass + pol.stableFor
  BY DEF LoopsOK, LoopInv, IInv, EndsTyped
<1>4. /\ repeat' = repeat => Before' = Before
      /\ Window(pol') = Window(pol) /\ \A n \in Nat : Whole(n)' = Whole(n) /\ Span(n)' = Span(n)
  BY <1>1 DEF PerRepeat, Window, Samples, Before, Whole, Span
<1>5. /\ PerRepeat \in Nat /\ Before \in Nat /\ Whole(0) = 0 /\ Span(0) = 0
      /\ \A n \in Nat : /\ Whole(n) \in Nat /\ Span(n) \in Nat /\ n + 1 \in Nat
                        /\ Whole(n + 1) = Whole(n) + pol.attempts
                        /\ Span(n + 1) = Span(n) + pol.interval
  BY BudgetFacts
<1>6. InRepeat => Start \in Nat /\ Start <= now /\ \E n \in Nat : InSample(n)
  BY DEF LoopsOK, LoopInv, BudgetInv
<1>7. ASSUME NEW n \in Nat, InSample(n)', pc' \notin {"repeat", "done"}
      PROVE  BudgetInv'
  BY <1>7 DEF BudgetInv
<1>8. CASE BeginRepeat
  <2>1. /\ pc = "repeat" /\ pc' = "attempt" /\ stable' = -1 /\ number' = 1 /\ now' = now
        /\ eventual' = now + pol.eventually /\ repeat' = repeat /\ tally' = tally
    BY <1>8 DEF BeginRepeat
  <2>2. tally <= Before
    BY <2>1 DEF BudgetInv
  <2>3. Made' = 0 /\ Start' = now
    BY <1>1, <1>2, <1>3, <2>1 DEF Made, Start
  <2>4. Polled(0)'
    BY <1>1, <1>2, <1>3, <1>4, <1>5, <2>1, <2>2, <2>3 DEF Polled
  <2>. QED BY <1>7, <2>1, <2>4 DEF InSample
<1>9. CASE NoAttempt
  <2>1. PICK n \in Nat : InSample(n)
    BY <1>6, <1>9 DEF NoAttempt, InRepeat
  <2>2. /\ pc = "attempt" /\ pc' = "judge" /\ now' = now /\ number' = number
        /\ UNCHANGED <<eventual, stable, firstPass, repeat, tally>> /\ last' # "pass"
    BY <1>9, ContextOutcomeType DEF NoAttempt
  <2>3. tally' + Made <= tally + Made' /\ now <= now'
    BY <1>1, <1>2, <1>3, <2>2 DEF Made
  <2>4. InSample(n)'
    BY <1>1, <2>1, <2>2, <2>3, SampleStays
  <2>. QED BY <1>7, <2>2, <2>4
<1>10. CASE Delay
  <2>1. PICK n \in Nat : InSample(n)
    BY <1>6, <1>10 DEF Delay, InRepeat
  <2>2. /\ pc = "delay" /\ UNCHANGED <<eventual, stable, firstPass, repeat, tally>>
        /\ \/ pc' = "attempt" /\ number' = number + 1
           \/ pc' = "judge"
    BY <1>10 DEF Delay
  <2>3. now <= now'
    BY <1>2, <1>3, <1>10, SleepFacts DEF Delay
  <2>4. tally' + Made <= tally + Made'
    BY <1>1, <1>2, <1>3, <2>2 DEF Made
  <2>5. ~Missed(n)
    BY <2>2 DEF Missed
  <2>6. InSample(n)'
    BY <1>1, <2>1, <2>2, <2>3, <2>4, <2>5, SampleStays
  <2>. QED BY <1>7, <2>2, <2>6
<1>11. ASSUME NEW d \in 0 .. MaxOp, NEW raw \in Raw, Attempt(d, raw)
       PROVE  BudgetInv'
  <2>1. PICK n \in Nat : InSample(n)
    BY <1>6, <1>11 DEF Attempt, InRepeat
  <2>2. /\ pc = "attempt" /\ UNCHANGED <<eventual, stable, firstPass, repeat, number>>
        /\ tally' = tally + 1 /\ pc' \in {"judge", "delay"}
    BY <1>11 DEF Attempt
  <2>3. now <= now' /\ (Polling => now < eventual)
    BY <1>2, <1>3, <1>11, AttemptFacts, PolicyAssumption
  <2>4. tally' + Made <= tally + Made'
    BY <1>1, <1>2, <1>3, <2>2 DEF Made
  <2>5. ~Missed(n)
    BY <1>3, <2>3 DEF Missed, Polling
  <2>6. InSample(n)'
    BY <1>1, <2>1, <2>2, <2>3, <2>4, <2>5, SampleStays
  <2>. QED BY <1>7, <2>2, <2>6
<1>12. ASSUME NEW c \in Causes, Intervene(c)
       PROVE  BudgetInv'
  <2>1. UNCHANGED <<pol, pc, now, number, eventual, stable, last, firstPass, repeat, tally>>
        /\ pc \in {"repeat"} \cup {"attempt", "delay", "judge", "poll", "watch"}
    BY <1>12 DEF Intervene
  <2>. QED BY <1>4, <2>1 DEF BudgetInv, InRepeat, InSample, Polled, Missed, Watched, Last, Made,
     Start, Before, PerRepeat, Whole, Span
<1>13. CASE Judge
  <2>1. pc = "judge" /\ UNCHANGED <<pol, now, number, eventual, last, cause, tally>>
    BY <1>3, <1>13, JudgeCases
  <2>2. PICK n \in Nat : InSample(n)
    BY <1>6, <2>1 DEF InRepeat
  <2>3. Made = pol.attempts
    BY <2>1 DEF Made
  <2>4. ASSUME NEW o, EndRepeat(o) PROVE BudgetInv'
    BY <2>1, <2>2, <2>4, SampleWithin, EndWithin DEF InRepeat
  <2>5. ASSUME pc' \in {"poll", "watch"}, UNCHANGED <<repeat, stable, firstPass>>,
               ~Last(n), ~Missed(n)
        PROVE  BudgetInv'
    <3>1. Made' = pol.attempts
      BY <1>1, <2>5 DEF Made
    <3>2. tally' + Made <= tally + Made' /\ now <= now'
      BY <1>2, <1>3, <2>1, <2>3, <3>1
    <3>3. InSample(n)'
      BY <1>1, <2>1, <2>2, <2>5, <3>2, SampleStays
    <3>. QED BY <1>7, <2>5, <3>3
  <2>6. ASSUME last # "pass", Polling, now < eventual, pc' = "poll",
               UNCHANGED <<repeat, stable, firstPass>>
        PROVE  BudgetInv'
    <3>1. ~Last(n) /\ ~Missed(n)
      BY <1>3, <2>6 DEF Last, Missed, Polling
    <3>. QED BY <2>5, <2>6, <3>1
  <2>7. ASSUME last = "pass", stable = -1, pol.stableFor # 0, pc' = "watch",
               firstPass' = now, stable' = now + pol.stableFor, UNCHANGED repeat
        PROVE  BudgetInv'
    <3>1. Polled(n)
      BY <2>1, <2>2, <2>7 DEF InSample, Missed, Watched, Last
    <3>2. Made' = pol.attempts /\ Before' = Before /\ Span(n)' = Span(n) /\ Whole(n)' = Whole(n)
      BY <1>1, <1>4, <2>7 DEF Made
    <3>3. stable' # -1 /\ Span(n)' <= Window(pol)' /\ Span(n)' <= pol'.eventually + now' - firstPass'
      <4>1. Span(n) <= pol.eventually /\ Window(pol) = pol.eventually + pol.stableFor
        BY <1>3, <3>1 DEF Polled, Window
      <4>. QED BY <1>1, <1>2, <1>3, <1>4, <1>5, <2>1, <2>7, <3>2, <4>1
    <3>4. tally' <= Before' + Whole(n)' + Made'
      BY <2>1, <2>3, <3>1, <3>2 DEF Polled
    <3>5. Watched(n)'
      BY <3>3, <3>4 DEF Watched
    <3>. QED BY <1>7, <2>7, <3>5 DEF InSample
  <2>8. ASSUME last = "pass", stable # -1, ~WindowOver, pc' = "watch",
               UNCHANGED <<repeat, stable, firstPass>>
        PROVE  BudgetInv'
    <3>1. ~Last(n) /\ ~Missed(n)
      BY <1>3, <2>8 DEF Last, Missed, WindowOver
    <3>. QED BY <2>5, <2>8, <3>1
  <2>. QED BY <1>3, <1>13, <2>4, <2>6, <2>7, <2>8, JudgeCases
<1>14. ASSUME NEW at \in {"poll", "watch"}, NEW deadline \in Nat, now < deadline,
              NextSample(at, deadline),
              at = "poll" => stable = -1 /\ deadline = eventual,
              at = "watch" => stable # -1 /\ deadline = stable
       PROVE  BudgetInv'
  <2>1. /\ pc = at /\ UNCHANGED <<pol, eventual, stable, cause, tally, firstPass>>
        /\ now' \in Nat /\ now <= now' /\ now' <= deadline
        /\ \/ /\ pc' = "attempt" /\ number' = 1 /\ UNCHANGED <<report, ends, repeat>>
              /\ now' = now + pol.interval \/ now' = deadline
           \/ \E o \in {"fail", "canceled", "skip"} : EndRepeat(o)
    BY <1>14, SampleCases
  <2>2. PICK n \in Nat : InSample(n)
    BY <1>6, <2>1 DEF InRepeat
  <2>3. ASSUME NEW o, EndRepeat(o) PROVE BudgetInv'
    BY <2>1, <2>2, <2>3, SampleWithin, EndWithin DEF InRepeat
  <2>4. ASSUME pc' = "attempt", number' = 1, UNCHANGED repeat,
               now' = now + pol.interval \/ now' = deadline
        PROVE  BudgetInv'
    <3>1. Made = pol.attempts /\ Made' = 0 /\ Start' = Start
      BY <1>1, <2>1, <2>4 DEF Made, Start
    <3>2. n + 1 \in Nat /\ Whole(n + 1) = Whole(n) + pol.attempts /\ Span(n + 1) = Span(n) + pol.interval
          /\ Whole(n + 1)' = Whole(n + 1) /\ Span(n + 1)' = Span(n + 1) /\ Span(n)' = Span(n)
          /\ Whole(n) \in Nat /\ Span(n) \in Nat /\ Before' = Before /\ Window(pol') = Window(pol)
      BY <1>4, <1>5, <2>4
    <3>3. at = "poll" => Polled(n) /\ deadline - Start = pol.eventually /\ Start \in Nat /\ Start <= now
      BY <1>2, <1>3, <1>6, <1>14, <2>1, <2>2 DEF InSample, Missed, Watched, Last, Start, InRepeat
    <3>4. at = "watch" => Watched(n)
      BY <1>14, <2>1, <2>2 DEF InSample, Polled, Missed, Last
    <3>5. CASE at = "poll" /\ now' = now + pol.interval
      <4>2. Span(n) <= now - Start /\ tally <= Before + Whole(n) + Made
        BY <3>3, <3>5 DEF Polled
      <4>3. Span(n + 1) <= now' - Start
        BY <1>2, <1>3, <3>2, <3>3, <3>5, <4>2
      <4>4. Span(n + 1) <= pol.eventually
        BY <1>2, <1>3, <1>14, <2>1, <3>2, <3>3, <3>5, <4>3
      <4>5. tally' <= Before + Whole(n + 1) + Made'
        BY <1>2, <1>3, <1>5, <2>1, <3>1, <3>2, <4>2
      <4>1. Polled(n + 1)'
        BY <1>1, <1>14, <2>1, <3>1, <3>2, <3>5, <4>3, <4>4, <4>5 DEF Polled
      <4>. QED BY <1>7, <2>4, <3>2, <4>1 DEF InSample
    <3>6. CASE at = "poll" /\ now' = deadline
      <4>1. pol.eventually > 0
        BY <1>2, <1>3, <1>14, <3>3, <3>6
      <4>2. Missed(n)'
        BY <1>1, <1>2, <1>3, <1>5, <1>14, <2>1, <2>4, <3>1, <3>2, <3>3, <3>6, <4>1 DEF Polled, Missed
      <4>. QED BY <1>7, <2>4, <4>2 DEF InSample
    <3>7. CASE at = "watch" /\ now' = now + pol.interval
      <4>2. Span(n) <= pol.eventually + (now - firstPass) /\ tally <= Before + Whole(n) + Made
        BY <3>4, <3>7 DEF Watched
      <4>3. Span(n + 1) <= pol.eventually + (now' - firstPass)
        BY <1>2, <1>3, <1>14, <3>2, <3>7, <4>2
      <4>4. Span(n + 1) <= Window(pol)
        BY <1>2, <1>3, <1>14, <2>1, <3>2, <3>7, <4>3
      <4>5. tally' <= Before + Whole(n + 1) + Made'
        BY <1>2, <1>3, <1>5, <2>1, <3>1, <3>2, <4>2
      <4>1. Watched(n + 1)'
        BY <1>1, <1>14, <2>1, <3>2, <3>7, <4>3, <4>4, <4>5 DEF Watched
      <4>. QED BY <1>7, <2>4, <3>2, <4>1 DEF InSample
    <3>8. CASE at = "watch" /\ now' = deadline
      <4>1. Last(n)'
        BY <1>1, <1>2, <1>3, <1>5, <1>14, <2>1, <2>4, <3>1, <3>2, <3>4, <3>8 DEF Watched, Last
      <4>. QED BY <1>7, <2>4, <4>1 DEF InSample
    <3>. QED BY <2>4, <3>5, <3>6, <3>7, <3>8
  <2>. QED BY <2>1, <2>3, <2>4
<1>15. CASE Poll
  <2>1. pc = "poll" /\ stable = -1 /\ eventual \in Nat /\ now < eventual
    BY <1>3, <1>15 DEF Poll, NextSample, LoopsOK, LoopInv
  <2>. QED BY <1>14, <1>15, <2>1 DEF Poll
<1>16. CASE Watch
  <2>1. pc = "watch" /\ stable # -1 /\ stable \in Nat /\ now < stable
    BY <1>3, <1>16 DEF Watch, NextSample, LoopsOK, LoopInv
  <2>. QED BY <1>14, <1>16, <2>1 DEF Watch
<1>17. CASE UNCHANGED vars
  BY <1>17 DEF vars, BudgetInv, InRepeat, InSample, Polled, Missed, Watched, Last, Made, Start,
     Before, PerRepeat, Whole, Span
<1>. QED BY <1>8, <1>9, <1>10, <1>11, <1>12, <1>13, <1>15, <1>16, <1>17 DEF Next

(* The retained attempts keep to the budget normalizePolicy checked, for   *)
(* every policy and however polling and watching share the time.           *)
THEOREM BudgetKept == Spec => []BudgetHolds
<1>1. Spec => []BudgetInv
  <2>1. LoopsOK /\ LoopsOK' /\ BudgetInv /\ [Next]_vars => BudgetInv'
    BY BudgetStep DEF LoopsOK
  <2>. QED BY BudgetInit, <2>1, LoopsTyped, PTL DEF Spec
<1>2. LoopsOK /\ BudgetInv => BudgetHolds
  <2> SUFFICES ASSUME LoopsOK, BudgetInv, pol.ok PROVE tally <= Attempted(pol) /\ tally <= MaxRetained
    BY DEF BudgetHolds
  <2>1. /\ repeat \in 1 .. pol.repeat /\ pol.repeat \in Nat /\ pol.attempts \in Nat
        /\ tally \in Nat /\ pc \in Active \cup {"done"}
        /\ Samples(Window(pol), pol.interval) \in Nat
    BY PolicyFacts, NeedFacts DEF LoopsOK, LoopInv, PolicyInv, IInv, EndsTyped
  <2>2. PerRepeat \in Nat /\ Before \in Nat /\ Before + PerRepeat = repeat * PerRepeat
    BY BudgetFacts
  <2>3. tally <= repeat * PerRepeat
    <3>1. InRepeat => tally <= Before + PerRepeat
      BY SampleWithin DEF BudgetInv
    <3>. QED BY <2>1, <2>2, <3>1 DEF BudgetInv, InRepeat, Active
  <2>4. repeat * PerRepeat <= pol.repeat * PerRepeat
    BY <2>1, <2>2, ProductGrows
  <2>5. pol.repeat * PerRepeat = Attempted(pol)
    BY <2>1 DEF PerRepeat, Attempted
  <2>6. Attempted(pol) <= MaxRetained /\ Attempted(pol) \in Nat /\ MaxRetained \in Nat
        /\ repeat * PerRepeat \in Nat
    BY <2>1, <2>2, ProductNat, NeedFacts, PolicyAssumption DEF LoopsOK, PolicyInv
  <2>. QED BY <2>1, <2>3, <2>4, <2>5, <2>6
<1>. QED BY <1>1, <1>2, LoopsTyped, PTL

-----------------------------------------------------------------------------
(* The time of a check                                                     *)

(* What the attempts made so far may have taken, each with the delay after *)
(* it, and the windows of the repeats before this one.                     *)
Spent == tally * (MaxOp + pol.delay)
Idle  == (repeat - 1) * Window(pol)

(* The latest time the repeat in progress can have reached: the attempts   *)
(* and, beside them, its windows; and the sleeps end with their deadlines. *)
Ceiling == Spent + Idle + pol.eventually + (IF stable = -1 THEN 0 ELSE pol.stableFor)
Ahead   == IF pc = "delay" THEN pol.delay ELSE 0

InTime ==
  /\ now + Ahead <= Ceiling
  /\ eventual <= Spent + Idle + pol.eventually
  /\ stable <= Ceiling

TimeInv == pol.ok =>
  /\ pc = "repeat" => now <= Spent + Idle
  /\ pc = "done" => now <= Spent + repeat * Window(pol)
  /\ InRepeat => InTime

(* The products of the time.                                               *)
LEMMA TimeFacts ==
  ASSUME LoopsOK, pol.ok
  PROVE  /\ Spent \in Nat /\ Idle \in Nat /\ Window(pol) \in Nat
         /\ Window(pol) = pol.eventually + pol.stableFor
         /\ Idle + Window(pol) = repeat * Window(pol)
<1>1. /\ pol.delay \in Nat /\ tally \in Nat /\ repeat \in Nat \ {0} /\ MaxOp \in Nat
      /\ pol.eventually \in Nat /\ pol.stableFor \in Nat
  BY PolicyFacts, PolicyAssumption DEF LoopsOK, LoopInv, IInv, EndsTyped
<1>2. Spent \in Nat
  BY <1>1, ProductNat DEF Spent
<1>3. Window(pol) \in Nat /\ Window(pol) = pol.eventually + pol.stableFor
  BY <1>1 DEF Window
<1>4. Idle \in Nat /\ Idle + Window(pol) = repeat * Window(pol)
  <2>1. repeat - 1 \in Nat
    BY <1>1
  <2>. QED BY <1>1, <1>3, <2>1, ProductNat DEF Idle
<1>. QED BY <1>2, <1>3, <1>4

(* A repeat ends within its windows and its attempts.                      *)
LEMMA CeilingWithin ==
  ASSUME LoopsOK, pol.ok
  PROVE  Ceiling \in Nat /\ Ceiling <= Spent + Idle + Window(pol) /\ Ahead \in Nat
BY TimeFacts, PolicyFacts DEF Ceiling, Ahead, LoopsOK

(* The end of a repeat that kept to its time.                              *)
LEMMA TimeEnd ==
  ASSUME LoopsOK, pol.ok, NEW o, EndRepeat(o), now' <= Spent + Idle + Window(pol),
         UNCHANGED <<pol, tally>>
  PROVE  TimeInv'
<1>1. Spent' = Spent /\ Window(pol)' = Window(pol)
  BY DEF Spent, Window
<1>2. Idle + Window(pol) = repeat * Window(pol) /\ Spent \in Nat /\ Idle \in Nat
      /\ Window(pol) \in Nat /\ repeat \in Nat
  BY TimeFacts DEF LoopsOK, IInv, EndsTyped
<1>3. \/ pc' = "done" /\ repeat' = repeat
      \/ pc' = "repeat" /\ repeat' = repeat + 1
  BY EndRepeatFacts
<1>4. now' <= Spent + repeat * Window(pol)
  <2>1. Spent + Idle + Window(pol) = Spent + (Idle + Window(pol))
    BY <1>2
  <2>. QED BY <1>2, <2>1
<1>5. pc' = "repeat" => Idle' = repeat * Window(pol)
  BY <1>1, <1>2, <1>3 DEF Idle
<1>6. pc' = "done" => now' <= Spent' + repeat' * Window(pol)'
  BY <1>1, <1>3, <1>4
<1>7. pc' = "repeat" => now' <= Spent' + Idle'
  BY <1>1, <1>4, <1>5
<1>8. ~InRepeat'
  BY <1>3 DEF InRepeat
<1>. QED BY <1>6, <1>7, <1>8 DEF TimeInv

LEMMA TimeInit == Init => TimeInv
<1> SUFFICES ASSUME Init, pol.ok PROVE TimeInv
  BY DEF TimeInv
<1>1. LoopsOK
  BY InitIInv, InitPolicy, LoopInit DEF LoopsOK
<1>2. pc = "repeat" /\ now = 0
  BY DEF Init
<1>3. Spent \in Nat /\ Idle \in Nat
  BY <1>1, TimeFacts
<1>. QED BY <1>2, <1>3 DEF TimeInv, InRepeat

LEMMA TimeStep ==
  ASSUME LoopsOK, LoopInv', TimeInv, [Next]_vars
  PROVE  TimeInv'
<1>1. pol' = pol
  BY DEF Next, vars, BeginRepeat, NoAttempt, Delay, Judge, Poll, Watch, NextSample, Attempt, Intervene
<1> SUFFICES ASSUME pol.ok PROVE TimeInv'
  BY <1>1 DEF TimeInv
<1>2. /\ pol.delay \in Nat /\ pol.interval \in Nat \ {0} /\ MaxOp \in Nat
      /\ pol.eventually \in Nat /\ pol.stableFor \in Nat /\ pol.timeout \in Nat
  BY PolicyFacts, PolicyAssumption DEF LoopsOK
<1>3. /\ repeat \in Nat /\ now \in Nat /\ tally \in Nat /\ eventual \in Int
      /\ stable \in Nat \cup {-1} /\ last \in Results /\ cause \in {"none", "skip", "cancel"}
      /\ now' \in Nat
  BY <1>1 DEF LoopsOK, LoopInv, IInv, EndsTyped
<1>4. /\ Spent \in Nat /\ Idle \in Nat /\ Window(pol) \in Nat /\ Ceiling \in Nat
      /\ Ceiling <= Spent + Idle + Window(pol) /\ Ahead \in Nat
      /\ Window(pol) = pol.eventually + pol.stableFor
  BY TimeFacts, CeilingWithin
<1>5. tally' = tally => Spent' = Spent
  BY <1>1 DEF Spent
<1>6. repeat' = repeat => Idle' = Idle
  BY <1>1 DEF Idle, Window
<1>7. InRepeat => now + Ahead <= Ceiling /\ eventual <= Spent + Idle + pol.eventually
                  /\ stable <= Ceiling
  BY DEF TimeInv, InTime
<1>8. ASSUME UNCHANGED <<tally, repeat, stable>> PROVE Ceiling' = Ceiling
  BY <1>1, <1>5, <1>6, <1>8 DEF Ceiling
<1>9. ASSUME InRepeat, pc' \notin {"repeat", "done"}, UNCHANGED <<tally, repeat, stable, eventual>>,
             now' + Ahead' <= Ceiling
      PROVE  TimeInv'
  BY <1>1, <1>5, <1>6, <1>7, <1>8, <1>9 DEF TimeInv, InTime
<1>10. CASE BeginRepeat
  <2>1. /\ pc = "repeat" /\ pc' = "attempt" /\ stable' = -1 /\ now' = now
        /\ eventual' = now + pol.eventually /\ repeat' = repeat /\ tally' = tally
    BY <1>10 DEF BeginRepeat
  <2>2. now <= Spent + Idle
    BY <2>1 DEF TimeInv
  <2>3. Ceiling' = Spent + Idle + pol.eventually /\ Ahead' = 0
    BY <1>1, <1>4, <1>2, <1>5, <1>6, <2>1 DEF Ceiling, Ahead
  <2>4. now' + Ahead' <= Ceiling'
    BY <1>2, <1>3, <1>4, <2>1, <2>2, <2>3
  <2>5. eventual' <= Spent' + Idle' + pol'.eventually
    BY <1>1, <1>2, <1>3, <1>4, <1>5, <1>6, <2>1, <2>2
  <2>6. stable' <= Ceiling'
    BY <1>2, <1>4, <2>1, <2>3
  <2>. QED BY <2>1, <2>4, <2>5, <2>6 DEF TimeInv, InTime
<1>11. CASE NoAttempt
  <2>1. pc = "attempt" /\ pc' = "judge" /\ now' = now /\ UNCHANGED <<tally, repeat, stable, eventual>>
    BY <1>11 DEF NoAttempt
  <2>2. Ahead = 0 /\ Ahead' = 0 /\ InRepeat
    BY <2>1 DEF Ahead, InRepeat
  <2>. QED BY <1>7, <1>9, <2>1, <2>2
<1>12. CASE Delay
  <2>1. /\ pc = "delay" /\ pc' \in {"attempt", "judge"} /\ Sleep(pol.delay)
        /\ UNCHANGED <<tally, repeat, stable, eventual>>
    BY <1>12 DEF Delay
  <2>2. Ahead = pol.delay /\ Ahead' = 0 /\ InRepeat
    BY <2>1 DEF Ahead, InRepeat
  <2>3. now' <= now + pol.delay
    BY <1>2, <1>3, <2>1, SleepFacts
  <2>4. now + pol.delay <= Ceiling
    BY <1>7, <2>2
  <2>5. now' <= Ceiling
    BY <1>2, <1>3, <1>4, <2>3, <2>4
  <2>. QED BY <1>3, <1>9, <2>1, <2>2, <2>5
<1>13. ASSUME NEW d \in 0 .. MaxOp, NEW raw \in Raw, Attempt(d, raw)
       PROVE  TimeInv'
  <2>1. /\ pc = "attempt" /\ UNCHANGED <<eventual, stable, repeat>>
        /\ tally' = tally + 1 /\ pc' \in {"judge", "delay"}
    BY <1>13 DEF Attempt
  <2>2. now' <= now + MaxOp
    <3>1. d \in Nat /\ d <= MaxOp
      BY <1>2
    <3>2. now' <= now + d
      BY <1>2, <1>3, <1>13, <3>1, AttemptFacts
    <3>. QED BY <1>3, <1>2, <3>1, <3>2
  <2>3. Spent' = Spent + MaxOp + pol.delay
    <3>1. (tally + 1) * (MaxOp + pol.delay) = tally * (MaxOp + pol.delay) + (MaxOp + pol.delay)
      <4>1. MaxOp + pol.delay \in Nat
        BY <1>2
      <4>. QED BY <1>3, <4>1, ProductNext
    <3>. QED BY <1>1, <1>2, <1>4, <2>1, <3>1 DEF Spent
  <2>4. Ceiling' = Ceiling + MaxOp + pol.delay
    BY <1>1, <1>2, <1>4, <1>6, <2>1, <2>3 DEF Ceiling
  <2>5. InRepeat /\ Ahead = 0 /\ Ahead' <= pol.delay /\ Ahead' \in Nat
    BY <1>1, <1>2, <2>1 DEF InRepeat, Ahead
  <2>6. now' + Ahead' <= Ceiling'
    BY <1>2, <1>3, <1>4, <1>7, <2>2, <2>4, <2>5
  <2>7. eventual' <= Spent' + Idle' + pol'.eventually
    BY <1>1, <1>2, <1>3, <1>4, <1>6, <1>7, <2>1, <2>3, <2>5
  <2>8. stable' <= Ceiling'
    BY <1>2, <1>3, <1>4, <1>7, <2>1, <2>4, <2>5
  <2>. QED BY <2>1, <2>6, <2>7, <2>8 DEF TimeInv, InTime
<1>14. ASSUME NEW c \in Causes, Intervene(c)
       PROVE  TimeInv'
  <2>1. UNCHANGED <<pol, pc, now, eventual, stable, repeat, tally>>
    BY <1>14 DEF Intervene
  <2>. QED BY <2>1 DEF TimeInv, InRepeat, InTime, Ceiling, Ahead, Spent, Idle, Window
<1>15. ASSUME NEW o, EndRepeat(o), InRepeat, UNCHANGED tally, now' <= Ceiling
       PROVE  TimeInv'
  <2>1. now' <= Spent + Idle + Window(pol)
    BY <1>3, <1>4, <1>15
  <2>. QED BY <1>1, <1>15, <2>1, TimeEnd
<1>16. CASE Judge
  <2>1. pc = "judge" /\ UNCHANGED <<pol, now, eventual, tally>>
    BY <1>3, <1>16, JudgeCases
  <2>2. InRepeat /\ Ahead = 0
    BY <2>1 DEF InRepeat, Ahead
  <2>3. now <= Ceiling
    BY <1>3, <1>7, <2>2
  <2>4. ASSUME NEW o, EndRepeat(o) PROVE TimeInv'
    BY <1>15, <2>1, <2>2, <2>3, <2>4
  <2>5. ASSUME pc' \in {"poll", "watch"}, UNCHANGED <<repeat, stable>>
        PROVE  TimeInv'
    <3>1. Ahead' = 0
      BY <2>5 DEF Ahead
    <3>. QED BY <1>3, <1>9, <2>1, <2>2, <2>3, <2>5, <3>1
  <2>6. ASSUME stable = -1, pc' = "watch", stable' = now + pol.stableFor, UNCHANGED repeat
        PROVE  TimeInv'
    <3>1. Ceiling = Spent + Idle + pol.eventually /\ Ahead' = 0
      BY <1>2, <1>4, <2>6 DEF Ceiling, Ahead
    <3>2. Ceiling' = Spent + Idle + pol.eventually + pol.stableFor
      <4>1. stable' # -1
        BY <1>2, <1>3, <2>6
      <4>. QED BY <1>1, <1>5, <1>6, <2>1, <2>6, <4>1 DEF Ceiling
    <3>3. now' + Ahead' <= Ceiling' /\ stable' <= Ceiling'
      BY <1>2, <1>3, <1>4, <2>1, <2>3, <2>6, <3>1, <3>2
    <3>4. eventual' <= Spent' + Idle' + pol'.eventually
      BY <1>1, <1>5, <1>6, <1>7, <2>1, <2>2, <2>6
    <3>. QED BY <2>6, <3>3, <3>4 DEF TimeInv, InTime
  <2>. QED BY <1>3, <1>16, <2>4, <2>5, <2>6, JudgeCases
<1>17. ASSUME NEW at \in {"poll", "watch"}, NEW deadline \in Nat, now < deadline,
              NextSample(at, deadline), deadline <= Ceiling,
              at = "poll" => stable = -1 /\ deadline = eventual,
              at = "watch" => stable # -1 /\ deadline = stable
       PROVE  TimeInv'
  <2>1. /\ pc = at /\ UNCHANGED <<pol, eventual, stable, cause, tally, firstPass>>
        /\ now' <= deadline
        /\ \/ pc' = "attempt" /\ UNCHANGED repeat
           \/ \E o \in {"fail", "canceled", "skip"} : EndRepeat(o)
    BY <1>17, SampleCases
  <2>2. InRepeat /\ now' <= Ceiling
    BY <1>3, <1>4, <1>17, <2>1 DEF InRepeat
  <2>3. ASSUME pc' = "attempt", UNCHANGED repeat PROVE TimeInv'
    <3>1. Ahead' = 0
      BY <2>3 DEF Ahead
    <3>. QED BY <1>3, <1>9, <2>1, <2>2, <2>3, <3>1
  <2>. QED BY <1>15, <2>1, <2>2, <2>3
<1>18. CASE Poll
  <2>1. pc = "poll" /\ stable = -1 /\ eventual \in Nat /\ now < eventual
    BY <1>3, <1>18 DEF Poll, NextSample, LoopsOK, LoopInv
  <2>2. eventual <= Ceiling
    BY <1>2, <1>4, <1>7, <2>1 DEF InRepeat, Ceiling
  <2>. QED BY <1>17, <1>18, <2>1, <2>2 DEF Poll
<1>19. CASE Watch
  <2>1. pc = "watch" /\ stable # -1 /\ stable \in Nat /\ now < stable
    BY <1>3, <1>19 DEF Watch, NextSample, LoopsOK, LoopInv
  <2>2. stable <= Ceiling
    BY <1>7, <2>1 DEF InRepeat
  <2>. QED BY <1>17, <1>19, <2>1, <2>2 DEF Watch
<1>20. CASE UNCHANGED vars
  BY <1>20 DEF vars, TimeInv, InRepeat, InTime, Ceiling, Ahead, Spent, Idle, Window
<1>. QED BY <1>10, <1>11, <1>12, <1>13, <1>14, <1>16, <1>18, <1>19, <1>20 DEF Next

(* A policy without a timeout is given one that never strikes while its    *)
(* operations keep to theirs: the attempts and windows of the whole check  *)
(* come to less, for every policy.                                         *)
THEOREM TimeoutSuffices == Spec => []DefaultTimeoutSuffices
<1>1. Spec => []TimeInv
  <2>1. LoopsOK /\ LoopsOK' /\ TimeInv /\ [Next]_vars => TimeInv'
    BY TimeStep DEF LoopsOK
  <2>. QED BY TimeInit, <2>1, LoopsTyped, PTL DEF Spec
<1>2. LoopsOK /\ BudgetHolds /\ TimeInv => DefaultTimeoutSuffices
  <2> SUFFICES ASSUME LoopsOK, BudgetHolds, TimeInv, pol.ok, pol.given.timeout = 0,
                      MaxOp < OpTimeout
               PROVE  now < pol.timeout
    BY DEF DefaultTimeoutSuffices
  <2> DEFINE A == Attempted(pol)
             W == Window(pol)
             c == MaxOp + pol.delay
             e == OpTimeout + pol.delay
  <2>1. /\ repeat \in 1 .. pol.repeat /\ pol.repeat \in Nat /\ tally \in Nat /\ now \in Nat
        /\ pol.delay \in Nat /\ MaxOp \in Nat /\ OpTimeout \in Nat
        /\ pc \in Active \cup {"done"}
    BY PolicyFacts, PolicyAssumption DEF LoopsOK, LoopInv, PolicyInv, IInv, EndsTyped
  <2>2. Spent \in Nat /\ Idle \in Nat /\ W \in Nat /\ Idle + W = repeat * W
        /\ Ceiling \in Nat /\ Ceiling <= Spent + Idle + W /\ Ahead \in Nat
    BY TimeFacts, CeilingWithin
  <2>3. A \in Nat \ {0} /\ tally <= A
    BY NeedFacts DEF BudgetHolds, LoopsOK, PolicyInv
  <2>4. pol.timeout = A * e + pol.repeat * W
    BY DEF LoopsOK, PolicyInv, Need
  <2>5. c \in Nat /\ e \in Nat /\ c + 1 <= e /\ Spent = tally * c
    BY <2>1 DEF Spent
  <2>6. now <= Spent + repeat * W
    <3>1. InRepeat => now <= Ceiling
      BY <2>1, <2>2 DEF TimeInv, InTime
    <3>2. repeat * W \in Nat
      BY <2>1, <2>2, ProductNat
    <3>3. pc = "repeat" => now <= Spent + Idle
      BY DEF TimeInv
    <3>4. pc = "done" => now <= Spent + repeat * W
      BY DEF TimeInv
    <3>5. pc = "repeat" \/ pc = "done" \/ InRepeat
      BY <2>1 DEF Active, InRepeat
    <3>. HIDE DEF W
    <3>6. CASE pc = "repeat"
      BY <2>1, <2>2, <3>2, <3>3, <3>6
    <3>7. CASE InRepeat
      BY <2>1, <2>2, <3>1, <3>2, <3>7
    <3>. QED BY <3>4, <3>5, <3>6, <3>7
  <2>. HIDE DEF A, W, c, e
  <2>7. tally * c <= A * c /\ repeat * W <= pol.repeat * W
    BY <2>1, <2>2, <2>3, <2>5, ProductGrows
  <2>8. A * c + A <= A * e
    <3>1. (c + 1) * A <= e * A
      BY <2>3, <2>5, ProductGrows
    <3>2. (c + 1) * A = A * c + A /\ e * A = A * e
      BY <2>3, <2>5
    <3>. QED BY <3>1, <3>2
  <2>9. tally * c \in Nat /\ A * c \in Nat /\ A * e \in Nat /\ repeat * W \in Nat
        /\ pol.repeat * W \in Nat
    BY <2>1, <2>2, <2>3, <2>5, ProductNat
  <2>. QED BY <2>1, <2>3, <2>4, <2>5, <2>6, <2>7, <2>8, <2>9
<1>. QED BY <1>1, <1>2, LoopsTyped, BudgetKept, PTL

(* normalizePolicy and checkAttempted agree, for every policy: the         *)
(* arithmetic is exact, and the loops keep to the budget and to the time.  *)
THEOREM PolicyFitting == Spec => []PolicyFits
<1>1. LoopsOK /\ BudgetHolds /\ DefaultTimeoutSuffices => PolicyFits
  BY DEF LoopsOK, PolicyInv, PolicyFits
<1>. QED BY <1>1, LoopsTyped, BudgetKept, TimeoutSuffices, PTL

(* The state of a check keeps its types: the loop counters stay within the *)
(* policy, and its timeout within a time.Duration.                         *)
THEOREM PolicyTyped == Spec => []TypeOK
<1> DEFINE Counted == now \in Nat /\ tally \in Nat
<1>1. Init => Counted
  BY DEF Init
<1>2. LoopsOK /\ LoopsOK' /\ Counted /\ [Next]_vars => Counted'
  <2> SUFFICES ASSUME LoopsOK, LoopsOK', Counted, [Next]_vars PROVE Counted'
    OBVIOUS
  <2>1. pol' = pol
    BY DEF Next, vars, BeginRepeat, NoAttempt, Delay, Judge, Poll, Watch, NextSample, Attempt, Intervene
  <2>2. CASE pol.ok
    BY <2>1, <2>2 DEF LoopsOK, LoopInv
  <2>3. CASE ~pol.ok
    <3>1. pc = "rejected"
      BY <2>3 DEF LoopsOK, PolicyInv
    <3>. QED BY <3>1 DEF Next, vars, BeginRepeat, NoAttempt, Delay, Judge, Poll, Watch, NextSample,
         Attempt, Intervene
  <2>. QED BY <2>2, <2>3
<1>3. LoopsOK /\ Counted => TypeOK
  <2> SUFFICES ASSUME LoopsOK, Counted PROVE TypeOK
    OBVIOUS
  <2>1. pol.ok => repeat \in 1 .. pol.repeat /\ number \in 1 .. pol.attempts
                  /\ pol.timeout \in 1 .. MaxDuration
    BY DEF LoopsOK, LoopInv, PolicyInv
  <2>. QED BY <2>1 DEF LoopsOK, IInv, EndsTyped, TypeOK, Results, Active
<1>. HIDE DEF Counted
<1>. QED BY <1>1, <1>2, <1>3, LoopsTyped, PTL DEF Spec

-----------------------------------------------------------------------------
(* SessionStart *)

(* Session start with or without the fairness of its Spec.                *)
Starting == Dial!Init /\ [][Dial!Next]_(Dial!vars)

(* Its Cardinality is that of FiniteSets.                                  *)
LEMMA SameCardinality == \A A : Dial!Cardinality(A) = Cardinality(A)
  BY Zenon DEF Dial!Cardinality, Cardinality

(* Start is called with a list of devices, tries at least once, and        *)
(* NewServer makes the channel with a buffer.                              *)
StartAssumption ==
  /\ Targets \in Seq(Dial!Serials)
  /\ MaxAttempts \in Nat \ {0}
  /\ ReadyCap \in Nat \ {0}

Steps == {"listen", "reverse", "launch", "check", "unlocked", "select", "running",
          "stop", "remove", "retry", "failed", "closed"}

DialTypeOK ==
  /\ step \in Steps
  /\ attempt \in 1 .. MaxAttempts
  /\ started \in 0 .. Len(Targets)
  /\ step = "launch" => started < Len(Targets)
  /\ reversed \subseteq Dial!Serials
  /\ err \in {"none", "collision", "other"}
  /\ serving \in BOOLEAN
  /\ infos \subseteq Dial!Serials /\ announcing \subseteq Dial!Serials
  /\ ready \in Seq(Dial!Serials) /\ Len(ready) <= ReadyCap

LEMMA SerialsFinite == StartAssumption => IsFiniteSet(Dial!Serials)
<1> SUFFICES ASSUME StartAssumption PROVE IsFiniteSet(Dial!Serials)
  OBVIOUS
<1>1. Len(Targets) \in Nat
  BY DEF StartAssumption
<1>2. IsFiniteSet(1 .. Len(Targets))
  BY <1>1, FS_Interval
<1> DEFINE f == [i \in 1 .. Len(Targets) |-> Targets[i]]
<1>3. f \in Surjection(1 .. Len(Targets), Dial!Serials)
  BY DEF Surjection, Dial!Serials
<1>. QED BY <1>2, <1>3, FS_Surjection

(* A set of agents no smaller than the list of devices stays a reason to   *)
(* wake up only as long as nobody leaves it.                               *)
LEMMA FewerAgents ==
  ASSUME StartAssumption, NEW A \in SUBSET Dial!Serials, NEW B \in SUBSET A,
         Cardinality(B) >= Len(Targets)
  PROVE  Cardinality(A) >= Len(Targets)
<1>1. IsFiniteSet(A)
  BY SerialsFinite, FS_Subset
<1>2. Cardinality(B) <= Cardinality(A) /\ Cardinality(A) \in Nat /\ Cardinality(B) \in Nat
  BY <1>1, FS_Subset, FS_CardinalityType
<1>. QED BY <1>2 DEF StartAssumption

LEMMA InitDial == StartAssumption /\ Dial!Init => DialTypeOK
<1> SUFFICES ASSUME StartAssumption, Dial!Init PROVE DialTypeOK
  OBVIOUS
<1>1. Len(Targets) \in Nat /\ <<>> \in Seq(Dial!Serials) /\ Len(<<>>) = 0
  BY DEF StartAssumption
<1>2. attempt \in 1 .. MaxAttempts /\ started \in 0 .. Len(Targets) /\ step = "listen"
  BY <1>1 DEF StartAssumption, Dial!Init
<1>3. ready \in Seq(Dial!Serials) /\ Len(ready) <= ReadyCap
  BY <1>1 DEF StartAssumption, Dial!Init
<1>. QED BY <1>2, <1>3 DEF Dial!Init, DialTypeOK, Steps

LEMMA DialStep == StartAssumption /\ DialTypeOK /\ [Dial!Next]_(Dial!vars) => DialTypeOK'
<1> SUFFICES ASSUME StartAssumption, DialTypeOK, [Dial!Next]_(Dial!vars) PROVE DialTypeOK'
  OBVIOUS
<1>1. Len(Targets) \in Nat /\ \A i \in 1 .. Len(Targets) : Targets[i] \in Dial!Serials
  BY DEF StartAssumption, Dial!Serials
<1> USE DEF DialTypeOK, Steps, Dial!net
<1>2. CASE Dial!Listen
  <2>1. started' \in 0 .. Len(Targets) /\ step' \in {"reverse", "failed"} /\ err' \in {"none", "other"}
    BY <1>1, <1>2 DEF Dial!Listen
  <2>. QED BY <1>2, <2>1 DEF Dial!Listen
<1>3. CASE Dial!Reverse
  <2>1. Targets[started + 1] \in Dial!Serials
    BY <1>1, <1>3 DEF Dial!Reverse
  <2>. QED BY <1>1, <1>3, <2>1 DEF Dial!Reverse, Dial!Fail
<1>4. CASE Dial!StartAgentSession
  BY <1>1, <1>4 DEF Dial!StartAgentSession, Dial!Fail
<1>5. CASE Dial!WaitCheck \/ Dial!WaitSelect \/ Dial!WaitTimeout \/ Dial!CloseRunning
  BY <1>1, <1>5 DEF Dial!WaitCheck, Dial!WaitSelect, Dial!WaitTimeout, Dial!CloseRunning
<1>6. CASE Dial!WaitWake
  <2>1. Tail(ready) \in Seq(Dial!Serials) /\ Len(Tail(ready)) <= ReadyCap
    BY <1>6 DEF Dial!WaitWake, StartAssumption
  <2>. QED BY <1>1, <1>6, <2>1 DEF Dial!WaitWake
<1>7. CASE Dial!StopServer
  <2>1. <<>> \in Seq(Dial!Serials) /\ Len(<<>>) <= ReadyCap
    BY DEF StartAssumption
  <2>. QED BY <1>1, <1>7, <2>1 DEF Dial!StopServer
<1>8. CASE Dial!RemoveReverses
  BY <1>1, <1>8 DEF Dial!RemoveReverses
<1>9. CASE Dial!Retry
  BY <1>1, <1>9 DEF Dial!Retry, StartAssumption
<1>10. ASSUME NEW t \in Dial!Serials, Dial!Register(t) \/ Dial!Disconnect(t)
       PROVE  DialTypeOK'
  BY <1>1, <1>10 DEF Dial!Register, Dial!Disconnect
<1>11. ASSUME NEW t \in Dial!Serials, Dial!Announce(t)
       PROVE  DialTypeOK'
  <2>1. Dial!Push(t) \in Seq(Dial!Serials) /\ Len(Dial!Push(t)) <= ReadyCap
    BY DEF Dial!Push, StartAssumption
  <2>. QED BY <1>1, <1>11, <2>1 DEF Dial!Announce
<1>12. CASE Dial!Finished \/ UNCHANGED Dial!vars
  BY <1>1, <1>12 DEF Dial!Finished, Dial!vars
<1>. QED BY <1>2, <1>3, <1>4, <1>5, <1>6, <1>7, <1>8, <1>9, <1>10, <1>11, <1>12 DEF Dial!Next, Dial!Start

(* The steps after grpcServer.Stop, or before the server of an attempt.    *)
Down == step \in {"remove", "retry", "listen", "failed", "closed"}
DownServesNobody == Down => ~serving

LEMMA DownStep == DownServesNobody /\ [Dial!Next]_(Dial!vars) => DownServesNobody'
<1> SUFFICES ASSUME DownServesNobody, [Dial!Next]_(Dial!vars) PROVE DownServesNobody'
  OBVIOUS
<1> USE DEF DownServesNobody, Down
<1>1. CASE Dial!Listen \/ Dial!StopServer \/ Dial!RemoveReverses \/ Dial!Retry
  BY <1>1 DEF Dial!Listen, Dial!StopServer, Dial!RemoveReverses, Dial!Retry
<1>2. CASE Dial!Reverse \/ Dial!StartAgentSession
  BY <1>2 DEF Dial!Reverse, Dial!StartAgentSession, Dial!Fail
<1>3. CASE Dial!WaitCheck \/ Dial!WaitSelect \/ Dial!WaitWake \/ Dial!WaitTimeout \/ Dial!CloseRunning
  BY <1>3 DEF Dial!WaitCheck, Dial!WaitSelect, Dial!WaitWake, Dial!WaitTimeout, Dial!CloseRunning
<1>4. ASSUME NEW t \in Dial!Serials, Dial!Register(t) \/ Dial!Announce(t) \/ Dial!Disconnect(t)
      PROVE  DownServesNobody'
  BY <1>4 DEF Dial!Register, Dial!Announce, Dial!Disconnect
<1>5. CASE Dial!Finished \/ UNCHANGED Dial!vars
  BY <1>5 DEF Dial!Finished, Dial!vars
<1>. QED BY <1>1, <1>2, <1>3, <1>4, <1>5 DEF Dial!Next, Dial!Start

LEMMA DialInvariant ==
  ASSUME StartAssumption
  PROVE  Starting => [](DialTypeOK /\ DownServesNobody)
<1>1. Dial!Init => DialTypeOK /\ DownServesNobody
  BY InitDial DEF Dial!Init, DownServesNobody
<1>2. DialTypeOK /\ DownServesNobody /\ [Dial!Next]_(Dial!vars) => (DialTypeOK /\ DownServesNobody)'
  BY DialStep, DownStep
<1>. QED BY <1>1, <1>2, PTL DEF Starting

-----------------------------------------------------------------------------
(* Whatever becomes of the adb commands, rules other than those adb        *)
(* reported an error for are the current attempt's own, and none is left   *)
(* where an attempt has been closed.                                       *)
THEOREM ReleasesRules == StartAssumption /\ Starting => []Dial!RulesReleased
<1>. SUFFICES ASSUME StartAssumption PROVE Starting => []Dial!RulesReleased
  OBVIOUS
<1> DEFINE Own == {Dial!Rule(t) : t \in reversed}
<1>1. Dial!Init => Dial!RulesReleased
  BY DEF Dial!Init, Dial!RulesReleased
<1>2. ASSUME Dial!RulesReleased, [Dial!Next]_(Dial!vars)
      PROVE  Dial!RulesReleased'
  <2>1. CASE UNCHANGED <<rules, leaked, reversed, attempt>>
             /\ (step' \in {"listen", "retry", "failed", "closed"} =>
                   step \in {"listen", "retry", "failed", "closed"})
    BY <1>2, <2>1 DEF Dial!RulesReleased, Dial!Rule
  <2>2. CASE Dial!Listen
    BY <1>2, <2>2 DEF Dial!Listen, Dial!RulesReleased
  <2>3. CASE Dial!Reverse
    <3>1. PICK t : t = Targets[started + 1]
      OBVIOUS
    <3>2. /\ step = "reverse" /\ attempt' = attempt /\ step' \in {"launch", "stop"}
          /\ \/ rules' = rules \cup {Dial!Rule(t)} /\ reversed' = reversed \cup {t} /\ leaked' = leaked
             \/ rules' = rules /\ reversed' = reversed /\ leaked' = leaked
             \/ /\ rules' = rules \cup {Dial!Rule(t)} /\ reversed' = reversed
                /\ leaked' = leaked \cup {Dial!Rule(t)}
      BY <2>3, <3>1 DEF Dial!Reverse, Dial!Fail
    <3>. QED BY <1>2, <3>2 DEF Dial!RulesReleased, Dial!Rule
  <2>4. CASE Dial!StartAgentSession \/ Dial!WaitCheck \/ Dial!WaitSelect \/ Dial!WaitWake
             \/ Dial!WaitTimeout \/ Dial!CloseRunning \/ Dial!StopServer
    BY <2>1, <2>4
    DEF Dial!StartAgentSession, Dial!WaitCheck, Dial!WaitSelect, Dial!WaitWake, Dial!WaitTimeout,
        Dial!CloseRunning, Dial!StopServer, Dial!Fail
  <2>5. CASE Dial!RemoveReverses
    <3>1. PICK kept \in SUBSET reversed :
                 /\ rules' = rules \ {Dial!Rule(t) : t \in reversed \ kept}
                 /\ leaked' = leaked \cup {Dial!Rule(t) : t \in kept}
      BY <2>5 DEF Dial!RemoveReverses, Dial!Due
    <3>2. step = "remove" /\ rules' \ leaked' = {}
      BY <1>2, <2>5, <3>1 DEF Dial!RemoveReverses, Dial!RulesReleased
    <3>. QED BY <3>2 DEF Dial!RulesReleased
  <2>6. CASE Dial!Retry
    <3>1. rules \subseteq leaked /\ UNCHANGED <<rules, leaked>>
      BY <1>2, <2>6 DEF Dial!Retry, Dial!RulesReleased
    <3>. QED BY <3>1 DEF Dial!RulesReleased
  <2>7. ASSUME NEW t \in Dial!Serials, Dial!Register(t) \/ Dial!Announce(t) \/ Dial!Disconnect(t)
        PROVE  Dial!RulesReleased'
    BY <2>1, <2>7 DEF Dial!Register, Dial!Announce, Dial!Disconnect
  <2>8. CASE Dial!Finished \/ UNCHANGED Dial!vars
    BY <2>1, <2>8 DEF Dial!Finished, Dial!vars
  <2>. QED BY <1>2, <2>2, <2>3, <2>4, <2>5, <2>6, <2>7, <2>8 DEF Dial!Next, Dial!Start
<1>3. Dial!RulesReleased /\ [Dial!Next]_(Dial!vars) => Dial!RulesReleased'
  BY <1>2
<1>. QED BY <1>1, <1>3, PTL DEF Starting

(* A wake-up is missing only while the last agent is missing: every agent  *)
(* that registers is announced, and an announcement is dropped only where  *)
(* another wake-up waits.                                                  *)
THEOREM MissesNoAgent == StartAssumption /\ Starting => []Dial!NoMissedAgent
<1>. SUFFICES ASSUME StartAssumption PROVE Starting => []Dial!NoMissedAgent
  OBVIOUS
<1>1. Dial!Init => Dial!NoMissedAgent
  BY DEF Dial!Init, Dial!NoMissedAgent
<1>2. ASSUME DialTypeOK, DialTypeOK', Dial!NoMissedAgent, [Dial!Next]_(Dial!vars)
      PROVE  Dial!NoMissedAgent'
  <2>1. CASE UNCHANGED <<infos, announcing, ready>>
             /\ (step' \in {"unlocked", "select"} => step \in {"unlocked", "select"})
    BY <1>2, <2>1 DEF Dial!NoMissedAgent
  <2>2. CASE step' \notin {"unlocked", "select"}
    BY <2>2 DEF Dial!NoMissedAgent
  <2>3. CASE Dial!Listen \/ Dial!Reverse \/ Dial!StartAgentSession \/ Dial!WaitWake
             \/ Dial!WaitTimeout \/ Dial!CloseRunning \/ Dial!StopServer \/ Dial!RemoveReverses \/ Dial!Retry
    BY <2>2, <2>3
    DEF Dial!Listen, Dial!Reverse, Dial!StartAgentSession, Dial!WaitWake, Dial!WaitTimeout,
        Dial!CloseRunning, Dial!StopServer, Dial!RemoveReverses, Dial!Retry, Dial!Fail
  <2>4. CASE Dial!WaitCheck
    <3>1. UNCHANGED <<infos, announcing, ready>>
          /\ (step' \in {"unlocked", "select"} => ~(Cardinality(infos) >= Len(Targets)))
      BY <2>4, SameCardinality DEF Dial!WaitCheck, Dial!net
    <3>. QED BY <3>1, SameCardinality DEF Dial!NoMissedAgent
  <2>5. CASE Dial!WaitSelect
    BY <2>1, <2>5 DEF Dial!WaitSelect, Dial!net
  <2>6. ASSUME NEW t \in Dial!Serials, Dial!Register(t)
        PROVE  Dial!NoMissedAgent'
    <3>1. announcing' # {}
      BY <2>6 DEF Dial!Register
    <3>. QED BY <3>1 DEF Dial!NoMissedAgent
  <2>7. ASSUME NEW t \in Dial!Serials, Dial!Announce(t)
        PROVE  Dial!NoMissedAgent'
    <3>1. ready' # <<>>
      BY <1>2, <2>7 DEF Dial!Announce, Dial!Push, DialTypeOK, StartAssumption
    <3>. QED BY <3>1 DEF Dial!NoMissedAgent
  <2>8. ASSUME NEW t \in Dial!Serials, Dial!Disconnect(t)
        PROVE  Dial!NoMissedAgent'
    <3>1. infos' \in SUBSET infos /\ infos \in SUBSET Dial!Serials /\ UNCHANGED <<step, announcing, ready>>
      BY <1>2, <2>8 DEF Dial!Disconnect, DialTypeOK
    <3>2. Cardinality(infos') >= Len(Targets) => Cardinality(infos) >= Len(Targets)
      BY <3>1, FewerAgents
    <3>. QED BY <1>2, <3>1, <3>2, SameCardinality DEF Dial!NoMissedAgent
  <2>9. CASE Dial!Finished \/ UNCHANGED Dial!vars
    BY <2>1, <2>9 DEF Dial!Finished, Dial!vars, Dial!net
  <2>. QED BY <1>2, <2>3, <2>4, <2>5, <2>6, <2>7, <2>8, <2>9 DEF Dial!Next, Dial!Start
<1>3. DialTypeOK /\ DialTypeOK' /\ Dial!NoMissedAgent /\ [Dial!Next]_(Dial!vars) => Dial!NoMissedAgent'
  BY <1>2
<1>. QED BY <1>1, <1>3, DialInvariant, PTL DEF Starting

(* WaitAgents counts agents without looking who they are.  Since only an   *)
(* agent that this attempt launched reaches its port, enough agents are    *)
(* all of them: a session is handed out with every selected device there.  *)
THEOREM StartsComplete ==
  ASSUME StartAssumption
  PROVE  Starting => [][step # "running" /\ step' = "running" => infos = Dial!Serials]_(Dial!vars)
<1>1. ASSUME NEW A \in SUBSET Dial!Serials, Cardinality(A) >= Len(Targets)
      PROVE  A = Dial!Serials
  <2> DEFINE f == [i \in 1 .. Len(Targets) |-> Targets[i]]
  <2>1. Len(Targets) \in Nat
    BY DEF StartAssumption
  <2>2. IsFiniteSet(1 .. Len(Targets)) /\ Cardinality(1 .. Len(Targets)) = Len(Targets)
    BY <2>1, FS_Interval
  <2>3. f \in Surjection(1 .. Len(Targets), Dial!Serials)
    BY DEF Surjection, Dial!Serials
  <2>4. Cardinality(Dial!Serials) <= Len(Targets)
    BY <2>2, <2>3, FS_Surjection
  <2>5. /\ Cardinality(A) <= Cardinality(Dial!Serials)
        /\ (Cardinality(Dial!Serials) = Cardinality(A) => Dial!Serials = A)
    BY SerialsFinite, FS_Subset
  <2>6. Cardinality(A) \in Nat /\ Cardinality(Dial!Serials) \in Nat
    BY SerialsFinite, FS_Subset, FS_CardinalityType
  <2>. QED BY <1>1, <2>1, <2>4, <2>5, <2>6
<1>2. DialTypeOK /\ [Dial!Next]_(Dial!vars)
      => [step # "running" /\ step' = "running" => infos = Dial!Serials]_(Dial!vars)
  <2> SUFFICES ASSUME DialTypeOK, Dial!Next, step # "running", step' = "running"
               PROVE  infos = Dial!Serials
    BY DEF Dial!vars
  <2>1. Dial!WaitCheck
    BY DEF Dial!Next, Dial!Start, Dial!Listen, Dial!Reverse, Dial!StartAgentSession,
           Dial!WaitCheck, Dial!WaitSelect, Dial!WaitWake, Dial!WaitTimeout, Dial!CloseRunning,
           Dial!StopServer, Dial!RemoveReverses, Dial!Retry, Dial!Register, Dial!Announce,
           Dial!Disconnect, Dial!Finished, Dial!Fail, Dial!vars
  <2>2. infos \in SUBSET Dial!Serials /\ Cardinality(infos) >= Len(Targets)
    BY <2>1, SameCardinality DEF Dial!WaitCheck, DialTypeOK
  <2>. QED BY <1>1, <2>2
<1>. QED BY <1>2, DialInvariant, PTL DEF Starting

(* Another attempt is made only after a port collision, with the server of *)
(* the last one stopped.                                                   *)
THEOREM RetriesCollisions ==
  ASSUME StartAssumption
  PROVE  Starting => [][attempt' # attempt => err = "collision" /\ ~serving]_(Dial!vars)
<1>1. DownServesNobody /\ [Dial!Next]_(Dial!vars)
      => [attempt' # attempt => err = "collision" /\ ~serving]_(Dial!vars)
  <2> SUFFICES ASSUME DownServesNobody, Dial!Next, attempt' # attempt
               PROVE  err = "collision" /\ ~serving
    BY DEF Dial!vars
  <2>1. Dial!Retry
    BY DEF Dial!Next, Dial!Start, Dial!Listen, Dial!Reverse, Dial!StartAgentSession,
           Dial!WaitCheck, Dial!WaitSelect, Dial!WaitWake, Dial!WaitTimeout, Dial!CloseRunning,
           Dial!StopServer, Dial!RemoveReverses, Dial!Register, Dial!Announce, Dial!Disconnect,
           Dial!Finished, Dial!vars
  <2>. QED BY <2>1 DEF Dial!Retry, Dial!Retries, DownServesNobody, Down
<1>. QED BY <1>1, DialInvariant, PTL DEF Starting

-----------------------------------------------------------------------------
(* Workflow *)

(* The workflow with or without the fairness of its Spec.                  *)
Flowing == Flow!Init /\ [][Flow!Next]_(Flow!vars)

(* The review keeps at least one run.                                      *)
FlowAssumption == MaxReports \in Nat \ {0}

States    == {"none", "running", "ending", "returned", "done"}
Events    == {"step", "paused", "running", "finished", "pause", "resume", "skip", "scoped"}
Emissions == [who : Agents \cup {"main", "ui"}, event : Events]
RunType   ==
  [state : States, id : Nat, plan : Nat, stopped : BOOLEAN, events : Seq(Emissions), sent : Nat,
   parked : SUBSET Agents, ended : SUBSET Agents, steps : [Agents -> Nat]]

Messages == [run : Nat, event : Emissions \cup {Flow!None}]

FlowTyped ==
  /\ message \in Seq(Messages) /\ reader \in Nat
  /\ run \in RunType /\ waiting \subseteq Emissions /\ eventMu \in Emissions \cup {Flow!None}
  /\ shown \in Nat /\ active \in Nat /\ begun \in Nat /\ loads \in Nat
  /\ {compiled, source, selected} \subseteq Nat
  /\ loading \in BOOLEAN /\ rerunReview \in BOOLEAN
  /\ runs \in Seq([plan : Nat, shown : Nat, planned : Nat, sent : Nat])
  /\ runs # <<>> => review \in 1 .. Len(runs)
  /\ phase = "review" \/ rerunReview => runs # <<>>

(* A load and an active run have screens of their own: no key of another   *)
(* screen changes the selection of a run, and no second run begins.        *)
OwnScreens ==
  /\ loading => phase = "load"
  /\ active # 0 => /\ phase \in {"running", "stopping"}
                   /\ run.id = active /\ selected = run.plan

(* One token goes around while a run is active: the reader or its message. *)
(* Each event delivered is shown, in the message, or in the channel; the   *)
(* result comes when nothing is left of them and nothing more can come.    *)
OneToken ==
  IF active = 0
    THEN reader = 0 /\ message = <<>>
    ELSE \/ reader = active /\ message = <<>> /\ shown + Len(run.events) = run.sent
         \/ /\ reader = 0 /\ Len(message) = 1 /\ message[1].run = active
            /\ IF message[1].event = Flow!None
                 THEN Flow!Closed /\ run.events = <<>> /\ shown = run.sent
                 ELSE shown + 1 + Len(run.events) = run.sent

FlowInv == FlowTyped /\ OwnScreens /\ OneToken /\ Flow!RetainedComplete

Entries == [plan : Nat, shown : Nat, planned : Nat, sent : Nat]

LEMMA FlowInit == Flow!Init => FlowInv
<1> SUFFICES ASSUME Flow!Init PROVE FlowInv
  OBVIOUS
<1>1. run \in RunType /\ run.state = "none"
  BY DEF Flow!Init, Flow!Idle, RunType, States
<1>2. runs = <<>> /\ Len(runs) = 0 /\ runs \in Seq(Entries)
  BY DEF Flow!Init
<1>3. FlowTyped
  <2>1. {compiled, source, selected} \subseteq Nat /\ shown \in Nat /\ active \in Nat /\ begun \in Nat
        /\ loads \in Nat /\ reader \in Nat
    BY DEF Flow!Init
  <2>2. loading = FALSE /\ rerunReview = FALSE /\ waiting = {} /\ eventMu = Flow!None /\ message = <<>>
        /\ phase = "load"
    BY DEF Flow!Init
  <2>3. message \in Seq(Messages)
    BY <2>2
  <2>. QED BY <1>1, <1>2, <2>1, <2>2, <2>3 DEF FlowTyped, Entries
<1>. QED BY <1>1, <1>2, <1>3 DEF Flow!Init, FlowInv, OwnScreens, OneToken, Flow!RetainedComplete

(* A step of the screens, which leave the run and the feed alone.          *)
LEMMA ScreenKeeps ==
  ASSUME FlowInv, UNCHANGED <<run, waiting, eventMu, active, shown, runs, message, reader, begun>>,
         {compiled', source', selected'} \subseteq Nat, loads' \in Nat,
         loading' \in BOOLEAN, rerunReview' \in BOOLEAN,
         runs # <<>> => review' \in 1 .. Len(runs),
         phase' = "review" \/ rerunReview' => runs # <<>>,
         loading' => phase' = "load",
         active # 0 => phase' = phase /\ selected' = selected
  PROVE  FlowInv'
<1>1. FlowTyped'
  BY DEF FlowInv, FlowTyped
<1>2. OwnScreens'
  BY DEF FlowInv, OwnScreens
<1>3. OneToken' /\ Flow!RetainedComplete'
  BY DEF FlowInv, OneToken, Flow!RetainedComplete, Flow!Closed
<1>. QED BY <1>1, <1>2, <1>3 DEF FlowInv

LEMMA ScreensKeep == FlowInv /\ (Flow!Screens /\ ~Flow!PreviewEnter) => FlowInv'
<1> SUFFICES ASSUME FlowInv, Flow!Screens, ~Flow!PreviewEnter PROVE FlowInv'
  OBVIOUS
<1>1. /\ {compiled, source, selected} \subseteq Nat /\ loads \in Nat /\ loading \in BOOLEAN
      /\ rerunReview \in BOOLEAN /\ runs \in Seq(Entries)
      /\ runs # <<>> => review \in 1 .. Len(runs)
      /\ phase = "review" \/ rerunReview => runs # <<>>
      /\ loading => phase = "load"
      /\ active # 0 => phase \in {"running", "stopping"}
  BY DEF FlowInv, FlowTyped, OwnScreens, Entries
<1> USE <1>1, ScreenKeeps DEF Flow!feed, Flow!work, Flow!bounds
<1>2. CASE Flow!LoadEnter
  BY <1>2 DEF Flow!LoadEnter
<1>3. CASE Flow!Loaded
  <2>1. CASE Flow!SetCompiled(loads)
    <3>1. {compiled', source', selected'} \subseteq Nat /\ phase' = "select" /\ rerunReview' = FALSE
      BY <2>1 DEF Flow!SetCompiled
    <3>2. active = 0 /\ loading' = FALSE
      BY <1>3 DEF Flow!Loaded
    <3>. QED BY <1>3, <2>1, <3>1, <3>2 DEF Flow!Loaded, Flow!SetCompiled
  <2>2. CASE UNCHANGED <<phase, compiled, source, selected, rerunReview, active, shown, runs, review>>
    BY <1>3, <2>2 DEF Flow!Loaded
  <2>. QED BY <1>3, <2>1, <2>2 DEF Flow!Loaded
<1>4. CASE Flow!LoadEsc
  BY <1>4 DEF Flow!LoadEsc
<1>5. CASE Flow!SelectEnter
  BY <1>5 DEF Flow!SelectEnter
<1>6. CASE Flow!PreviewEsc
  BY <1>6 DEF Flow!PreviewEsc
<1>7. CASE Flow!ReviewEdit
  <2>1. compiled' = source /\ source' = source /\ selected' = 0 /\ rerunReview' = FALSE /\ phase' = "select"
    BY <1>7 DEF Flow!ReviewEdit, Flow!SetCompiled
  <2>2. {compiled', source', selected'} \subseteq Nat
    BY <2>1
  <2>3. active = 0 /\ ~loading
    BY <1>7 DEF Flow!ReviewEdit
  <2>. QED BY <1>7, <2>1, <2>2, <2>3 DEF Flow!ReviewEdit, Flow!SetCompiled
<1>8. CASE Flow!ReviewOpen
  BY <1>8 DEF Flow!ReviewOpen
<1>9. CASE Flow!ReviewMove
  BY <1>9 DEF Flow!ReviewMove
<1>10. CASE Flow!ReviewRerun
  <2>1. review \in 1 .. Len(runs)
    BY <1>10 DEF Flow!ReviewRerun
  <2>2. runs[review] \in Entries
    BY <2>1
  <2>3. runs[review].plan \in Nat
    BY <2>2 DEF Entries
  <2>. QED BY <1>10, <2>3 DEF Flow!ReviewRerun
<1>. QED BY <1>2, <1>3, <1>4, <1>5, <1>6, <1>7, <1>8, <1>9, <1>10 DEF Flow!Screens

LEMMA StartKeeps == FlowInv /\ Flow!PreviewEnter => FlowInv'
<1> SUFFICES ASSUME FlowInv, Flow!PreviewEnter PROVE FlowInv'
  OBVIOUS
<1>1. active = 0 /\ message = <<>> /\ ~loading /\ message' = <<>>
  BY DEF FlowInv, OwnScreens, OneToken, Flow!PreviewEnter, FlowTyped
<1>2. /\ run' \in RunType /\ run'.state = "running" /\ run'.id = active' /\ run'.plan = selected'
      /\ run'.events = <<>> /\ run'.sent = 0 /\ active' \in Nat \ {0} /\ Len(run'.events) = 0
  <2>1. Flow!Idle \in RunType /\ Flow!Idle.events = <<>> /\ Flow!Idle.sent = 0
    BY DEF Flow!Idle, RunType, States
  <2>2. begun + 1 \in Nat \ {0} /\ compiled \in Nat
    BY DEF FlowInv, FlowTyped
  <2>3. run' = [Flow!Idle EXCEPT !.state = "running", !.id = begun + 1, !.plan = compiled]
        /\ active' = begun + 1 /\ selected' = compiled
    BY DEF Flow!PreviewEnter
  <2>. QED BY <2>1, <2>2, <2>3 DEF RunType, States
<1>3. FlowTyped'
  BY <1>2 DEF FlowInv, FlowTyped, Flow!PreviewEnter
<1>4. OwnScreens'
  BY <1>1, <1>2 DEF OwnScreens, Flow!PreviewEnter
<1>5. OneToken'
  BY <1>1, <1>2 DEF OneToken, Flow!PreviewEnter
<1>6. Flow!RetainedComplete'
  BY DEF FlowInv, Flow!RetainedComplete, Flow!PreviewEnter
<1>. QED BY <1>3, <1>4, <1>5, <1>6 DEF FlowInv

(* A step of the run or of its emitters that delivers nothing.             *)
LEMMA QuietKeeps ==
  ASSUME FlowInv, run' \in RunType, waiting' \subseteq Emissions,
         eventMu' \in Emissions \cup {Flow!None},
         UNCHANGED <<loading, compiled, source, selected, rerunReview, active, shown, runs, review,
                     reader, message, begun, loads>>,
         phase' = phase \/ (active # 0 /\ phase' = "stopping"),
         run'.id = run.id, run'.plan = run.plan, run'.events = run.events, run'.sent = run.sent,
         Flow!Closed => Flow!Closed'
  PROVE  FlowInv'
<1>1. FlowTyped'
  BY DEF FlowInv, FlowTyped, OwnScreens
<1>2. OwnScreens'
  BY DEF FlowInv, FlowTyped, OwnScreens
<1>3. OneToken'
  BY DEF FlowInv, OneToken
<1>4. Flow!RetainedComplete'
  BY DEF FlowInv, Flow!RetainedComplete
<1>. QED BY <1>1, <1>2, <1>3, <1>4 DEF FlowInv

LEMMA RunningKeeps == FlowInv /\ Flow!Running => FlowInv'
<1> SUFFICES ASSUME FlowInv, Flow!Running PROVE FlowInv'
  OBVIOUS
<1>1. run \in RunType /\ waiting \subseteq Emissions /\ eventMu \in Emissions \cup {Flow!None}
  BY DEF FlowInv, FlowTyped
<1>2. ASSUME NEW who \in Agents \cup {"main"}, NEW event \in Events, Flow!Want(who, event),
             NEW r \in RunType, run' = r, r.id = run.id, r.plan = run.plan, r.events = run.events,
             r.sent = run.sent, Flow!Closed => r.state = "done"
      PROVE  FlowInv'
  <2>1. waiting' \subseteq Emissions
    BY <1>1, <1>2 DEF Flow!Want, Flow!Emission, Emissions
  <2>2. Flow!Closed => Flow!Closed'
    BY <1>2 DEF Flow!Closed
  <2>. QED BY <1>1, <1>2, <2>1, <2>2, QuietKeeps DEF Flow!Want, Flow!model, Flow!feed, Flow!bounds
<1>3. ASSUME UNCHANGED <<Flow!model, ui, Flow!feed, paused, eventMu, waiting, Flow!bounds>>,
             NEW r \in RunType, run' = r, r.id = run.id, r.plan = run.plan, r.events = run.events,
             r.sent = run.sent, Flow!Closed => r.state = "done"
      PROVE  FlowInv'
  <2>1. Flow!Closed => Flow!Closed'
    BY <1>3 DEF Flow!Closed
  <2>. QED BY <1>1, <1>3, <2>1, QuietKeeps DEF Flow!model, Flow!feed, Flow!bounds
<1>4. ASSUME NEW a \in Agents, Flow!AgentStep(a)
      PROVE  FlowInv'
  <2>1. run.steps[a] + 1 \in Nat
    BY <1>1 DEF RunType
  <2>. DEFINE r == [run EXCEPT !.steps[a] = @ + 1]
  <2>2. r \in RunType /\ r.id = run.id /\ r.plan = run.plan /\ r.events = run.events
        /\ r.sent = run.sent /\ r.state = run.state
    BY <1>1, <2>1 DEF RunType
  <2>3. Flow!Want(a, "step") /\ run' = r
    BY <1>4 DEF Flow!AgentStep
  <2>. QED BY <1>2, <2>2, <2>3 DEF Events, Flow!Closed
<1>5. ASSUME NEW a \in Agents, Flow!AgentPark(a)
      PROVE  FlowInv'
  <2>. DEFINE r == [run EXCEPT !.parked = @ \cup {a}]
  <2>2. r \in RunType /\ r.id = run.id /\ r.plan = run.plan /\ r.events = run.events
        /\ r.sent = run.sent /\ r.state = run.state
    BY <1>1 DEF RunType
  <2>3. Flow!Want(a, "paused") /\ run' = r
    BY <1>5 DEF Flow!AgentPark
  <2>. QED BY <1>2, <2>2, <2>3 DEF Events, Flow!Closed
<1>6. ASSUME NEW a \in Agents, Flow!AgentResume(a)
      PROVE  FlowInv'
  <2>. DEFINE r == [run EXCEPT !.parked = @ \ {a}]
  <2>2. r \in RunType /\ r.id = run.id /\ r.plan = run.plan /\ r.events = run.events
        /\ r.sent = run.sent /\ r.state = run.state
    BY <1>1 DEF RunType
  <2>3. Flow!Want(a, "running") /\ run' = r
    BY <1>6 DEF Flow!AgentResume
  <2>. QED BY <1>2, <2>2, <2>3 DEF Events, Flow!Closed
<1>7. ASSUME NEW a \in Agents, Flow!AgentEnd(a)
      PROVE  FlowInv'
  <2>. DEFINE r == [run EXCEPT !.ended = @ \cup {a}, !.parked = @ \ {a}]
  <2>2. r \in RunType /\ r.id = run.id /\ r.plan = run.plan /\ r.events = run.events
        /\ r.sent = run.sent /\ r.state = run.state
    BY <1>1 DEF RunType
  <2>3. UNCHANGED <<Flow!model, ui, Flow!feed, paused, eventMu, waiting, Flow!bounds>> /\ run' = r
    BY <1>7 DEF Flow!AgentEnd
  <2>. QED BY <1>3, <2>2, <2>3 DEF Flow!Closed
<1>8. CASE Flow!RunFinished
  <2>. DEFINE r == [run EXCEPT !.state = "ending"]
  <2>2. r \in RunType /\ r.id = run.id /\ r.plan = run.plan /\ r.events = run.events
        /\ r.sent = run.sent
    BY <1>1 DEF RunType, States
  <2>3. Flow!Want("main", "finished") /\ run' = r /\ ~Flow!Closed
    BY <1>8 DEF Flow!RunFinished, Flow!Closed
  <2>. QED BY <1>2, <2>2, <2>3 DEF Events
<1>9. CASE Flow!ExecuteReturns
  <2>. DEFINE r == [run EXCEPT !.state = "returned", !.parked = {}, !.ended = {},
                               !.steps = Flow!Idle.steps]
  <2>1. Flow!Idle.steps \in [Agents -> Nat]
    BY DEF Flow!Idle
  <2>2. r \in RunType /\ r.id = run.id /\ r.plan = run.plan /\ r.events = run.events
        /\ r.sent = run.sent
    BY <1>1, <2>1 DEF RunType, States
  <2>3. UNCHANGED <<Flow!model, ui, Flow!feed, paused, eventMu, waiting, Flow!bounds>> /\ run' = r /\ ~Flow!Closed
    BY <1>9 DEF Flow!ExecuteReturns, Flow!Closed
  <2>. QED BY <1>3, <2>2, <2>3
<1>10. CASE Flow!Publish
  <2>. DEFINE r == [run EXCEPT !.state = "done"]
  <2>2. r \in RunType /\ r.id = run.id /\ r.plan = run.plan /\ r.events = run.events
        /\ r.sent = run.sent /\ r.state = "done"
    BY <1>1 DEF RunType, States
  <2>3. UNCHANGED <<Flow!model, ui, Flow!feed, paused, eventMu, waiting, Flow!bounds>> /\ run' = r
    BY <1>10 DEF Flow!Publish
  <2>. QED BY <1>3, <2>2, <2>3
<1>. QED BY <1>4, <1>5, <1>6, <1>7, <1>8, <1>9, <1>10 DEF Flow!Running

LEMMA EmittersKeep ==
  FlowInv /\ (Flow!Lock \/ Flow!DeliveryFails \/ Flow!SendOnClosed \/ Flow!Keys \/ Flow!Exit \/ Flow!Return) => FlowInv'
<1> SUFFICES ASSUME FlowInv, Flow!Lock \/ Flow!DeliveryFails \/ Flow!SendOnClosed \/ Flow!Keys \/ Flow!Exit \/ Flow!Return
             PROVE  FlowInv'
  OBVIOUS
<1>1. run \in RunType /\ waiting \subseteq Emissions /\ eventMu \in Emissions \cup {Flow!None}
  BY DEF FlowInv, FlowTyped
<1>. DEFINE r == [run EXCEPT !.stopped = TRUE]
<1>2. r \in RunType /\ r.id = run.id /\ r.plan = run.plan /\ r.events = run.events
      /\ r.sent = run.sent /\ r.state = run.state
  BY <1>1 DEF RunType
<1>3. CASE Flow!Lock
  <2>1. waiting' \subseteq Emissions /\ eventMu' \in Emissions /\ run' = run
    BY <1>1, <1>3 DEF Flow!Lock
  <2>. QED BY <1>1, <1>3, <2>1, QuietKeeps DEF Flow!Lock, Flow!model, Flow!feed, Flow!bounds,
          Flow!Closed
<1>4. CASE Flow!DeliveryFails
  <2>1. run' = r /\ eventMu' = Flow!None /\ waiting' = waiting
    BY <1>4 DEF Flow!DeliveryFails, Flow!Unlock
  <2>. QED BY <1>1, <1>2, <1>4, <2>1, QuietKeeps DEF Flow!DeliveryFails, Flow!Unlock, Flow!model,
          Flow!feed, Flow!bounds, Flow!Closed
<1>5. CASE Flow!SendOnClosed
  BY <1>1, <1>5, QuietKeeps DEF Flow!SendOnClosed, Flow!model, Flow!feed, Flow!bounds, Flow!Closed
<1>6. ASSUME NEW event \in {"pause", "resume", "skip"}, NEW scope \in {"run"} \cup Agents,
             Flow!Control(event, scope)
      PROVE  FlowInv'
  <2>1. Flow!Emission("ui", IF scope = "run" THEN event ELSE "scoped") \in Emissions
    BY DEF Flow!Emission, Emissions, Events
  <2>2. waiting' \subseteq Emissions
    BY <1>1, <1>6, <2>1 DEF Flow!Control
  <2>. QED BY <1>1, <1>6, <2>2, QuietKeeps DEF Flow!Control, Flow!model, Flow!feed, Flow!bounds,
          Flow!Closed
<1>7. CASE Flow!StopKey
  <2>1. run' = r /\ active # 0 /\ phase' = "stopping"
    BY <1>7 DEF Flow!StopKey
  <2>. QED BY <1>1, <1>2, <1>7, <2>1, QuietKeeps DEF Flow!StopKey, Flow!feed, Flow!bounds,
          Flow!Closed
<1>8. CASE Flow!Exit
  <2>1. run' = r
    BY <1>8 DEF Flow!Exit
  <2>. QED BY <1>1, <1>2, <1>8, <2>1, QuietKeeps DEF Flow!Exit, Flow!model, Flow!feed,
          Flow!bounds, Flow!Closed
<1>9. CASE Flow!Return
  BY <1>1, <1>9, QuietKeeps DEF Flow!Return, Flow!model, Flow!feed, Flow!work, Flow!bounds,
     Flow!Closed
<1>. QED BY <1>3, <1>4, <1>5, <1>6, <1>7, <1>8, <1>9 DEF Flow!Keys

(* An event into the channel; its reader or its message is the same.       *)
LEMMA DeliverKeeps == FlowInv /\ Flow!Deliver => FlowInv'
<1> SUFFICES ASSUME FlowInv, Flow!Deliver PROVE FlowInv'
  OBVIOUS
<1>1. run \in RunType /\ eventMu \in Emissions
  BY DEF FlowInv, FlowTyped, Flow!Deliver
<1>2. /\ run' \in RunType /\ run'.events = Append(run.events, eventMu) /\ run'.sent = run.sent + 1
      /\ run'.id = run.id /\ run'.plan = run.plan /\ run'.state = run.state /\ ~Flow!Closed
  <2>1. run.events \in Seq(Emissions) /\ run.sent \in Nat
    BY <1>1 DEF RunType
  <2>2. Append(run.events, eventMu) \in Seq(Emissions) /\ run.sent + 1 \in Nat
    BY <1>1, <2>1
  <2>3. run' = [run EXCEPT !.events = Append(run.events, eventMu), !.sent = run.sent + 1] /\ ~Flow!Closed
    BY DEF Flow!Deliver
  <2>. QED BY <1>1, <2>2, <2>3 DEF RunType
<1>3. Len(run'.events) = Len(run.events) + 1 /\ Len(run.events) \in Nat /\ run.sent \in Nat
  <2>1. run.events \in Seq(Emissions) /\ run.sent \in Nat
    BY <1>1 DEF RunType
  <2>. QED BY <1>1, <1>2, <2>1
<1>4. FlowTyped'
  BY <1>2 DEF FlowInv, FlowTyped, Flow!Deliver, Flow!Unlock, Flow!model, Flow!feed, Flow!bounds
<1>5. OwnScreens'
  BY <1>2 DEF FlowInv, OwnScreens, Flow!Deliver, Flow!Unlock, Flow!model
<1>6. OneToken'
  <2>1. UNCHANGED <<active, reader, message, shown>> /\ shown \in Nat
    BY DEF Flow!Deliver, Flow!Unlock, Flow!model, Flow!feed, FlowInv, FlowTyped
  <2>2. OneToken /\ run'.sent = run.sent + 1 /\ ~Flow!Closed
    BY <1>2 DEF FlowInv
  <2>3. CASE active = 0
    BY <2>1, <2>2, <2>3 DEF OneToken
  <2>4. CASE active # 0 /\ reader = active
    <3>1. message = <<>> /\ shown + Len(run.events) = run.sent
      BY <2>2, <2>4 DEF OneToken
    <3>2. PICK s \in Nat : s = shown
      BY <2>1
    <3>3. PICK l \in Nat : l = Len(run.events)
      BY <1>3
    <3>4. shown' = s /\ s + l = run.sent /\ run'.sent = run.sent + 1 /\ Len(run'.events) = l + 1
      BY <1>2, <1>3, <2>1, <3>1, <3>2, <3>3
    <3>5. shown' + Len(run'.events) = run'.sent
      BY <3>4
    <3>6. reader' = active' /\ active' # 0 /\ message' = <<>>
      BY <2>1, <2>4, <3>1
    <3>. QED BY <3>5, <3>6 DEF OneToken
  <2>5. CASE active # 0 /\ reader # active
    <3>1. reader = 0 /\ Len(message) = 1 /\ message[1].run = active
      BY <2>2, <2>5 DEF OneToken
    <3>2. message[1].event # Flow!None /\ shown + 1 + Len(run.events) = run.sent
      BY <2>2, <2>5 DEF OneToken
    <3>3. shown' + 1 + Len(run'.events) = run'.sent
      <4>1. PICK s \in Nat : s = shown
        BY <2>1
      <4>2. PICK l \in Nat : l = Len(run.events)
        BY <1>3
      <4>3. shown' = s /\ s + 1 + l = run.sent /\ run'.sent = run.sent + 1 /\ Len(run'.events) = l + 1
        BY <1>2, <1>3, <2>1, <3>2, <4>1, <4>2
      <4>. QED BY <4>3
    <3>4. reader' = 0 /\ Len(message') = 1 /\ message'[1].run = active' /\ message'[1].event # Flow!None /\ active' # 0
      BY <2>1, <2>5, <3>1, <3>2
    <3>. QED BY <3>3, <3>4 DEF OneToken
  <2>. QED BY <2>3, <2>4, <2>5
<1>7. Flow!RetainedComplete'
  BY DEF FlowInv, Flow!RetainedComplete, Flow!Deliver, Flow!Unlock, Flow!model
<1>. QED BY <1>4, <1>5, <1>6, <1>7 DEF FlowInv

(* The reader becomes its message.                                         *)
LEMMA ReadKeeps == FlowInv /\ Flow!Read => FlowInv'
<1> SUFFICES ASSUME FlowInv, Flow!Read PROVE FlowInv'
  OBVIOUS
<1>1. /\ run \in RunType /\ run.events \in Seq(Emissions) /\ run.sent \in Nat /\ shown \in Nat
      /\ active \in Nat
      /\ active # 0 /\ reader = active /\ message = <<>> /\ shown + Len(run.events) = run.sent
  BY DEF FlowInv, FlowTyped, RunType, OneToken, Flow!Read
<1>2. UNCHANGED <<Flow!model, ui, paused, eventMu, waiting, Flow!bounds>> /\ reader' = 0
  BY DEF Flow!Read
<1>3. CASE /\ run.events # <<>>
           /\ message' = Append(message, [run |-> reader, event |-> Head(run.events)])
           /\ run' = [run EXCEPT !.events = Tail(@)]
  <2>1. /\ Head(run.events) \in Emissions /\ Tail(run.events) \in Seq(Emissions)
        /\ Len(Tail(run.events)) = Len(run.events) - 1 /\ Len(run.events) \in Nat
    BY <1>1, <1>3
  <2>2. /\ run' \in RunType /\ run'.events = Tail(run.events) /\ run'.sent = run.sent
        /\ run'.id = run.id /\ run'.plan = run.plan
    BY <1>1, <1>3, <2>1 DEF RunType
  <2>3. /\ message' \in Seq(Messages) /\ Len(message') = 1 /\ message'[1].run = active
        /\ message'[1].event = Head(run.events) /\ message'[1].event # Flow!None
    <3>1. [run |-> reader, event |-> Head(run.events)] \in Messages /\ Head(run.events) # Flow!None
      BY <1>1, <2>1 DEF Messages, Emissions, Flow!None, Events
    <3>. QED BY <1>1, <1>3, <3>1
  <2>4. OneToken'
    <3>1. PICK s \in Nat : s = shown
      BY <1>1
    <3>2. PICK l \in Nat : l = Len(run.events)
      BY <2>1
    <3>3. s + l = run.sent /\ shown' = s /\ Len(run'.events) = l - 1 /\ run'.sent = run.sent
      BY <1>1, <1>2, <2>1, <2>2, <3>1, <3>2 DEF Flow!model
    <3>4. shown' + 1 + Len(run'.events) = run'.sent
      BY <3>3
    <3>5. active' = active /\ active # 0 /\ reader' = 0
      BY <1>1, <1>2 DEF Flow!model
    <3>. QED BY <2>3, <3>4, <3>5 DEF OneToken
  <2>5. FlowTyped' /\ OwnScreens' /\ Flow!RetainedComplete'
    BY <1>2, <2>2, <2>3 DEF FlowInv, FlowTyped, OwnScreens, Flow!RetainedComplete, Flow!model,
       Flow!bounds
  <2>. QED BY <2>4, <2>5 DEF FlowInv
<1>4. CASE /\ Flow!Closed /\ run.events = <<>>
           /\ message' = Append(message, [run |-> reader, event |-> Flow!None])
           /\ UNCHANGED run
  <2>1. /\ message' \in Seq(Messages) /\ Len(message') = 1 /\ message'[1].run = active
        /\ message'[1].event = Flow!None /\ Len(run.events) = 0
    <3>1. [run |-> reader, event |-> Flow!None] \in Messages
      BY <1>1 DEF Messages
    <3>. QED BY <1>1, <1>4, <3>1
  <2>2. OneToken'
    BY <1>1, <1>2, <1>4, <2>1 DEF OneToken, Flow!model, Flow!Closed
  <2>3. FlowTyped' /\ OwnScreens' /\ Flow!RetainedComplete'
    BY <1>2, <1>4, <2>1 DEF FlowInv, FlowTyped, OwnScreens, Flow!RetainedComplete, Flow!model,
       Flow!bounds
  <2>. QED BY <2>2, <2>3 DEF FlowInv
<1>. QED BY <1>3, <1>4 DEF Flow!Read

(* An event is shown and the reader sent out again.                        *)
LEMMA ApplyKeeps == FlowInv /\ Flow!ApplyEvent => FlowInv'
<1> SUFFICES ASSUME FlowInv, Flow!ApplyEvent PROVE FlowInv'
  OBVIOUS
<1>1. message # <<>> /\ Head(message).event # Flow!None /\ message \in Seq(Messages)
      /\ Head(message) = message[1] /\ Len(message) # 0
  BY DEF Flow!ApplyEvent, FlowInv, FlowTyped
<1>2. /\ active # 0 /\ Head(message).run = active /\ Len(message) = 1
      /\ shown + 1 + Len(run.events) = run.sent /\ run \in RunType /\ shown \in Nat
  <2>1. active # 0 /\ reader # active
    BY <1>1 DEF FlowInv, OneToken
  <2>2. Len(message) = 1 /\ message[1].run = active /\ shown + 1 + Len(run.events) = run.sent
    BY <1>1, <2>1 DEF FlowInv, OneToken
  <2>. QED BY <1>1, <2>1, <2>2 DEF FlowInv, FlowTyped
<1>3. shown' = shown + 1 /\ reader' = active /\ message' = <<>> /\ UNCHANGED run /\ active' = active
  BY <1>1, <1>2 DEF Flow!ApplyEvent, Flow!work
<1>4. OneToken'
  BY <1>2, <1>3 DEF OneToken
<1>5. FlowTyped' /\ OwnScreens' /\ Flow!RetainedComplete'
  BY <1>2, <1>3 DEF Flow!ApplyEvent, FlowInv, FlowTyped, OwnScreens, Flow!RetainedComplete,
     Flow!work, Flow!bounds
<1>. QED BY <1>4, <1>5 DEF FlowInv

(* The result is retained with the dashboard that showed everything.       *)
LEMMA FinishKeeps == FlowAssumption /\ FlowInv /\ Flow!ApplyFinished => FlowInv'
<1> SUFFICES ASSUME FlowAssumption, FlowInv, Flow!ApplyFinished PROVE FlowInv'
  OBVIOUS
<1>1. message # <<>> /\ Head(message).event = Flow!None /\ message \in Seq(Messages)
      /\ Head(message) = message[1] /\ Len(message) # 0
  BY DEF Flow!ApplyFinished, FlowInv, FlowTyped
<1>2. /\ active # 0 /\ reader = 0 /\ Len(message) = 1 /\ Head(message).run = active
      /\ Tail(message) = <<>> /\ shown = run.sent
  <2>1. active # 0 /\ reader # active
    BY <1>1 DEF FlowInv, OneToken
  <2>2. reader = 0 /\ Len(message) = 1 /\ message[1].run = active /\ shown = run.sent
    BY <1>1, <2>1 DEF FlowInv, OneToken
  <2>3. Tail(message) = <<>>
    <3>1. Tail(message) \in Seq(Messages) /\ Len(Tail(message)) = 0
      BY <1>1, <2>2, HeadTailProperties
    <3>. QED BY <3>1, EmptySeq
  <2>. QED BY <1>1, <2>1, <2>2, <2>3
<1>9. selected = run.plan /\ ~loading
  BY <1>2 DEF FlowInv, FlowTyped, OwnScreens
<1>. DEFINE entry == [plan |-> selected, shown |-> shown, planned |-> run.plan, sent |-> run.sent]
            all == Append(runs, entry)
<1>3. /\ runs' = Flow!Retained(entry) /\ review' = Len(runs') /\ phase' = "review" /\ active' = 0
      /\ run' = Flow!Idle /\ message' = <<>> /\ reader' = 0
      /\ UNCHANGED <<loading, compiled, source, selected, rerunReview, shown, eventMu, waiting, loads,
                     begun>>
  BY <1>1, <1>2 DEF Flow!ApplyFinished, Flow!bounds
<1>4. entry \in Entries /\ runs \in Seq(Entries)
  BY <1>2, <1>9 DEF FlowInv, FlowTyped, Entries
<1>5. /\ all \in Seq(Entries) /\ Len(all) = Len(runs) + 1 /\ Len(runs) \in Nat
      /\ \A i \in 1 .. Len(all) : all[i].shown = all[i].sent /\ all[i].plan = all[i].planned
  BY <1>2, <1>4, <1>9 DEF FlowInv, Flow!RetainedComplete
<1>6. runs' \in Seq(Entries) /\ Len(runs') \in Nat /\ Flow!RetainedComplete'
  <2>1. CASE runs' = all
    BY <1>5, <2>1 DEF Flow!RetainedComplete
  <2>2. CASE runs' = Tail(all)
    BY <1>5, <2>2 DEF Flow!RetainedComplete
  <2>. QED BY <1>3, <2>1, <2>2 DEF Flow!Retained
<1>7. run' \in RunType
  BY <1>3 DEF Flow!Idle, RunType, States
<1>8. review' \in 1 .. Len(runs') \/ runs' = <<>>
  BY <1>3, <1>6
<1>10. FlowTyped'
  <2>1. message' \in Seq(Messages) /\ reader' \in Nat
    BY <1>3
  <2>2. /\ waiting \subseteq Emissions /\ eventMu \in Emissions \cup {Flow!None} /\ shown \in Nat
        /\ begun \in Nat /\ loads \in Nat /\ {compiled, source, selected} \subseteq Nat
        /\ loading \in BOOLEAN /\ rerunReview \in BOOLEAN
    BY DEF FlowInv, FlowTyped
  <2>3. runs' # <<>>
    <3>1. CASE runs' = all
      BY <1>5, <3>1
    <3>2. CASE runs' = Tail(all) /\ Len(all) > MaxReports
      <4>1. Len(Tail(all)) = Len(all) - 1 /\ Len(all) > 1
        BY <1>5, <3>2, HeadTailProperties DEF FlowAssumption
      <4>. QED BY <3>2, <4>1, <1>5
    <3>. QED BY <1>3, <3>1, <3>2 DEF Flow!Retained
  <2>. QED BY <1>3, <1>6, <1>7, <1>8, <2>1, <2>2, <2>3 DEF FlowTyped, Entries
<1>11. OwnScreens' /\ OneToken'
  BY <1>3, <1>9 DEF OwnScreens, OneToken
<1>. QED BY <1>6, <1>10, <1>11 DEF FlowInv

(* Every run kept for review shows its own plan and every event that it    *)
(* delivered, whatever keys, loads, controls and lost deliveries come in   *)
(* between.                                                                *)
THEOREM RetainsAll == FlowAssumption /\ Flowing => []Flow!RetainedComplete
<1>. SUFFICES ASSUME FlowAssumption PROVE Flowing => []Flow!RetainedComplete
  OBVIOUS
<1>1. FlowInv /\ [Flow!Next]_(Flow!vars) => FlowInv'
  <2>1. FlowInv /\ UNCHANGED Flow!vars => FlowInv'
    <3>1. SUFFICES ASSUME FlowInv, UNCHANGED Flow!vars PROVE FlowInv'
      OBVIOUS
    <3>2. FlowTyped'
      BY <3>1 DEF Flow!vars, Flow!model, Flow!feed, Flow!work, Flow!bounds, FlowInv, FlowTyped
    <3>3. OwnScreens'
      BY <3>1 DEF Flow!vars, Flow!model, Flow!feed, Flow!work, Flow!bounds, FlowInv, OwnScreens
    <3>4. OneToken'
      BY <3>1 DEF Flow!vars, Flow!model, Flow!feed, Flow!work, Flow!bounds, FlowInv, OneToken,
         Flow!Closed
    <3>5. Flow!RetainedComplete'
      BY <3>1 DEF Flow!vars, Flow!model, FlowInv, Flow!RetainedComplete
    <3>. QED BY <3>2, <3>3, <3>4, <3>5 DEF FlowInv
  <2>. QED BY <2>1, ScreensKeep, StartKeeps, RunningKeeps, EmittersKeep, DeliverKeeps, ReadKeeps,
              ApplyKeeps, FinishKeeps DEF Flow!Next, Flow!Screens, Flow!Feeding
<1>2. FlowInv => Flow!RetainedComplete
  BY DEF FlowInv
<1>. QED BY <1>1, <1>2, FlowInit, PTL DEF Flowing

-----------------------------------------------------------------------------
(* WatchState *)

Watching == Board!Init /\ [][Board!Next]_(Board!vars)

(* A plan names its targets and checks apart and runs on some agents.      *)
BoardAssumption ==
  /\ Networks \in Seq(Board!Range(Networks)) /\ Checks \in Seq(Board!Range(Checks))
  /\ \A i, j \in 1 .. Len(Networks) : Networks[i] = Networks[j] => i = j
  /\ \A i, j \in 1 .. Len(Checks) : Checks[i] = Checks[j] => i = j
  /\ \A j \in 1 .. Len(Checks) : Checks[j] # Board!NoFinding
  /\ Agents # {} /\ IsFiniteSet(Agents)

TargetPlaces == 1 .. Len(Networks)
CheckPlaces  == 1 .. Len(Checks)

Statuses  == {"pending", "running", "ok", "failed", "missing", "skipped", "canceled"}
AgentPlace == [target : Nat, step : Nat, open : BOOLEAN]
StepState == [check : Board!Range(Checks), status : Statuses]
TargetState == [status : Statuses, current : Board!Range(Checks) \cup {""}, steps : Seq(StepState)]

(* What a list of step states says of a check, and that it says it once.   *)
Has(steps, c, s) == \E n \in DOMAIN steps : steps[n].check = c /\ steps[n].status = s
Apart(steps) == \A m, n \in DOMAIN steps : steps[m].check = steps[n].check => m = n

StepsAt(a, i) == targets[<<a, Networks[i]>>].steps

(* The checks whose result is reported, and those whose finding is too.    *)
Settled(a, i, j) ==
  i < cursor[a].target \/ (i = cursor[a].target /\ j < cursor[a].step)
Done(a, i, j) ==
  Settled(a, i, j) \/ (i = cursor[a].target /\ j = cursor[a].step /\ owed[a] # Board!NoFinding)

Places ==
  /\ cursor \in [Agents -> AgentPlace]
  /\ owed \in [Agents -> Board!Range(Checks) \cup {Board!NoFinding}]
  /\ round \in Nat
  /\ \A a \in Agents :
       /\ cursor[a].target \in 1 .. Len(Networks) + 1
       /\ cursor[a].step \in 0 .. Len(Checks) + 1
       /\ cursor[a].target = Len(Networks) + 1 => cursor[a].step = 0 /\ cursor[a].open = FALSE
       /\ owed[a] # Board!NoFinding => cursor[a].step \in CheckPlaces
  /\ display = "idle" => \A a \in Agents : cursor[a] = Board!Ended

BoardTyped ==
  /\ targets \in [Agents \X Board!Range(Networks) -> TargetState]
  /\ \A a \in Agents, i \in TargetPlaces : Apart(StepsAt(a, i))

Tells(x, a, i, j) ==
  x.round = round /\ x.agent = a /\ x.target = Networks[i] /\ x.check = Checks[j]

(* The report of the round speaks of the checks that are done, once each.  *)
ReportedOnce ==
  /\ \A x \in reported : x.round \in 0 .. round /\ x.outcome \in Board!Outcomes
  /\ \A x \in reported : x.round = round =>
       \E a \in Agents, i \in TargetPlaces, j \in CheckPlaces : Tells(x, a, i, j) /\ Done(a, i, j)
  /\ \A a \in Agents, i \in TargetPlaces, j \in CheckPlaces, x, y \in reported :
       Tells(x, a, i, j) /\ Tells(y, a, i, j) => x = y

(* The dashboard shows a settled check as it was reported; one that is     *)
(* done and not settled failed or is missing.                              *)
Shows(x, a, i, j) ==
  IF Settled(a, i, j) THEN Has(StepsAt(a, i), Checks[j], Board!Shown(x.outcome))
                      ELSE x.outcome \in {"fail", "missing"}
ShowsReport ==
  round > 0 =>
    \A a \in Agents, i \in TargetPlaces, j \in CheckPlaces :
      Done(a, i, j) =>
        \E x \in reported : Tells(x, a, i, j) /\ Shows(x, a, i, j)

BoardInv == Places /\ BoardTyped /\ ReportedOnce /\ ShowsReport

(* upsertStep says the new status of its check, and of the others what the *)
(* list said before.                                                       *)
LEMMA Upserts ==
  ASSUME NEW steps \in Seq(StepState), Apart(steps), NEW c \in Board!Range(Checks), NEW s \in Statuses
  PROVE  /\ Board!upsertStep(steps, c, s) \in Seq(StepState) /\ Apart(Board!upsertStep(steps, c, s))
         /\ Has(Board!upsertStep(steps, c, s), c, s)
         /\ \A d, q : d # c /\ Has(steps, d, q) => Has(Board!upsertStep(steps, c, s), d, q)
<1> DEFINE same == {i \in DOMAIN steps : steps[i].check = c}
           new == [check |-> c, status |-> s]
<1>1. new \in StepState
  BY DEF StepState
<1>2. CASE same = {}
  <2>. DEFINE r == Append(steps, new)
  <2>1. Board!upsertStep(steps, c, s) = r
    BY <1>2 DEF Board!upsertStep
  <2>2. /\ r \in Seq(StepState) /\ Len(r) = Len(steps) + 1 /\ Len(steps) \in Nat
        /\ \A i \in 1 .. Len(steps) : r[i] = steps[i]
        /\ r[Len(r)] = new /\ DOMAIN r = 1 .. Len(r) /\ DOMAIN steps = 1 .. Len(steps)
    BY <1>1
  <2>3. Apart(r)
    <3>. SUFFICES ASSUME NEW m \in DOMAIN r, NEW n \in DOMAIN r, r[m].check = r[n].check PROVE m = n
      BY DEF Apart
    <3>1. \A k \in 1 .. Len(steps) : steps[k].check # c
      BY <1>2, <2>2
    <3>2. new.check = c
      OBVIOUS
    <3>3. (m \in 1 .. Len(steps) \/ m = Len(r)) /\ (n \in 1 .. Len(steps) \/ n = Len(r))
      BY <2>2
    <3>. QED BY <2>2, <3>1, <3>2, <3>3 DEF Apart
  <2>4. Has(r, c, s)
    <3>1. Len(r) \in DOMAIN r /\ r[Len(r)].check = c /\ r[Len(r)].status = s
      BY <2>2
    <3>. QED BY <3>1 DEF Has
  <2>5. ASSUME NEW d, NEW q, Has(steps, d, q) PROVE Has(r, d, q)
    <3>1. PICK n \in DOMAIN steps : steps[n].check = d /\ steps[n].status = q
      BY <2>5 DEF Has
    <3>2. n \in DOMAIN r /\ r[n] = steps[n]
      BY <2>2
    <3>. QED BY <3>1, <3>2 DEF Has
  <2>. QED BY <2>1, <2>2, <2>3, <2>4, <2>5
<1>3. CASE same # {}
  <2>1. PICK k \in DOMAIN steps : steps[k].check = c
    BY <1>3
  <2>2. same = {k}
    BY <2>1 DEF Apart
  <2>3. Board!Min(same) = k
    <3>1. DOMAIN steps = 1 .. Len(steps) /\ Len(steps) \in Nat
      OBVIOUS
    <3>. QED BY <2>2, <3>1 DEF Board!Min
  <2>. DEFINE r == [steps EXCEPT ![k] = new]
  <2>4. Board!upsertStep(steps, c, s) = r
    BY <1>3, <2>3 DEF Board!upsertStep
  <2>5. /\ r \in Seq(StepState) /\ DOMAIN r = DOMAIN steps /\ r[k] = new
        /\ \A n \in DOMAIN steps : n # k => r[n] = steps[n]
    BY <1>1
  <2>6. \A n \in DOMAIN steps : r[n].check = steps[n].check
    BY <2>1, <2>5
  <2>7. Apart(r)
    BY <2>5, <2>6 DEF Apart
  <2>8. Has(r, c, s)
    <3>1. r[k].check = c /\ r[k].status = s
      BY <2>5
    <3>. QED BY <2>5, <3>1 DEF Has
  <2>9. ASSUME NEW d, NEW q, d # c, Has(steps, d, q) PROVE Has(r, d, q)
    <3>1. PICK n \in DOMAIN steps : steps[n].check = d /\ steps[n].status = q
      BY <2>9 DEF Has
    <3>2. n # k
      BY <2>1, <2>9, <3>1
    <3>. QED BY <2>5, <3>1, <3>2 DEF Has
  <2>. QED BY <2>4, <2>5, <2>7, <2>8, <2>9
<1>. QED BY <1>2, <1>3

(* The dashboard reads what a list says of a check.                        *)
LEMMA Reads ==
  ASSUME NEW a \in Agents, NEW i \in TargetPlaces, NEW c, NEW s, Apart(StepsAt(a, i)),
         StepsAt(a, i) \in Seq(StepState), Has(StepsAt(a, i), c, s)
  PROVE  Board!CurrentCheckStatus(a, Networks[i], c) = s
<1> DEFINE steps == StepsAt(a, i)
           mine == {n \in DOMAIN steps : steps[n].check = c}
<1>1. PICK k \in DOMAIN steps : steps[k].check = c /\ steps[k].status = s
  BY DEF Has
<1>2. mine = {k}
  BY <1>1 DEF Apart
<1>3. Board!Min(mine) = k
  <2>1. DOMAIN steps = 1 .. Len(steps) /\ Len(steps) \in Nat
    OBVIOUS
  <2>. QED BY <1>2, <2>1 DEF Board!Min
<1>4. Board!CurrentCheckStatus(a, Networks[i], c)
        = IF mine = {} THEN "pending" ELSE steps[Board!Min(mine)].status
  BY DEF Board!CurrentCheckStatus, StepsAt
<1>. QED BY <1>1, <1>2, <1>3, <1>4

(* The same of the state after a step.                                     *)
LEMMA ShowsNext ==
  ASSUME NEW x, NEW a, NEW i, NEW j
  PROVE  Shows(x, a, i, j)' <=> IF Settled(a, i, j)' THEN Has(StepsAt(a, i)', Checks[j], Board!Shown(x.outcome))
                                                     ELSE x.outcome \in {"fail", "missing"}
BY DEF Shows, Has

(* The places of a plan and what is found there.                           *)
LEMMA Indexed ==
  ASSUME BoardAssumption
  PROVE  /\ Len(Networks) \in Nat /\ Len(Checks) \in Nat
         /\ DOMAIN Networks = TargetPlaces /\ DOMAIN Checks = CheckPlaces
         /\ \A i \in TargetPlaces : Networks[i] \in Board!Range(Networks)
         /\ \A j \in CheckPlaces : Checks[j] \in Board!Range(Checks)
         /\ \A t \in Board!Range(Networks) : \E i \in TargetPlaces : Networks[i] = t
         /\ \A c \in Board!Range(Checks) : \E j \in CheckPlaces : Checks[j] = c
BY DEF BoardAssumption, Board!Range, TargetPlaces, CheckPlaces

(* An agent that is not at its end is at a target.                         *)
LEMMA AtTarget ==
  ASSUME BoardAssumption, Places, NEW a \in Agents, cursor[a] # Board!Ended
  PROVE  cursor[a].target \in TargetPlaces /\ Board!TargetAt(a) = Networks[cursor[a].target]
<1>1. cursor[a] \in AgentPlace /\ cursor[a].target \in 1 .. Len(Networks) + 1
  BY DEF Places
<1>2. cursor[a].target # Len(Networks) + 1
  <2>1. SUFFICES ASSUME cursor[a].target = Len(Networks) + 1 PROVE FALSE
    OBVIOUS
  <2>2. cursor[a].step = 0 /\ cursor[a].open = FALSE
    BY <2>1 DEF Places
  <2>3. cursor[a] = [target |-> Len(Networks) + 1, step |-> 0, open |-> FALSE]
    BY <1>1, <2>1, <2>2 DEF AgentPlace
  <2>. QED BY <2>3 DEF Board!Ended
<1>. QED BY <1>1, <1>2, Indexed DEF TargetPlaces, Board!TargetAt

(* A step at one target changes nothing of what is shown elsewhere.         *)
LEMMA OneTarget ==
  ASSUME BoardAssumption, BoardTyped, NEW a \in Agents, NEW p \in TargetPlaces, NEW t2 \in TargetState,
         targets' = [targets EXCEPT ![<<a, Networks[p]>>] = t2], Apart(t2.steps)
  PROVE  /\ BoardTyped' /\ StepsAt(a, p)' = t2.steps
         /\ \A b \in Agents, i \in TargetPlaces : ~(b = a /\ i = p) => StepsAt(b, i)' = StepsAt(b, i)
<1>1. \A b \in Agents, i \in TargetPlaces : <<b, Networks[i]>> \in Agents \X Board!Range(Networks)
  BY Indexed
<1>2. targets' \in [Agents \X Board!Range(Networks) -> TargetState]
  BY <1>1 DEF BoardTyped
<1>3. targets'[<<a, Networks[p]>>] = t2
  BY <1>1 DEF BoardTyped
<1>4. ASSUME NEW b \in Agents, NEW i \in TargetPlaces, ~(b = a /\ i = p)
      PROVE  targets'[<<b, Networks[i]>>] = targets[<<b, Networks[i]>>]
  <2>1. <<b, Networks[i]>> # <<a, Networks[p]>>
    BY <1>4 DEF BoardAssumption, TargetPlaces
  <2>. QED BY <1>1, <2>1 DEF BoardTyped
<1>5. StepsAt(a, p)' = t2.steps
  BY <1>3 DEF StepsAt
<1>6. \A b \in Agents, i \in TargetPlaces : ~(b = a /\ i = p) => StepsAt(b, i)' = StepsAt(b, i)
  BY <1>4 DEF StepsAt
<1>7. \A b \in Agents, i \in TargetPlaces : Apart(StepsAt(b, i)')
  BY <1>5, <1>6 DEF BoardTyped
<1>8. \A b \in Agents, i \in TargetPlaces : Apart(StepsAt(b, i))'
  BY <1>7 DEF Apart
<1>. QED BY <1>2, <1>5, <1>6, <1>8 DEF BoardTyped

(* A result at an agent's place changes the cell of that check only.       *)
LEMMA OneCheck ==
  ASSUME BoardAssumption, BoardTyped, NEW a \in Agents, NEW p \in TargetPlaces, NEW k \in CheckPlaces,
         NEW s \in Statuses, NEW t2 \in TargetState,
         targets' = [targets EXCEPT ![<<a, Networks[p]>>] = t2],
         t2.steps = Board!upsertStep(StepsAt(a, p), Checks[k], s)
  PROVE  /\ BoardTyped' /\ Has(StepsAt(a, p)', Checks[k], s)
         /\ \A b \in Agents, i \in TargetPlaces, j \in CheckPlaces : \A q :
              ~(b = a /\ i = p /\ j = k) /\ Has(StepsAt(b, i), Checks[j], q)
             => Has(StepsAt(b, i)', Checks[j], q)
<1>1. StepsAt(a, p) \in Seq(StepState) /\ Apart(StepsAt(a, p)) /\ Checks[k] \in Board!Range(Checks)
  <2>1. <<a, Networks[p]>> \in Agents \X Board!Range(Networks)
    BY Indexed
  <2>. QED BY <2>1, Indexed DEF BoardTyped, StepsAt, TargetState
<1>2. /\ Apart(t2.steps) /\ Has(t2.steps, Checks[k], s)
      /\ \A d, q : d # Checks[k] /\ Has(StepsAt(a, p), d, q) => Has(t2.steps, d, q)
  BY <1>1, Upserts
<1>3. /\ BoardTyped' /\ StepsAt(a, p)' = t2.steps
      /\ \A b \in Agents, i \in TargetPlaces : ~(b = a /\ i = p) => StepsAt(b, i)' = StepsAt(b, i)
  BY <1>2, OneTarget
<1>4. \A j \in CheckPlaces : j # k => Checks[j] # Checks[k]
  BY DEF BoardAssumption, CheckPlaces
<1>. QED BY <1>2, <1>3, <1>4

LEMMA BoardInit ==
  ASSUME BoardAssumption, Board!Init
  PROVE  BoardInv
<1>1. \A a \in Agents : cursor[a] = Board!Ended /\ owed[a] = Board!NoFinding
  BY DEF Board!Init
<1>2. Places
  <2>1. Board!Ended \in AgentPlace /\ Board!Ended.step = 0 /\ Board!Ended.open = FALSE
        /\ Board!Ended.target = Len(Networks) + 1
    BY Indexed DEF Board!Ended, AgentPlace
  <2>2. cursor \in [Agents -> AgentPlace]
    BY <2>1 DEF Board!Init
  <2>3. owed \in [Agents -> Board!Range(Checks) \cup {Board!NoFinding}] /\ round \in Nat
    BY DEF Board!Init
  <2>. QED BY <1>1, <2>1, <2>2, <2>3, Indexed DEF Places
<1>3. BoardTyped
  <2>1. Board!Fresh \in TargetState /\ Board!Fresh.steps = <<>>
    BY DEF Board!Fresh, TargetState, Statuses
  <2>2. \A a \in Agents, i \in TargetPlaces : StepsAt(a, i) = <<>>
    BY <2>1, Indexed DEF Board!Init, StepsAt
  <2>3. \A a \in Agents, i \in TargetPlaces : Apart(StepsAt(a, i))
    BY <2>2 DEF Apart
  <2>4. targets \in [Agents \X Board!Range(Networks) -> TargetState]
    BY <2>1 DEF Board!Init
  <2>. QED BY <2>3, <2>4 DEF BoardTyped
<1>4. ReportedOnce /\ ShowsReport
  BY DEF Board!Init, ReportedOnce, ShowsReport
<1>. QED BY <1>2, <1>3, <1>4 DEF BoardInv

(* Where nothing is reported and nobody's place counts differently, what   *)
(* the report says and the dashboard shows stays.                          *)
LEMMA Carried ==
  ASSUME BoardAssumption, ReportedOnce, ShowsReport, reported' = reported, round' = round,
         \A a \in Agents, i \in TargetPlaces, j \in CheckPlaces :
           (Settled(a, i, j)' <=> Settled(a, i, j)) /\ (Done(a, i, j)' <=> Done(a, i, j)),
         \A a \in Agents, i \in TargetPlaces, j \in CheckPlaces : \A q :
           Settled(a, i, j) /\ Has(StepsAt(a, i), Checks[j], q) => Has(StepsAt(a, i)', Checks[j], q)
  PROVE  ReportedOnce' /\ ShowsReport'
<1>1. \A x, a, i, j : Tells(x, a, i, j)' <=> Tells(x, a, i, j)
  BY DEF Tells
<1>2. ReportedOnce'
  BY <1>1 DEF ReportedOnce
<1>3. ShowsReport'
  <2>. SUFFICES ASSUME round' > 0, NEW a \in Agents, NEW i \in TargetPlaces, NEW j \in CheckPlaces,
                       Done(a, i, j)'
                PROVE  \E x \in reported' : Tells(x, a, i, j)' /\ Shows(x, a, i, j)'
    BY DEF ShowsReport
  <2>1. PICK x \in reported : Tells(x, a, i, j) /\ Shows(x, a, i, j)
    BY DEF ShowsReport
  <2>. QED BY <1>1, <2>1, ShowsNext DEF Shows
<1>. QED BY <1>2, <1>3

(* An agent is where the step puts it, and the others where they were.     *)
LEMMA Moves ==
  ASSUME BoardAssumption, Places, NEW a \in Agents, NEW r \in AgentPlace,
         NEW f \in Board!Range(Checks) \cup {Board!NoFinding},
         cursor' = [cursor EXCEPT ![a] = r], owed' = [owed EXCEPT ![a] = f], round' = round, display' # "idle",
         r.target \in 1 .. Len(Networks) + 1, r.step \in 0 .. Len(Checks) + 1,
         r.target = Len(Networks) + 1 => r.step = 0 /\ r.open = FALSE,
         f # Board!NoFinding => r.step \in CheckPlaces
  PROVE  /\ Places'
         /\ cursor'[a] = r /\ owed'[a] = f
         /\ \A b \in Agents : b # a => cursor'[b] = cursor[b] /\ owed'[b] = owed[b]
<1>1. /\ cursor'[a] = r /\ owed'[a] = f
      /\ \A b \in Agents : b # a => cursor'[b] = cursor[b] /\ owed'[b] = owed[b]
  BY DEF Places
<1>2. cursor' \in [Agents -> AgentPlace]
  BY DEF Places
<1>3. owed' \in [Agents -> Board!Range(Checks) \cup {Board!NoFinding}] /\ round' \in Nat
  BY DEF Places
<1>4. ASSUME NEW b \in Agents
      PROVE  /\ cursor'[b].target \in 1 .. Len(Networks) + 1
             /\ cursor'[b].step \in 0 .. Len(Checks) + 1
             /\ cursor'[b].target = Len(Networks) + 1 => cursor'[b].step = 0 /\ cursor'[b].open = FALSE
             /\ owed'[b] # Board!NoFinding => cursor'[b].step \in CheckPlaces
  <2>1. CASE b = a
    BY <1>1, <2>1
  <2>2. CASE b # a
    BY <1>1, <2>2 DEF Places
  <2>. QED BY <2>1, <2>2
<1>5. Places'
  BY <1>2, <1>3, <1>4 DEF Places, CheckPlaces
<1>. QED BY <1>1, <1>5

(* The place behind a check.                                               *)
LEMMA NextPlace ==
  ASSUME NEW l \in AgentPlace
  PROVE  LET r == [l EXCEPT !.step = @ + 1, !.open = FALSE]
         IN r \in AgentPlace /\ r.target = l.target /\ r.step = l.step + 1
<1>1. PICK n \in Nat : l.step = n
  BY DEF AgentPlace
<1>2. n + 1 \in Nat /\ FALSE \in BOOLEAN
  OBVIOUS
<1>3. [l EXCEPT !.step = @ + 1, !.open = FALSE] = [l EXCEPT !.step = n + 1, !.open = FALSE]
  BY <1>1
<1>4. [l EXCEPT !.step = n + 1, !.open = FALSE] \in AgentPlace
  BY <1>2 DEF AgentPlace
<1>5. /\ [l EXCEPT !.step = n + 1, !.open = FALSE].target = l.target
      /\ [l EXCEPT !.step = n + 1, !.open = FALSE].step = n + 1
  BY DEF AgentPlace
<1>. QED BY <1>1, <1>3, <1>4, <1>5

LEMMA RoundStartedKeeps ==
  ASSUME BoardAssumption, BoardInv, Board!RoundStarted
  PROVE  BoardInv'
<1>. USE DEF BoardInv
<1>1. \A a \in Agents : owed[a] = Board!NoFinding
  <2>1. Board!Ended.step = 0 /\ 0 \notin CheckPlaces
    BY Indexed DEF Board!Ended, CheckPlaces
  <2>. QED BY <2>1 DEF Board!RoundStarted, Places
<1>2. /\ Board!Start \in AgentPlace
      /\ Board!Start.target = 1 /\ Board!Start.step = 0 /\ Board!Start.open = FALSE
  BY DEF Board!Start, AgentPlace
<1>3. \A a \in Agents : cursor'[a] = Board!Start /\ owed'[a] = Board!NoFinding
  BY <1>1 DEF Board!RoundStarted
<1>4. Places'
  <2>1. cursor' \in [Agents -> AgentPlace]
    BY <1>2 DEF Board!RoundStarted
  <2>2. owed' \in [Agents -> Board!Range(Checks) \cup {Board!NoFinding}] /\ round' \in Nat /\ display' # "idle"
    BY DEF Board!RoundStarted, Places
  <2>3. 1 \in 1 .. Len(Networks) + 1 /\ 0 \in 0 .. Len(Checks) + 1
    BY Indexed
  <2>. QED BY <1>2, <1>3, <2>1, <2>2, <2>3 DEF Places
<1>5. BoardTyped'
  <2>1. Board!Fresh \in TargetState /\ Board!Fresh.steps = <<>>
    BY DEF Board!Fresh, TargetState, Statuses
  <2>2. targets' \in [Agents \X Board!Range(Networks) -> TargetState]
    BY <2>1 DEF Board!RoundStarted, BoardTyped
  <2>3. \A a \in Agents, i \in TargetPlaces : StepsAt(a, i)' = <<>>
    BY <2>1, Indexed DEF Board!RoundStarted, BoardTyped, StepsAt
  <2>4. \A a \in Agents, i \in TargetPlaces : Apart(StepsAt(a, i))'
    BY <2>3 DEF Apart
  <2>. QED BY <2>2, <2>4 DEF BoardTyped
<1>6. \A a \in Agents, i \in TargetPlaces, j \in CheckPlaces : ~Done(a, i, j)'
  BY <1>2, <1>3, Indexed DEF Done, Settled, TargetPlaces, CheckPlaces
<1>7. round \in Nat /\ round' = round + 1 /\ reported' = reported
  BY DEF Board!RoundStarted, Places
<1>8. \A x \in reported : x.round \in 0 .. round /\ x.outcome \in Board!Outcomes
  BY DEF ReportedOnce
<1>9. \A x \in reported' : x.round \in 0 .. round' /\ x.outcome \in Board!Outcomes /\ x.round # round'
  BY <1>7, <1>8
<1>10. ReportedOnce'
  BY <1>9 DEF ReportedOnce, Tells
<1>11. ShowsReport'
  BY <1>6 DEF ShowsReport
<1>. QED BY <1>4, <1>5, <1>10, <1>11

LEMMA TargetStartedKeeps ==
  ASSUME BoardAssumption, BoardInv, NEW a \in Agents, Board!TargetStarted(a)
  PROVE  BoardInv'
<1>. USE DEF BoardInv
<1>1. PICK p \in TargetPlaces, o \in BOOLEAN :
        /\ cursor[a] = [target |-> p, step |-> 0, open |-> o]
        /\ Board!TargetAt(a) = Networks[p] /\ owed[a] = Board!NoFinding
  <2>1. /\ cursor[a].target \in TargetPlaces /\ Board!TargetAt(a) = Networks[cursor[a].target]
        /\ cursor[a].step = 0 /\ owed[a] = Board!NoFinding
    BY AtTarget DEF Board!TargetStarted, Board!Ready
  <2>2. cursor[a] \in AgentPlace
    BY DEF Places
  <2>. QED BY <2>1, <2>2 DEF AgentPlace
<1>2. PICK t2 \in TargetState : /\ targets' = [targets EXCEPT ![<<a, Networks[p]>>] = t2]
                                /\ t2.steps = StepsAt(a, p) /\ Apart(t2.steps)
  <2> DEFINE t == targets[<<a, Networks[p]>>]
  <2>1. t \in TargetState /\ t.steps = StepsAt(a, p) /\ Apart(StepsAt(a, p))
    BY Indexed DEF BoardTyped, StepsAt
  <2>2. [t EXCEPT !.status = "running"] \in TargetState /\ [t EXCEPT !.status = "running"].steps = StepsAt(a, p)
    BY <2>1 DEF TargetState, Statuses
  <2>3. targets' = [targets EXCEPT ![<<a, Networks[p]>>] = [t EXCEPT !.status = "running"]]
    BY <1>1 DEF Board!TargetStarted, Board!Update
  <2>. QED BY <2>1, <2>2, <2>3
<1>3. /\ BoardTyped' /\ \A b \in Agents, i \in TargetPlaces : StepsAt(b, i)' = StepsAt(b, i)
  <2>1. /\ BoardTyped' /\ StepsAt(a, p)' = t2.steps
        /\ \A b \in Agents, i \in TargetPlaces : ~(b = a /\ i = p) => StepsAt(b, i)' = StepsAt(b, i)
    BY <1>2, OneTarget
  <2>. QED BY <1>2, <2>1
<1>4. /\ Places' /\ cursor'[a].target = p /\ cursor'[a].step = 1 /\ owed'[a] = Board!NoFinding
      /\ \A b \in Agents : b # a => cursor'[b] = cursor[b] /\ owed'[b] = owed[b]
  <2> DEFINE r == [cursor[a] EXCEPT !.step = 1]
  <2>1. cursor[a] \in AgentPlace /\ p \in Nat
    BY Indexed DEF Places, TargetPlaces
  <2>2. r \in AgentPlace /\ r.target = p /\ r.step = 1
    BY <1>1, <2>1, Indexed DEF AgentPlace, CheckPlaces
  <2>3. cursor' = [cursor EXCEPT ![a] = r]
    BY <1>1 DEF Board!TargetStarted
  <2>. HIDE DEF r
  <2>4. owed' = [owed EXCEPT ![a] = Board!NoFinding] /\ round' = round /\ display' # "idle"
    BY <1>1 DEF Board!TargetStarted, Board!Ready, Places
  <2>5. /\ r.target \in 1 .. Len(Networks) + 1 /\ r.step \in 0 .. Len(Checks) + 1
        /\ r.target = Len(Networks) + 1 => r.step = 0 /\ r.open = FALSE
    BY <2>2, Indexed DEF TargetPlaces, CheckPlaces
  <2>. QED BY <2>2, <2>3, <2>4, <2>5, Moves
<1>5. cursor[a].target = p /\ cursor[a].step = 0
  BY <1>1
<1>6. \A b \in Agents, i \in TargetPlaces, j \in CheckPlaces :
        (Settled(b, i, j)' <=> Settled(b, i, j)) /\ (Done(b, i, j)' <=> Done(b, i, j))
  <2>. SUFFICES ASSUME NEW b \in Agents, NEW i \in TargetPlaces, NEW j \in CheckPlaces
                PROVE  (Settled(b, i, j)' <=> Settled(b, i, j)) /\ (Done(b, i, j)' <=> Done(b, i, j))
    OBVIOUS
  <2>1. CASE b # a
    BY <1>4, <2>1 DEF Done, Settled
  <2>2. CASE b = a
    BY <1>1, <1>4, <1>5, <2>2, Indexed DEF Done, Settled, TargetPlaces, CheckPlaces
  <2>. QED BY <2>1, <2>2
<1>7. reported' = reported /\ round' = round
  BY DEF Board!TargetStarted
<1>. QED BY <1>3, <1>4, <1>6, <1>7, Carried

LEMMA StepStartedKeeps ==
  ASSUME BoardAssumption, BoardInv, NEW a \in Agents, Board!StepStarted(a)
  PROVE  BoardInv'
<1>. USE DEF BoardInv
<1>1. PICK p \in TargetPlaces, k \in CheckPlaces, o \in BOOLEAN :
        /\ cursor[a] = [target |-> p, step |-> k, open |-> o]
        /\ Board!TargetAt(a) = Networks[p] /\ Board!CheckAt(a) = Checks[k] /\ owed[a] = Board!NoFinding
  <2>1. /\ cursor[a].target \in TargetPlaces /\ Board!TargetAt(a) = Networks[cursor[a].target]
        /\ cursor[a].step \in CheckPlaces /\ owed[a] = Board!NoFinding
    BY AtTarget DEF Board!StepStarted, Board!Ready, Board!AtCheck, CheckPlaces
  <2>2. cursor[a] \in AgentPlace
    BY DEF Places
  <2>. QED BY <2>1, <2>2 DEF Board!CheckAt, AgentPlace
<1>2. PICK t2 \in TargetState : /\ targets' = [targets EXCEPT ![<<a, Networks[p]>>] = t2]
                                /\ t2.steps = Board!upsertStep(StepsAt(a, p), Checks[k], "running")
  <2> DEFINE t == targets[<<a, Networks[p]>>]
             u == Board!upsertStep(t.steps, Checks[k], "running")
             n == [status |-> "running", current |-> Checks[k], steps |-> u]
  <2>1. t \in TargetState /\ t.steps = StepsAt(a, p) /\ Apart(StepsAt(a, p)) /\ Checks[k] \in Board!Range(Checks)
        /\ "running" \in Statuses
    BY Indexed DEF BoardTyped, StepsAt, Statuses
  <2>2. t.steps \in Seq(StepState)
    BY <2>1 DEF TargetState
  <2>3. u \in Seq(StepState)
    BY <2>1, <2>2, Upserts
  <2>. HIDE DEF u
  <2>4. n \in TargetState /\ n.steps = u
    BY <2>1, <2>3 DEF TargetState
  <2>5. targets' = [targets EXCEPT ![<<a, Networks[p]>>] = n]
    BY <1>1 DEF Board!StepStarted, Board!Update, u
  <2>. QED BY <2>1, <2>4, <2>5 DEF u
<1>3. /\ BoardTyped'
      /\ \A b \in Agents, i \in TargetPlaces, j \in CheckPlaces : \A q :
           ~(b = a /\ i = p /\ j = k) /\ Has(StepsAt(b, i), Checks[j], q)
             => Has(StepsAt(b, i)', Checks[j], q)
  <2>1. "running" \in Statuses
    BY DEF Statuses
  <2>. QED BY <1>2, <2>1, OneCheck
<1>4. /\ Places' /\ cursor'[a].target = p /\ cursor'[a].step = k /\ owed'[a] = Board!NoFinding
      /\ \A b \in Agents : b # a => cursor'[b] = cursor[b] /\ owed'[b] = owed[b]
  <2> DEFINE r == [cursor[a] EXCEPT !.open = TRUE]
  <2>1. cursor[a] \in AgentPlace /\ p \in Nat
    BY Indexed DEF Places, TargetPlaces
  <2>2. r \in AgentPlace /\ r.target = p /\ r.step = k
    <3>1. r \in AgentPlace
      BY <2>1 DEF AgentPlace
    <3>2. r.target = cursor[a].target /\ r.step = cursor[a].step
      BY <2>1 DEF AgentPlace
    <3>. QED BY <1>1, <3>1, <3>2
  <2>3. cursor' = [cursor EXCEPT ![a] = r]
    BY <1>1 DEF Board!StepStarted
  <2>. HIDE DEF r
  <2>4. owed' = [owed EXCEPT ![a] = Board!NoFinding] /\ round' = round /\ display' # "idle"
    BY <1>1 DEF Board!StepStarted, Board!Ready, Places
  <2>5. /\ r.target \in 1 .. Len(Networks) + 1 /\ r.step \in 0 .. Len(Checks) + 1
        /\ r.target = Len(Networks) + 1 => r.step = 0 /\ r.open = FALSE
    BY <2>2, Indexed DEF TargetPlaces, CheckPlaces
  <2>. QED BY <2>2, <2>3, <2>4, <2>5, Moves
<1>5. cursor[a].target = p /\ cursor[a].step = k
  BY <1>1
<1>6. \A b \in Agents, i \in TargetPlaces, j \in CheckPlaces :
        (Settled(b, i, j)' <=> Settled(b, i, j)) /\ (Done(b, i, j)' <=> Done(b, i, j))
  <2>. SUFFICES ASSUME NEW b \in Agents, NEW i \in TargetPlaces, NEW j \in CheckPlaces
                PROVE  (Settled(b, i, j)' <=> Settled(b, i, j)) /\ (Done(b, i, j)' <=> Done(b, i, j))
    OBVIOUS
  <2>1. CASE b # a
    BY <1>4, <2>1 DEF Done, Settled
  <2>2. CASE b = a
    BY <1>1, <1>4, <1>5, <2>2 DEF Done, Settled
  <2>. QED BY <2>1, <2>2
<1>7. ~Settled(a, p, k)
  BY <1>5, Indexed DEF Settled, TargetPlaces, CheckPlaces
<1>8. reported' = reported /\ round' = round
  BY DEF Board!StepStarted
<1>. QED BY <1>3, <1>4, <1>6, <1>7, <1>8, Carried

LEMMA TargetFinishedKeeps ==
  ASSUME BoardAssumption, BoardInv, NEW a \in Agents, Board!TargetFinished(a)
  PROVE  BoardInv'
<1>. USE DEF BoardInv
<1>1. PICK p \in TargetPlaces, o \in BOOLEAN :
        /\ cursor[a] = [target |-> p, step |-> Len(Checks) + 1, open |-> o]
        /\ Board!TargetAt(a) = Networks[p] /\ owed[a] = Board!NoFinding
  <2>1. /\ cursor[a].target \in TargetPlaces /\ Board!TargetAt(a) = Networks[cursor[a].target]
        /\ cursor[a].step = Len(Checks) + 1 /\ owed[a] = Board!NoFinding
    BY AtTarget DEF Board!TargetFinished, Board!Ready
  <2>2. cursor[a] \in AgentPlace
    BY DEF Places
  <2>. QED BY <2>1, <2>2 DEF AgentPlace
<1>2. PICK t2 \in TargetState : /\ targets' = [targets EXCEPT ![<<a, Networks[p]>>] = t2]
                                /\ t2.steps = StepsAt(a, p) /\ Apart(t2.steps)
  <2> DEFINE t == targets[<<a, Networks[p]>>]
             w == Board!outcomeStatus(Board!Worst(Board!Outcome(a, Board!TargetAt(a))))
             n == [t EXCEPT !.status = w, !.current = ""]
  <2>1. t \in TargetState /\ t.steps = StepsAt(a, p) /\ Apart(StepsAt(a, p))
    BY Indexed DEF BoardTyped, StepsAt
  <2>2. w \in Statuses
    <3>1. Board!Worst(Board!Outcome(a, Board!TargetAt(a))) \in {"fail", "missing", "canceled", "skip", "pass"}
      BY DEF Board!Worst
    <3>. QED BY <3>1 DEF Board!outcomeStatus, Statuses
  <2>3. targets' = [targets EXCEPT ![<<a, Networks[p]>>] = n]
    BY <1>1 DEF Board!TargetFinished, Board!Update
  <2>. HIDE DEF w
  <2>4. n \in TargetState /\ n.steps = StepsAt(a, p)
    BY <2>1, <2>2 DEF TargetState
  <2>. QED BY <2>1, <2>3, <2>4
<1>3. /\ BoardTyped' /\ \A b \in Agents, i \in TargetPlaces : StepsAt(b, i)' = StepsAt(b, i)
  <2>1. /\ BoardTyped' /\ StepsAt(a, p)' = t2.steps
        /\ \A b \in Agents, i \in TargetPlaces : ~(b = a /\ i = p) => StepsAt(b, i)' = StepsAt(b, i)
    BY <1>2, OneTarget
  <2>. QED BY <1>2, <2>1
<1>4. /\ Places' /\ cursor'[a].target = p + 1 /\ cursor'[a].step = 0 /\ owed'[a] = Board!NoFinding
      /\ \A b \in Agents : b # a => cursor'[b] = cursor[b] /\ owed'[b] = owed[b]
  <2> DEFINE r == [target |-> p + 1, step |-> 0, open |-> FALSE]
  <2>1. cursor[a] \in AgentPlace /\ p \in Nat
    BY Indexed DEF Places, TargetPlaces
  <2>2. r \in AgentPlace /\ r.target = p + 1 /\ r.step = 0 /\ r.open = FALSE
    BY <1>1, <2>1, Indexed DEF AgentPlace, CheckPlaces
  <2>3. cursor' = [cursor EXCEPT ![a] = r]
    BY <1>1 DEF Board!TargetFinished
  <2>. HIDE DEF r
  <2>4. owed' = [owed EXCEPT ![a] = Board!NoFinding] /\ round' = round /\ display' # "idle"
    BY <1>1 DEF Board!TargetFinished, Board!Ready, Places
  <2>5. /\ r.target \in 1 .. Len(Networks) + 1 /\ r.step \in 0 .. Len(Checks) + 1
        /\ r.target = Len(Networks) + 1 => r.step = 0 /\ r.open = FALSE
    BY <2>2, Indexed DEF TargetPlaces, CheckPlaces
  <2>. QED BY <2>2, <2>3, <2>4, <2>5, Moves
<1>5. cursor[a].target = p /\ cursor[a].step = Len(Checks) + 1
  BY <1>1
<1>6. \A b \in Agents, i \in TargetPlaces, j \in CheckPlaces :
        (Settled(b, i, j)' <=> Settled(b, i, j)) /\ (Done(b, i, j)' <=> Done(b, i, j))
  <2>. SUFFICES ASSUME NEW b \in Agents, NEW i \in TargetPlaces, NEW j \in CheckPlaces
                PROVE  (Settled(b, i, j)' <=> Settled(b, i, j)) /\ (Done(b, i, j)' <=> Done(b, i, j))
    OBVIOUS
  <2>1. CASE b # a
    BY <1>4, <2>1 DEF Done, Settled
  <2>2. CASE b = a
    BY <1>1, <1>4, <1>5, <2>2, Indexed DEF Done, Settled, TargetPlaces, CheckPlaces
  <2>. QED BY <2>1, <2>2
<1>7. reported' = reported /\ round' = round
  BY DEF Board!TargetFinished
<1>. QED BY <1>3, <1>4, <1>6, <1>7, Carried

LEMMA FindingKeeps ==
  ASSUME BoardAssumption, BoardInv, NEW a \in Agents, Board!Finding(a)
  PROVE  BoardInv'
<1>. USE DEF BoardInv
<1>1. PICK p \in TargetPlaces, k \in CheckPlaces, o \in BOOLEAN :
        /\ cursor[a] = [target |-> p, step |-> k, open |-> o]
        /\ Board!TargetAt(a) = Networks[p] /\ Board!CheckAt(a) = Checks[k] /\ owed[a] # Board!NoFinding
  <2>1. owed[a] # Board!NoFinding /\ cursor[a].step \in CheckPlaces
    BY DEF Board!Finding, Places
  <2>2. Board!Ended.step = 0 /\ 0 \notin CheckPlaces
    BY Indexed DEF Board!Ended, CheckPlaces
  <2>3. cursor[a].target \in TargetPlaces /\ Board!TargetAt(a) = Networks[cursor[a].target]
    BY <2>1, <2>2, AtTarget
  <2>4. cursor[a] \in AgentPlace
    BY DEF Places
  <2>. QED BY <2>1, <2>3, <2>4 DEF Board!CheckAt, AgentPlace
<1>2. PICK t2 \in TargetState : /\ targets' = [targets EXCEPT ![<<a, Networks[p]>>] = t2]
                                /\ t2.steps = Board!upsertStep(StepsAt(a, p), Checks[k], "failed")
  <2> DEFINE t == targets[<<a, Networks[p]>>]
             u == Board!upsertStep(t.steps, Checks[k], "failed")
             n == [t EXCEPT !.status = "failed", !.steps = u]
  <2>1. t \in TargetState /\ t.steps = StepsAt(a, p) /\ Apart(StepsAt(a, p)) /\ Checks[k] \in Board!Range(Checks)
        /\ "failed" \in Statuses
    BY Indexed DEF BoardTyped, StepsAt, Statuses
  <2>2. t.steps \in Seq(StepState)
    BY <2>1 DEF TargetState
  <2>3. u \in Seq(StepState)
    BY <2>1, <2>2, Upserts
  <2>4. targets' = [targets EXCEPT ![<<a, Networks[p]>>] = n]
    BY <1>1 DEF Board!Finding, Board!Update
  <2>. HIDE DEF u
  <2>5. n \in TargetState /\ n.steps = u
    BY <2>1, <2>3 DEF TargetState
  <2>. QED BY <2>1, <2>4, <2>5 DEF u
<1>3. /\ BoardTyped' /\ Has(StepsAt(a, p)', Checks[k], "failed")
      /\ \A b \in Agents, i \in TargetPlaces, j \in CheckPlaces : \A q :
           ~(b = a /\ i = p /\ j = k) /\ Has(StepsAt(b, i), Checks[j], q)
             => Has(StepsAt(b, i)', Checks[j], q)
  <2>1. "failed" \in Statuses
    BY DEF Statuses
  <2>. QED BY <1>2, <2>1, OneCheck
<1>4. /\ Places' /\ cursor'[a].target = p /\ cursor'[a].step = k + 1 /\ owed'[a] = Board!NoFinding
      /\ \A b \in Agents : b # a => cursor'[b] = cursor[b] /\ owed'[b] = owed[b]
  <2> DEFINE r == [cursor[a] EXCEPT !.step = @ + 1, !.open = FALSE]
  <2>1. cursor[a] \in AgentPlace /\ p \in Nat /\ k \in Nat
    BY Indexed DEF Places, TargetPlaces, CheckPlaces
  <2>2. r \in AgentPlace /\ r.target = p /\ r.step = k + 1
    <3>1. r.target = cursor[a].target /\ r.step = cursor[a].step + 1
      BY <2>1, NextPlace
    <3>2. r \in AgentPlace
      BY <2>1, NextPlace
    <3>. QED BY <1>1, <3>1, <3>2
  <2>3. cursor' = [cursor EXCEPT ![a] = r]
    BY DEF Board!Finding
  <2>. HIDE DEF r
  <2>4. owed' = [owed EXCEPT ![a] = Board!NoFinding] /\ round' = round /\ display' = display
    BY DEF Board!Finding
  <2>5. display # "idle"
    <3>1. Board!Ended.step = 0 /\ 0 \notin CheckPlaces
      BY Indexed DEF Board!Ended, CheckPlaces
    <3>. QED BY <1>1, <3>1 DEF Places
  <2>6. /\ r.target \in 1 .. Len(Networks) + 1 /\ r.step \in 0 .. Len(Checks) + 1
        /\ r.target = Len(Networks) + 1 => r.step = 0 /\ r.open = FALSE
    BY <2>2, Indexed DEF TargetPlaces, CheckPlaces
  <2>. QED BY <2>2, <2>3, <2>4, <2>5, <2>6, Moves
<1>5. cursor[a].target = p /\ cursor[a].step = k
  BY <1>1
<1>6. ASSUME NEW b \in Agents, NEW i \in TargetPlaces, NEW j \in CheckPlaces
      PROVE  /\ Done(b, i, j)' <=> Done(b, i, j)
             /\ ~(b = a /\ i = p /\ j = k) => (Settled(b, i, j)' <=> Settled(b, i, j))
  <2>1. CASE b # a
    BY <1>4, <2>1 DEF Done, Settled
  <2>2. CASE b = a
    BY <1>1, <1>4, <1>5, <2>2, Indexed DEF Done, Settled, TargetPlaces, CheckPlaces
  <2>. QED BY <2>1, <2>2
<1>7. reported' = reported /\ round' = round
  BY DEF Board!Finding
<1>8. \A x, b, i, j : Tells(x, b, i, j)' <=> Tells(x, b, i, j)
  BY <1>7 DEF Tells
<1>9. ReportedOnce'
  BY <1>6, <1>7, <1>8 DEF ReportedOnce
<1>10. ShowsReport'
  <2>. SUFFICES ASSUME round' > 0, NEW b \in Agents, NEW i \in TargetPlaces, NEW j \in CheckPlaces,
                       Done(b, i, j)'
                PROVE  \E x \in reported' : Tells(x, b, i, j)' /\ Shows(x, b, i, j)'
    BY DEF ShowsReport
  <2>1. PICK x \in reported : Tells(x, b, i, j) /\ Shows(x, b, i, j)
    BY <1>6, <1>7 DEF ShowsReport
  <2>2. CASE b = a /\ i = p /\ j = k
    <3>1. ~Settled(b, i, j)
      BY <1>5, <2>2, Indexed DEF Settled, TargetPlaces, CheckPlaces
    <3>2. x.outcome \in {"fail", "missing"}
      BY <2>1, <3>1 DEF Shows
    <3>3. Board!Shown(x.outcome) = "failed"
      BY <3>2 DEF Board!Shown, Board!outcomeStatus
    <3>. QED BY <1>3, <1>7, <1>8, <2>1, <2>2, <3>2, <3>3, ShowsNext
  <2>3. CASE ~(b = a /\ i = p /\ j = k)
    BY <1>3, <1>6, <1>7, <1>8, <2>1, <2>3, ShowsNext DEF Shows
  <2>. QED BY <2>2, <2>3
<1>. QED BY <1>3, <1>4, <1>9, <1>10

LEMMA StepFinishedKeeps ==
  ASSUME BoardAssumption, BoardInv, NEW a \in Agents, NEW o \in Board!Outcomes, Board!StepFinished(a, o)
  PROVE  BoardInv'
<1>. USE DEF BoardInv
<1> DEFINE bad == o \in {"fail", "missing"}
<1>1. PICK p \in TargetPlaces, k \in CheckPlaces, w \in BOOLEAN :
        /\ cursor[a] = [target |-> p, step |-> k, open |-> w]
        /\ Board!TargetAt(a) = Networks[p] /\ Board!CheckAt(a) = Checks[k] /\ owed[a] = Board!NoFinding
  <2>1. /\ cursor[a].target \in TargetPlaces /\ Board!TargetAt(a) = Networks[cursor[a].target]
        /\ cursor[a].step \in CheckPlaces /\ owed[a] = Board!NoFinding
    BY AtTarget DEF Board!StepFinished, Board!Ready, Board!AtCheck, CheckPlaces
  <2>2. cursor[a] \in AgentPlace
    BY DEF Places
  <2>. QED BY <2>1, <2>2 DEF Board!CheckAt, AgentPlace
<1>2. Checks[k] \in Board!Range(Checks) /\ Checks[k] # Board!NoFinding /\ Board!outcomeStatus(o) \in Statuses
  BY Indexed DEF BoardAssumption, CheckPlaces, Board!Outcomes, Board!outcomeStatus, Statuses
<1>3. PICK t2 \in TargetState : /\ targets' = [targets EXCEPT ![<<a, Networks[p]>>] = t2]
                                /\ t2.steps = Board!upsertStep(StepsAt(a, p), Checks[k], Board!outcomeStatus(o))
  <2> DEFINE t == targets[<<a, Networks[p]>>]
             u == Board!upsertStep(t.steps, Checks[k], Board!outcomeStatus(o))
             c == IF t.current = Checks[k] THEN "" ELSE t.current
             m == IF o \in {"fail", "missing", "canceled"} THEN Board!outcomeStatus(o) ELSE t.status
             n == [current |-> c, status |-> m, steps |-> u]
  <2>1. t \in TargetState /\ t.steps = StepsAt(a, p) /\ Apart(StepsAt(a, p))
    BY Indexed DEF BoardTyped, StepsAt
  <2>2. t.steps \in Seq(StepState) /\ c \in Board!Range(Checks) \cup {""} /\ m \in Statuses
    BY <1>2, <2>1 DEF TargetState
  <2>3. u \in Seq(StepState)
    BY <1>2, <2>1, <2>2, Upserts
  <2>4. targets' = [targets EXCEPT ![<<a, Networks[p]>>] = n]
    BY <1>1 DEF Board!StepFinished, Board!Update
  <2>. HIDE DEF u, c, m
  <2>5. n \in TargetState /\ n.steps = u
    BY <2>2, <2>3 DEF TargetState
  <2>. QED BY <2>1, <2>4, <2>5 DEF u
<1>4. /\ BoardTyped' /\ Has(StepsAt(a, p)', Checks[k], Board!outcomeStatus(o))
      /\ \A b \in Agents, i \in TargetPlaces, j \in CheckPlaces : \A q :
           ~(b = a /\ i = p /\ j = k) /\ Has(StepsAt(b, i), Checks[j], q)
             => Has(StepsAt(b, i)', Checks[j], q)
  BY <1>2, <1>3, OneCheck
<1>5. display # "idle" /\ display' = display /\ round' = round
  BY DEF Board!StepFinished, Board!Ready, Places
<1>6. /\ Places' /\ cursor'[a].target = p
      /\ IF bad THEN cursor'[a].step = k /\ owed'[a] = Checks[k]
                ELSE cursor'[a].step = k + 1 /\ owed'[a] = Board!NoFinding
      /\ \A b \in Agents : b # a => cursor'[b] = cursor[b] /\ owed'[b] = owed[b]
  <2>1. cursor[a] \in AgentPlace /\ p \in Nat /\ k \in Nat
    BY Indexed DEF Places, TargetPlaces, CheckPlaces
  <2>2. CASE bad
    <3> DEFINE r == cursor[a]
    <3>1. r \in AgentPlace /\ r.target = p /\ r.step = k
      BY <1>1, <2>1
    <3>2. cursor' = [cursor EXCEPT ![a] = r] /\ owed' = [owed EXCEPT ![a] = Checks[k]]
      BY <1>1, <2>2 DEF Board!StepFinished, Places
    <3>3. /\ r.target \in 1 .. Len(Networks) + 1 /\ r.step \in 0 .. Len(Checks) + 1
          /\ r.target = Len(Networks) + 1 => r.step = 0 /\ r.open = FALSE
      BY <3>1, Indexed DEF TargetPlaces, CheckPlaces
    <3>. HIDE DEF r
    <3>4. /\ Places' /\ cursor'[a] = r /\ owed'[a] = Checks[k]
          /\ \A b \in Agents : b # a => cursor'[b] = cursor[b] /\ owed'[b] = owed[b]
      BY <1>2, <1>5, <3>1, <3>2, <3>3, Moves
    <3>. QED BY <2>2, <3>1, <3>4
  <2>3. CASE ~bad
    <3> DEFINE r == [cursor[a] EXCEPT !.step = @ + 1, !.open = FALSE]
    <3>1. r.target = cursor[a].target /\ r.step = cursor[a].step + 1
      BY <2>1, NextPlace
    <3>2. r \in AgentPlace
      BY <2>1, NextPlace
    <3>3. r.target = p /\ r.step = k + 1
      BY <1>1, <3>1
    <3>4. cursor' = [cursor EXCEPT ![a] = r]
      BY <2>3 DEF Board!StepFinished
    <3>5. owed' = [owed EXCEPT ![a] = Board!NoFinding]
      BY <1>1, <2>3 DEF Board!StepFinished, Places
    <3>. HIDE DEF r
    <3>6. /\ r.target \in 1 .. Len(Networks) + 1 /\ r.step \in 0 .. Len(Checks) + 1
          /\ r.target = Len(Networks) + 1 => r.step = 0 /\ r.open = FALSE
      BY <3>3, Indexed DEF TargetPlaces, CheckPlaces
    <3>7. /\ Places' /\ cursor'[a] = r /\ owed'[a] = Board!NoFinding
          /\ \A b \in Agents : b # a => cursor'[b] = cursor[b] /\ owed'[b] = owed[b]
      BY <1>5, <3>2, <3>4, <3>5, <3>6, Moves
    <3>. QED BY <2>3, <3>3, <3>7
  <2>. QED BY <2>2, <2>3
<1>7. cursor[a].target = p /\ cursor[a].step = k
  BY <1>1
<1>8. ASSUME NEW b \in Agents, NEW i \in TargetPlaces, NEW j \in CheckPlaces
      PROVE  /\ Done(b, i, j)' <=> (Done(b, i, j) \/ (b = a /\ i = p /\ j = k))
             /\ ~(b = a /\ i = p /\ j = k) => (Settled(b, i, j)' <=> Settled(b, i, j))
             /\ b = a /\ i = p /\ j = k => (Settled(b, i, j)' <=> ~bad) /\ ~Done(b, i, j)
  <2>1. CASE b # a
    BY <1>6, <2>1 DEF Done, Settled
  <2>2. CASE b = a /\ bad
    BY <1>1, <1>2, <1>6, <1>7, <2>2, Indexed DEF Done, Settled, TargetPlaces, CheckPlaces
  <2>3. CASE b = a /\ ~bad
    BY <1>1, <1>6, <1>7, <2>3, Indexed DEF Done, Settled, TargetPlaces, CheckPlaces
  <2>. QED BY <2>1, <2>2, <2>3
<1>. HIDE DEF bad
<1>9. PICK new : reported' = reported \cup {new} /\ Tells(new, a, p, k) /\ new.outcome = o
  <2> DEFINE x == [round |-> round, agent |-> a, target |-> Networks[p], check |-> Checks[k],
                   outcome |-> o, when |-> clock]
  <2>1. reported' = reported \cup {x}
    BY <1>1 DEF Board!StepFinished
  <2>2. Tells(x, a, p, k) /\ x.outcome = o
    BY DEF Tells
  <2>. QED BY <2>1, <2>2
<1>10. \A x, b, i, j : Tells(x, b, i, j)' <=> Tells(x, b, i, j)
  BY <1>5 DEF Tells
<1>11. \A b \in Agents, i \in TargetPlaces, j \in CheckPlaces : Tells(new, b, i, j) => b = a /\ i = p /\ j = k
  BY <1>9 DEF Tells, BoardAssumption, TargetPlaces, CheckPlaces
<1>12. ASSUME NEW x \in reported, Tells(x, a, p, k) PROVE FALSE
  <2>1. x.round = round
    BY <1>12 DEF Tells
  <2>2. PICK b \in Agents, i \in TargetPlaces, j \in CheckPlaces : Tells(x, b, i, j) /\ Done(b, i, j)
    BY <2>1 DEF ReportedOnce
  <2>3. b = a /\ i = p /\ j = k
    BY <1>12, <2>2 DEF Tells, BoardAssumption, TargetPlaces, CheckPlaces
  <2>. QED BY <1>8, <2>2, <2>3
<1>13. ReportedOnce'
  <2>1. \A x \in reported' : x.round \in 0 .. round' /\ x.outcome \in Board!Outcomes
    BY <1>5, <1>9 DEF ReportedOnce, Places, Tells
  <2>2. \A x \in reported' : x.round = round' =>
          \E b \in Agents, i \in TargetPlaces, j \in CheckPlaces : Tells(x, b, i, j) /\ Done(b, i, j)'
    BY <1>5, <1>8, <1>9 DEF ReportedOnce
  <2>3. \A b \in Agents, i \in TargetPlaces, j \in CheckPlaces, x, y \in reported' :
          Tells(x, b, i, j) /\ Tells(y, b, i, j) => x = y
    BY <1>9, <1>11, <1>12 DEF ReportedOnce
  <2>. QED BY <1>10, <2>1, <2>2, <2>3 DEF ReportedOnce
<1>14. ShowsReport'
  <2>. SUFFICES ASSUME round' > 0, NEW b \in Agents, NEW i \in TargetPlaces, NEW j \in CheckPlaces,
                       Done(b, i, j)'
                PROVE  \E x \in reported' : Tells(x, b, i, j)' /\ Shows(x, b, i, j)'
    BY DEF ShowsReport
  <2>1. CASE b = a /\ i = p /\ j = k
    <3>1. bad \/ Board!Shown(o) = Board!outcomeStatus(o)
      BY DEF Board!Shown, bad
    <3>. QED BY <1>4, <1>8, <1>9, <1>10, <2>1, <3>1, ShowsNext DEF bad
  <2>2. CASE ~(b = a /\ i = p /\ j = k)
    <3>1. Done(b, i, j) /\ round > 0
      BY <1>5, <1>8, <2>2
    <3>2. PICK x \in reported : Tells(x, b, i, j) /\ Shows(x, b, i, j)
      BY <3>1 DEF ShowsReport
    <3>. QED BY <1>4, <1>8, <1>9, <1>10, <2>2, <3>2, ShowsNext DEF Shows
  <2>. QED BY <2>1, <2>2
<1>. QED BY <1>4, <1>6, <1>13, <1>14

LEMMA RoundFinishedKeeps ==
  ASSUME BoardAssumption, BoardInv, Board!RoundFinished
  PROVE  BoardInv'
<1>. USE DEF BoardInv
<1>1. /\ cursor' = cursor /\ owed' = owed /\ reported' = reported /\ round' = round /\ targets' = targets
      /\ \A a \in Agents : cursor[a] = Board!Ended
  BY DEF Board!RoundFinished, Board!run
<1>2. Places'
  BY <1>1 DEF Places
<1>3. BoardTyped'
  BY <1>1 DEF BoardTyped, StepsAt, Apart
<1>4. ReportedOnce' /\ ShowsReport'
  BY <1>1, Carried DEF Settled, Done, StepsAt, Has
<1>. QED BY <1>2, <1>3, <1>4

(* At the end of a round every check of every agent is shown as reported.    *)
LEMMA BoardAgrees ==
  ASSUME BoardAssumption, BoardInv
  PROVE  Board!RoundAgrees
<1>. USE DEF BoardInv
<1>. SUFFICES ASSUME display = "idle", round > 0, NEW t \in Board!Range(Networks), NEW c \in Board!Range(Checks)
              PROVE  LET results == {Board!Shown(Board!Result(a, t, c).outcome) : a \in Agents}
                     IN Board!CheckStatusTargetCell(t, c) =
                          IF "failed" \in results THEN "failed" ELSE IF "canceled" \in results THEN "canceled"
                          ELSE IF "ok" \in results THEN "ok" ELSE "skipped"
  BY DEF Board!RoundAgrees
<1> DEFINE shows(a) == Board!Shown(Board!Result(a, t, c).outcome)
<1>1. PICK i \in TargetPlaces, j \in CheckPlaces : t = Networks[i] /\ c = Checks[j]
  BY Indexed
<1>2. ASSUME NEW a \in Agents
      PROVE  /\ Board!CurrentCheckStatus(a, t, c) = shows(a)
             /\ shows(a) \in {"failed", "canceled", "ok", "skipped"}
  <2>1. cursor[a] = Board!Ended
    BY DEF Places
  <2>2. Settled(a, i, j) /\ Done(a, i, j)
    BY <2>1, Indexed DEF Settled, Done, Board!Ended, TargetPlaces
  <2>3. PICK x \in reported : Tells(x, a, i, j) /\ Has(StepsAt(a, i), Checks[j], Board!Shown(x.outcome))
    BY <2>2 DEF ShowsReport, Shows
  <2>4. x.outcome \in Board!Outcomes
    BY DEF ReportedOnce
  <2>5. \A y \in reported : y.round = round /\ y.agent = a /\ y.target = t /\ y.check = c => y = x
    BY <1>1, <2>3 DEF ReportedOnce, Tells
  <2>6. Board!Result(a, t, c) = x
    BY <1>1, <2>3, <2>5 DEF Board!Result, Tells
  <2>7. Apart(StepsAt(a, i)) /\ StepsAt(a, i) \in Seq(StepState)
    BY Indexed DEF BoardTyped, StepsAt, TargetState
  <2>8. Board!CurrentCheckStatus(a, t, c) = Board!Shown(x.outcome)
    BY <1>1, <2>3, <2>7, Reads
  <2>9. Board!Shown(x.outcome) \in {"failed", "canceled", "ok", "skipped"}
    BY <2>4 DEF Board!Outcomes, Board!Shown, Board!outcomeStatus
  <2>. QED BY <2>6, <2>8, <2>9
<1>. HIDE DEF shows
<1>3. \A s : (\E a \in Agents : Board!CurrentCheckStatus(a, t, c) = s) <=> s \in {shows(a) : a \in Agents}
  BY <1>2
<1>4. \E a \in Agents : TRUE
  BY DEF BoardAssumption
<1>5. Board!CheckStatusTargetCell(t, c) =
        IF "failed" \in {shows(a) : a \in Agents} THEN "failed"
        ELSE IF "canceled" \in {shows(a) : a \in Agents} THEN "canceled"
        ELSE IF "ok" \in {shows(a) : a \in Agents} THEN "ok" ELSE "skipped"
  BY <1>2, <1>3, <1>4 DEF Board!CheckStatusTargetCell
<1>. QED BY <1>5 DEF shows

LEMMA BoardStep ==
  ASSUME BoardAssumption, BoardInv, [Board!Next]_(Board!vars)
  PROVE  BoardInv'
<1>1. CASE Board!RoundStarted
  BY <1>1, RoundStartedKeeps
<1>2. CASE Board!RoundFinished
  BY <1>2, RoundFinishedKeeps
<1>3. ASSUME NEW a \in Agents, Board!TargetStarted(a) PROVE BoardInv'
  BY <1>3, TargetStartedKeeps
<1>4. ASSUME NEW a \in Agents, Board!StepStarted(a) PROVE BoardInv'
  BY <1>4, StepStartedKeeps
<1>5. ASSUME NEW a \in Agents, Board!Finding(a) PROVE BoardInv'
  BY <1>5, FindingKeeps
<1>6. ASSUME NEW a \in Agents, Board!TargetFinished(a) PROVE BoardInv'
  BY <1>6, TargetFinishedKeeps
<1>7. ASSUME NEW a \in Agents, NEW o \in Board!Outcomes, Board!StepFinished(a, o) PROVE BoardInv'
  BY <1>7, StepFinishedKeeps
<1>8. CASE UNCHANGED Board!vars
  <2>. USE DEF BoardInv
  <2>1. /\ cursor' = cursor /\ owed' = owed /\ reported' = reported /\ round' = round /\ targets' = targets
        /\ display' = display
    BY <1>8 DEF Board!vars, Board!run, Board!screen
  <2>2. Places'
    BY <2>1 DEF Places
  <2>3. BoardTyped'
    BY <2>1 DEF BoardTyped, StepsAt, Apart
  <2>4. ReportedOnce' /\ ShowsReport'
    BY <2>1, Carried DEF Settled, Done, StepsAt, Has
  <2>. QED BY <2>2, <2>3, <2>4
<1>. QED BY <1>1, <1>2, <1>3, <1>4, <1>5, <1>6, <1>7, <1>8 DEF Board!Next

(* Who is at work where.  A target is engaged while it is shown as running *)
(* or a check of it is; only the target an agent is at can be, and what is *)
(* behind an agent is not waiting any more.                                *)
TargetShown(a, i) == targets[<<a, Networks[i]>>]
Engaged(t) == t.status = "running" \/ t.current # ""

Whereabouts ==
  \A a \in Agents, i \in TargetPlaces :
    /\ Engaged(TargetShown(a, i)) => cursor[a].target = i
    /\ round > 0 /\ i < cursor[a].target => TargetShown(a, i).status # "pending"

(* A step of one agent at its target.                                      *)
LEMMA OneAgentMoves ==
  ASSUME BoardAssumption, BoardTyped, Places, Whereabouts, round' = round,
         NEW a \in Agents, NEW x, cursor[a].target \in TargetPlaces,
         targets' = [targets EXCEPT ![<<a, Networks[cursor[a].target]>>] = x],
         \A b \in Agents : b # a => cursor'[b] = cursor[b],
         \/ cursor'[a].target = cursor[a].target
         \/ cursor'[a].target = cursor[a].target + 1 /\ ~Engaged(x) /\ x.status # "pending"
  PROVE  Whereabouts'
<1>0. PICK p \in TargetPlaces, q \in Nat :
        cursor[a].target = p /\ cursor'[a].target = q /\ q \in {p, p + 1}
  BY Indexed DEF TargetPlaces
<1>1. \A b \in Agents, i \in TargetPlaces : <<b, Networks[i]>> \in DOMAIN targets
  BY Indexed DEF BoardTyped
<1>2. targets'[<<a, Networks[p]>>] = x
  BY <1>0, <1>1
<1>3. ASSUME NEW b \in Agents, NEW i \in TargetPlaces, ~(b = a /\ i = p)
      PROVE  targets'[<<b, Networks[i]>>] = targets[<<b, Networks[i]>>]
  <2>1. <<b, Networks[i]>> # <<a, Networks[p]>>
    BY <1>3 DEF BoardAssumption, TargetPlaces
  <2>. QED BY <1>0, <1>1, <2>1
<1>4. ASSUME NEW b \in Agents, NEW i \in TargetPlaces
      PROVE  /\ Engaged(targets'[<<b, Networks[i]>>]) => cursor'[b].target = i
             /\ round' > 0 /\ i < cursor'[b].target => targets'[<<b, Networks[i]>>].status # "pending"
  <2>1. p \in Nat /\ i \in Nat
    BY Indexed DEF TargetPlaces
  <2>2. CASE b # a
    BY <1>3, <2>2 DEF Whereabouts, TargetShown
  <2>3. CASE b = a /\ i = p
    BY <1>0, <1>2, <2>1, <2>3
  <2>4. CASE b = a /\ i # p
    <3>1. ~Engaged(targets[<<b, Networks[i]>>])
      BY <1>0, <2>4 DEF Whereabouts, TargetShown
    <3>2. round > 0 /\ i < p => targets[<<b, Networks[i]>>].status # "pending"
      BY <1>0, <2>4 DEF Whereabouts, TargetShown
    <3>3. i < q => i < p
      BY <1>0, <2>1, <2>4
    <3>. QED BY <1>0, <1>3, <2>4, <3>1, <3>2, <3>3
  <2>. QED BY <2>2, <2>3, <2>4
<1>. QED BY <1>4 DEF Whereabouts, TargetShown, Engaged

(* The targets of a round that starts are fresh.                           *)
LEMMA FreshIsIdle == ~Engaged(Board!Fresh)
<1>1. Board!Fresh.status = "pending" /\ Board!Fresh.current = ""
  BY Zenon DEF Board!Fresh
<1>. QED BY <1>1, Zenon DEF Engaged

(* The place behind a check is at the same target.                         *)
LEMMA StepsOn ==
  ASSUME Places, NEW a \in Agents,
         cursor' = cursor \/ cursor' = [cursor EXCEPT ![a].step = @ + 1, ![a].open = FALSE]
  PROVE  cursor'[a].target = cursor[a].target /\ \A b \in Agents : b # a => cursor'[b] = cursor[b]
<1>1. CASE cursor' = cursor
  BY <1>1
<1>2. CASE cursor' = [cursor EXCEPT ![a].step = @ + 1, ![a].open = FALSE]
  <2>1. cursor[a] \in AgentPlace /\ cursor \in [Agents -> AgentPlace]
    BY DEF Places
  <2> DEFINE r == [cursor[a] EXCEPT !.step = @ + 1, !.open = FALSE]
  <2>2. r.target = cursor[a].target
    BY <2>1, NextPlace
  <2>3. cursor' = [cursor EXCEPT ![a] = r]
    BY <1>2
  <2>. HIDE DEF r
  <2>. QED BY <2>1, <2>2, <2>3
<1>. QED BY <1>1, <1>2

(* A target whose status and current check are set.                        *)
LEMMA Settles ==
  ASSUME NEW t \in TargetState, NEW s, NEW e
  PROVE  /\ [t EXCEPT !.status = s, !.current = e].status = s
         /\ [t EXCEPT !.status = s, !.current = e].current = e
<1>1. DOMAIN t = {"status", "current", "steps"}
  BY DEF TargetState
<1>. QED BY <1>1

LEMMA TargetStartedStays ==
  ASSUME BoardAssumption, BoardInv, Whereabouts, NEW a \in Agents, Board!TargetStarted(a)
  PROVE  Whereabouts'
<1>. USE DEF BoardInv
<1>1. cursor[a].target \in TargetPlaces /\ Board!TargetAt(a) = Networks[cursor[a].target]
  BY AtTarget DEF Board!TargetStarted, Board!Ready
<1>2. PICK x : targets' = [targets EXCEPT ![<<a, Networks[cursor[a].target]>>] = x]
  BY <1>1, Zenon DEF Board!TargetStarted, Board!Update
<1>3. cursor' = [cursor EXCEPT ![a].step = 1] /\ round' = round
  BY DEF Board!TargetStarted
<1>4. /\ cursor'[a].target = cursor[a].target /\ cursor[a].target \in Nat
      /\ \A b \in Agents : b # a => cursor'[b] = cursor[b]
  BY <1>1, <1>3 DEF Places, AgentPlace
<1>. QED BY <1>1, <1>2, <1>3, <1>4, OneAgentMoves

LEMMA StepStartedStays ==
  ASSUME BoardAssumption, BoardInv, Whereabouts, NEW a \in Agents, Board!StepStarted(a)
  PROVE  Whereabouts'
<1>. USE DEF BoardInv
<1>1. cursor[a].target \in TargetPlaces /\ Board!TargetAt(a) = Networks[cursor[a].target]
  BY AtTarget DEF Board!StepStarted, Board!Ready
<1>2. PICK x : targets' = [targets EXCEPT ![<<a, Networks[cursor[a].target]>>] = x]
  BY <1>1, Zenon DEF Board!StepStarted, Board!Update
<1>3. cursor' = [cursor EXCEPT ![a].open = TRUE] /\ round' = round
  BY DEF Board!StepStarted
<1>4. /\ cursor'[a].target = cursor[a].target /\ cursor[a].target \in Nat
      /\ \A b \in Agents : b # a => cursor'[b] = cursor[b]
  BY <1>1, <1>3 DEF Places, AgentPlace
<1>. QED BY <1>1, <1>2, <1>3, <1>4, OneAgentMoves

LEMMA FindingStays ==
  ASSUME BoardAssumption, BoardInv, Whereabouts, NEW a \in Agents, Board!Finding(a)
  PROVE  Whereabouts'
<1>. USE DEF BoardInv
<1>1. cursor[a].target \in TargetPlaces /\ Board!TargetAt(a) = Networks[cursor[a].target]
  <2>1. cursor[a].step \in CheckPlaces
    BY DEF Board!Finding, Places
  <2>2. Board!Ended.step = 0 /\ 0 \notin CheckPlaces
    BY Indexed DEF Board!Ended, CheckPlaces
  <2>. QED BY <2>1, <2>2, AtTarget
<1>2. PICK x : targets' = [targets EXCEPT ![<<a, Networks[cursor[a].target]>>] = x]
  BY <1>1, Zenon DEF Board!Finding, Board!Update
<1>3. cursor' = [cursor EXCEPT ![a].step = @ + 1, ![a].open = FALSE] /\ round' = round
  BY DEF Board!Finding
<1>4. cursor'[a].target = cursor[a].target /\ \A b \in Agents : b # a => cursor'[b] = cursor[b]
  BY <1>3, StepsOn
<1>5. cursor[a].target \in Nat
  BY <1>1 DEF Places, AgentPlace
<1>. QED BY <1>1, <1>2, <1>3, <1>4, <1>5, OneAgentMoves

LEMMA StepFinishedStays ==
  ASSUME BoardAssumption, BoardInv, Whereabouts, NEW a \in Agents, NEW o \in Board!Outcomes,
         Board!StepFinished(a, o)
  PROVE  Whereabouts'
<1>. USE DEF BoardInv
<1>1. cursor[a].target \in TargetPlaces /\ Board!TargetAt(a) = Networks[cursor[a].target]
  BY AtTarget DEF Board!StepFinished, Board!Ready
<1>2. PICK x : targets' = [targets EXCEPT ![<<a, Networks[cursor[a].target]>>] = x]
  BY <1>1, Zenon DEF Board!StepFinished, Board!Update
<1>3. /\ cursor' = cursor \/ cursor' = [cursor EXCEPT ![a].step = @ + 1, ![a].open = FALSE]
      /\ round' = round
  BY DEF Board!StepFinished
<1>4. cursor'[a].target = cursor[a].target /\ \A b \in Agents : b # a => cursor'[b] = cursor[b]
  BY <1>3, StepsOn
<1>5. cursor[a].target \in Nat
  BY <1>1 DEF Places, AgentPlace
<1>. QED BY <1>1, <1>2, <1>3, <1>4, <1>5, OneAgentMoves

LEMMA TargetFinishedStays ==
  ASSUME BoardAssumption, BoardInv, Whereabouts, NEW a \in Agents, Board!TargetFinished(a)
  PROVE  Whereabouts'
<1>. USE DEF BoardInv
<1>1. cursor[a].target \in TargetPlaces /\ Board!TargetAt(a) = Networks[cursor[a].target]
  BY AtTarget DEF Board!TargetFinished, Board!Ready
<1> DEFINE t == targets[<<a, Networks[cursor[a].target]>>]
           w == Board!outcomeStatus(Board!Worst(Board!Outcome(a, Board!TargetAt(a))))
           n == [t EXCEPT !.status = w, !.current = ""]
<1>2. targets' = [targets EXCEPT ![<<a, Networks[cursor[a].target]>>] = n]
  BY <1>1 DEF Board!TargetFinished, Board!Update
<1>3. w \notin {"running", "pending"}
  <2>1. Board!Worst(Board!Outcome(a, Board!TargetAt(a))) \in {"fail", "missing", "canceled", "skip", "pass"}
    BY DEF Board!Worst
  <2>. QED BY <2>1 DEF Board!outcomeStatus
<1>. HIDE DEF w
<1>4. t \in TargetState
  BY <1>1, Indexed DEF BoardTyped
<1>5. n.status = w /\ n.current = ""
  BY <1>4, Settles
<1>. HIDE DEF n
<1>6. ~Engaged(n) /\ n.status # "pending"
  BY <1>3, <1>5, Zenon DEF Engaged
<1>7. /\ cursor' = [cursor EXCEPT ![a] = [target |-> @.target + 1, step |-> 0, open |-> FALSE]]
      /\ round' = round
  BY DEF Board!TargetFinished
<1>8. /\ cursor'[a].target = cursor[a].target + 1 /\ cursor[a].target \in Nat
      /\ \A b \in Agents : b # a => cursor'[b] = cursor[b]
  BY <1>1, <1>7 DEF Places, AgentPlace
<1>. QED BY <1>1, <1>2, <1>6, <1>7, <1>8, OneAgentMoves

LEMMA RoundStartedStays ==
  ASSUME BoardAssumption, BoardInv, Whereabouts, Board!RoundStarted
  PROVE  Whereabouts'
<1>1. \A b \in Agents, i \in TargetPlaces : targets'[<<b, Networks[i]>>] = Board!Fresh
  BY Indexed DEF Board!RoundStarted, BoardInv, BoardTyped
<1>2. \A b \in Agents : cursor'[b].target = 1
  BY DEF Board!RoundStarted, Board!Start
<1>3. \A i \in TargetPlaces : ~(i < 1)
  BY Indexed DEF TargetPlaces
<1>. QED BY <1>1, <1>2, <1>3, FreshIsIdle DEF Whereabouts, TargetShown, Engaged

LEMMA BoardStays ==
  ASSUME BoardAssumption, BoardInv, Whereabouts, [Board!Next]_(Board!vars)
  PROVE  Whereabouts'
<1>1. CASE Board!RoundStarted
  BY <1>1, RoundStartedStays
<1>2. ASSUME NEW a \in Agents, Board!TargetStarted(a) PROVE Whereabouts'
  BY <1>2, TargetStartedStays
<1>3. ASSUME NEW a \in Agents, Board!StepStarted(a) PROVE Whereabouts'
  BY <1>3, StepStartedStays
<1>4. ASSUME NEW a \in Agents, Board!Finding(a) PROVE Whereabouts'
  BY <1>4, FindingStays
<1>5. ASSUME NEW a \in Agents, Board!TargetFinished(a) PROVE Whereabouts'
  BY <1>5, TargetFinishedStays
<1>6. ASSUME NEW a \in Agents, NEW o \in Board!Outcomes, Board!StepFinished(a, o) PROVE Whereabouts'
  BY <1>6, StepFinishedStays
<1>7. CASE Board!RoundFinished \/ UNCHANGED Board!vars
  <2>1. cursor' = cursor /\ round' = round /\ targets' = targets
    BY <1>7 DEF Board!RoundFinished, Board!vars, Board!run, Board!screen
  <2>. QED BY <2>1 DEF Whereabouts, TargetShown, Engaged
<1>. QED BY <1>1, <1>2, <1>3, <1>4, <1>5, <1>6, <1>7 DEF Board!Next

LEMMA BoardCardinality == \A A : Board!Cardinality(A) = Cardinality(A)
  BY Zenon DEF Board!Cardinality, Cardinality

(* What is current is engaged, and where it is engaged its agent is.       *)
LEMMA CurrentEngaged ==
  ASSUME BoardAssumption, BoardInv, Whereabouts, NEW k \in Board!CurrentTargets
  PROVE  \E a \in Agents, i \in TargetPlaces :
           k = <<a, Networks[i]>> /\ cursor[a].target = i
<1>. USE DEF BoardInv
<1>1. k \in DOMAIN targets /\ Engaged(targets[k])
  BY Zenon DEF Board!CurrentTargets, Engaged
<1>2. PICK a \in Agents, i \in TargetPlaces : k = <<a, Networks[i]>>
  BY <1>1, Indexed DEF BoardTyped
<1>. QED BY <1>1, <1>2 DEF Whereabouts, TargetShown

LEMMA BoardCurrent ==
  ASSUME BoardAssumption, BoardInv, Whereabouts
  PROVE  Board!CurrentIsAt
<1>. USE DEF BoardInv
<1>. SUFFICES ASSUME NEW k \in Board!CurrentTargets
              PROVE  cursor[k[1]] # Board!Ended /\ Board!TargetAt(k[1]) = k[2]
  BY DEF Board!CurrentIsAt
<1>1. PICK a \in Agents, i \in TargetPlaces : k = <<a, Networks[i]>> /\ cursor[a].target = i
  BY CurrentEngaged
<1>2. cursor[a] # Board!Ended
  BY <1>1, Indexed DEF Board!Ended, TargetPlaces
<1>. QED BY <1>1, <1>2 DEF Board!TargetAt

LEMMA BoardSettled ==
  ASSUME BoardAssumption, BoardInv, Whereabouts
  PROVE  Board!RoundSettled
<1>. USE DEF BoardInv
<1>. SUFFICES ASSUME display = "idle", round > 0
              PROVE  /\ Board!TargetCount("running") = 0 /\ Board!CurrentTargets = {}
                     /\ \A a \in Agents, t \in Board!Range(Networks) :
                          Board!CheckStatusForTarget(a, t,
                            Board!FilterOutcomeEvents(Board!OutcomeEvents(passing, failed), a, t)) # "pending"
  BY DEF Board!RoundSettled
<1>1. \A a \in Agents : cursor[a].target = Len(Networks) + 1
  BY DEF Places, Board!Ended
<1>2. \A a \in Agents, i \in TargetPlaces : i # cursor[a].target /\ i < cursor[a].target
  BY <1>1, Indexed DEF TargetPlaces
<1>3. Board!CurrentTargets = {}
  BY <1>2, CurrentEngaged
<1>4. Board!TargetCount("running") = 0
  <2>1. ASSUME NEW k \in DOMAIN targets, targets[k].status = "running" PROVE FALSE
    <3>1. PICK a \in Agents, i \in TargetPlaces : k = <<a, Networks[i]>>
      BY Indexed DEF BoardTyped
    <3>2. Engaged(targets[k])
      BY <2>1, Zenon DEF Engaged
    <3>. QED BY <1>2, <3>1, <3>2 DEF Whereabouts, TargetShown
  <2>2. {k \in DOMAIN targets : targets[k].status = "running"} = {}
    BY <2>1
  <2>. QED BY <2>2, BoardCardinality, FS_EmptySet DEF Board!TargetCount
<1>5. ASSUME NEW a \in Agents, NEW t \in Board!Range(Networks)
      PROVE  targets[<<a, t>>].status # "pending"
  <2>1. PICK i \in TargetPlaces : t = Networks[i]
    BY Indexed
  <2>. QED BY <1>2, <2>1 DEF Whereabouts, TargetShown
<1>6. ASSUME NEW a \in Agents, NEW t \in Board!Range(Networks), NEW events
      PROVE  Board!CheckStatusForTarget(a, t, events) # "pending"
  BY <1>5 DEF Board!CheckStatusForTarget
<1>. QED BY <1>3, <1>4, <1>6

LEMMA BoardCounts ==
  ASSUME BoardAssumption
  PROVE  Board!CellsCount
<1>. SUFFICES ASSUME NEW t \in Board!Range(Networks), NEW c \in Board!Range(Checks)
              PROVE  LET cell == Board!CheckStatusAggregate(t, c)
                     IN cell.count \in 0 .. cell.total /\ (cell.count = 0 <=> cell.status = "pending")
  BY DEF Board!CellsCount
<1> DEFINE mine(s) == {a \in Agents : Board!CurrentCheckStatus(a, t, c) = s}
           status == Board!CheckStatusTargetCell(t, c)
           cell == Board!CheckStatusAggregate(t, c)
           all == Cardinality(Agents)
<1>1. IsFiniteSet(Agents) /\ all \in Nat
  BY FS_CardinalityType DEF BoardAssumption
<1>2. \A s : mine(s) \subseteq Agents
  OBVIOUS
<1>3. \A s : IsFiniteSet(mine(s)) /\ Cardinality(mine(s)) \in 0 .. all
  <2>. SUFFICES ASSUME NEW s PROVE IsFiniteSet(mine(s)) /\ Cardinality(mine(s)) \in 0 .. all
    OBVIOUS
  <2>1. IsFiniteSet(mine(s)) /\ Cardinality(mine(s)) <= all
    BY <1>1, <1>2, FS_Subset
  <2>2. Cardinality(mine(s)) \in Nat
    BY <2>1, FS_CardinalityType
  <2>. QED BY <1>1, <2>1, <2>2
<1>4. \A s : mine(s) # {} => Cardinality(mine(s)) # 0
  BY <1>3, FS_EmptySet
<1>5. status \notin {"pending"} => mine(status) # {}
  BY DEF Board!CheckStatusTargetCell
<1> DEFINE size(s) == Cardinality(mine(s))
<1>6. status = "running" => size("pending") # all
  <2>. SUFFICES ASSUME status = "running" PROVE size("pending") # all
    OBVIOUS
  <2>1. mine("running") # {}
    BY <1>5
  <2>2. mine("pending") # Agents
    BY <2>1
  <2>. QED BY <1>1, <1>2, <2>2, FS_Subset
<1>7. cell.status = status /\ cell.total = all
  BY BoardCardinality DEF Board!CheckStatusAggregate
<1>8. /\ status = "running" => cell.count = all - size("pending")
      /\ status = "pending" => cell.count = 0
      /\ status \notin {"running", "pending"} => cell.count = size(status)
  BY BoardCardinality DEF Board!CheckStatusAggregate
<1>9. \A s : size(s) \in 0 .. all
  BY <1>3
<1>10. status # "pending" => size(status) # 0
  BY <1>4, <1>5
<1>. HIDE DEF mine, status, cell, all, size
<1>11. cell.count \in 0 .. all /\ (cell.count = 0 <=> status = "pending")
  <2>1. size("pending") \in 0 .. all /\ size(status) \in 0 .. all /\ all \in Nat
    BY <1>1, <1>9
  <2>2. CASE status = "running"
    BY <1>6, <1>8, <2>1, <2>2
  <2>3. CASE status = "pending"
    BY <1>8, <2>1, <2>3
  <2>4. CASE status \notin {"running", "pending"}
    BY <1>8, <1>10, <2>1, <2>4
  <2>. QED BY <2>2, <2>3, <2>4
<1>. QED BY <1>7, <1>11 DEF cell

(* DashboardAgrees, for every plan and any number of agents: when a round  *)
(* is over, every cell shows the worst outcome that was reported for its   *)
(* check, whatever the order of the agents' events and also where two      *)
(* checks share a display name, and no target is current, running or       *)
(* waiting, whatever the histories hold; the current target is one that    *)
(* its agent is at; and a cell counts agents it is true of.                *)
THEOREM BoardHonest ==
  BoardAssumption /\ Watching =>
    [](Board!RoundAgrees /\ Board!RoundSettled /\ Board!CurrentIsAt /\ Board!CellsCount)
<1>. SUFFICES ASSUME BoardAssumption
              PROVE  Watching => [](Board!RoundAgrees /\ Board!RoundSettled /\ Board!CurrentIsAt
                                    /\ Board!CellsCount)
  OBVIOUS
<1>1. Board!Init => BoardInv /\ Whereabouts
  <2>. SUFFICES ASSUME Board!Init PROVE Whereabouts
    BY BoardInit
  <2>1. \A b \in Agents, i \in TargetPlaces : targets[<<b, Networks[i]>>] = Board!Fresh
    BY Indexed DEF Board!Init
  <2>2. round = 0
    BY DEF Board!Init
  <2>. QED BY <2>1, <2>2, FreshIsIdle DEF Whereabouts, TargetShown
<1>2. BoardInv /\ Whereabouts /\ [Board!Next]_(Board!vars) => BoardInv' /\ Whereabouts'
  BY BoardStep, BoardStays
<1>3. BoardInv /\ Whereabouts =>
        Board!RoundAgrees /\ Board!RoundSettled /\ Board!CurrentIsAt /\ Board!CellsCount
  BY BoardAgrees, BoardSettled, BoardCurrent, BoardCounts
<1>. QED BY <1>1, <1>2, <1>3, PTL DEF Watching

-----------------------------------------------------------------------------
(* Commands and PlanCompiler *)

(* The two widths of a number: Java's Int and the uint32 of the protocol.  *)
WidthAssumption == IntMax \in Nat /\ UintMax \in Nat

(* A request gives for each of its numbers one number or none.             *)
Given == {{}} \cup {{n} : n \in Nat}
Numbers(o) == {o.timeout, o.count, o.pause, o.size, o.hops, o.minMtu, o.maxMtu, o.interval, o.status}
IsRequest(o) == Numbers(o) \subseteq Given /\ o.ping \in BOOLEAN /\ o.forget \in BOOLEAN

(* The kinds with one bounded wait, or with several that the deadline      *)
(* counts, and the kinds whose further waits only a margin covers.         *)
Single == {"connect", "wait", "assert", "monitor", "reconnect", "fresh_scan", "global_ip", "dns"}
Several == {"ping", "traceroute", "path_mtu", "wget", "http", "cycle"}

(* What the builders make of a request.                                    *)
Built(o) ==
  {Plan!WifiStatusOperation, Plan!WifiDiagnosticsOperation, Plan!WifiCapabilitiesOperation,
   Plan!WifiDisconnectOperation, Plan!WifiForgetOperation(o), Plan!IPStatusOperation,
   Plan!WifiEHTOperation(o), Plan!WifiScanOperation(o), Plan!WifiFreshScanOperation(o),
   Plan!WifiScanDetailOperation(o), Plan!WifiConnectOperation(o), Plan!WifiCycleOperation(o),
   Plan!WifiWaitConnectedOperation(o), Plan!WifiAssertOperation(o), Plan!WifiMonitorOperation(o),
   Plan!WifiReconnectOperation(o), Plan!PingOperation(o), Plan!TracerouteOperation(o),
   Plan!PathMTUOperation(o), Plan!GlobalIPOperation(o), Plan!DownloadOperation(o),
   Plan!DNSOperation(o), Plan!HTTPOperation(o)}

(* What the validation of an operation says of any kind.                   *)
LEMMA ValidIsKnown ==
  ASSUME NEW op, Plan!ValidateOperation(op) PROVE op.ok /\ Plan!NumbersOk(op)
BY DEF Plan!ValidateOperation

(* A number that was given is the number, and the fallback stands for none.*)
LEMMA UintIsNat ==
  ASSUME NEW v \in Given, NEW d \in Nat PROVE Plan!Uint(v, d) \in Nat
<1>1. CASE v = {}
  BY <1>1 DEF Plan!Uint
<1>2. CASE \E n \in Nat : v = {n}
  BY <1>2 DEF Plan!Uint, Plan!The
<1>. QED BY <1>1, <1>2 DEF Given

(* A built operation of a kind with one bounded wait: its timeout is a     *)
(* number; a lookup has one or two of them.                                *)
LEMMA SingleShape ==
  ASSUME WidthAssumption, NEW o, IsRequest(o), NEW op \in Built(o), op.ok, op.kind \in Single
  PROVE  /\ op.f.timeout \in Nat
         /\ op.kind = "dns" => op.f.qtypes \in {1, 2}
<1>0. o.timeout \in Given
  BY DEF IsRequest, Numbers
<1>1. op \in {Plan!WifiFreshScanOperation(o), Plan!WifiConnectOperation(o), Plan!WifiWaitConnectedOperation(o),
             Plan!WifiAssertOperation(o), Plan!WifiMonitorOperation(o), Plan!WifiReconnectOperation(o),
             Plan!GlobalIPOperation(o), Plan!DNSOperation(o)}
  <2>1. Plan!WifiEHTOperation(o).ok => Plan!WifiEHTOperation(o).kind = "wifi_diagnostics"
    BY DEF Plan!WifiEHTOperation, Plan!If, Plan!NewOperation, Plan!Refused
  <2>2. /\ Plan!WifiCycleOperation(o).ok => Plan!WifiCycleOperation(o).kind = "cycle"
        /\ Plan!PingOperation(o).ok => Plan!PingOperation(o).kind = "ping"
        /\ Plan!TracerouteOperation(o).ok => Plan!TracerouteOperation(o).kind = "traceroute"
        /\ Plan!PathMTUOperation(o).ok => Plan!PathMTUOperation(o).kind = "path_mtu"
        /\ Plan!DownloadOperation(o).ok => Plan!DownloadOperation(o).kind = "wget"
        /\ Plan!HTTPOperation(o).ok => Plan!HTTPOperation(o).kind = "http"
    BY DEF Plan!WifiCycleOperation, Plan!PingOperation, Plan!TracerouteOperation, Plan!PathMTUOperation,
           Plan!DownloadOperation, Plan!HTTPOperation, Plan!If, Plan!NewOperation, Plan!Refused
  <2>3. /\ Plan!WifiStatusOperation.kind = "wifi_status"
        /\ Plan!WifiDiagnosticsOperation.kind = "wifi_diagnostics"
        /\ Plan!WifiCapabilitiesOperation.kind = "wifi_capabilities"
        /\ Plan!WifiDisconnectOperation.kind = "disconnect" /\ Plan!WifiForgetOperation(o).kind = "forget"
        /\ Plan!IPStatusOperation.kind = "ip_status"
        /\ Plan!WifiScanOperation(o).ok => Plan!WifiScanOperation(o).kind = "wifi_scan"
        /\ Plan!WifiScanDetailOperation(o).ok => Plan!WifiScanDetailOperation(o).kind = "scan_detail"
    BY DEF Plan!WifiStatusOperation, Plan!WifiDiagnosticsOperation, Plan!WifiCapabilitiesOperation,
           Plan!WifiDisconnectOperation, Plan!WifiForgetOperation, Plan!IPStatusOperation,
           Plan!WifiScanOperation, Plan!WifiScanDetailOperation, Plan!If, Plan!NewOperation, Plan!Refused
  <2>. QED BY <2>1, <2>2, <2>3 DEF Built, Single
<1>2. op.f.timeout \in Nat
  <2>. USE <1>0, UintIsNat DEF Plan!If, Plan!NewOperation, Plan!Refused
  <2>1. CASE op = Plan!WifiFreshScanOperation(o)
    BY <2>1 DEF Plan!WifiFreshScanOperation
  <2>2. CASE op = Plan!WifiConnectOperation(o)
    BY <2>2 DEF Plan!WifiConnectOperation
  <2>3. CASE op = Plan!WifiWaitConnectedOperation(o)
    BY <2>3 DEF Plan!WifiWaitConnectedOperation
  <2>4. CASE op = Plan!WifiAssertOperation(o)
    BY <2>4 DEF Plan!WifiAssertOperation
  <2>5. CASE op = Plan!WifiMonitorOperation(o)
    BY <2>5 DEF Plan!WifiMonitorOperation
  <2>6. CASE op = Plan!WifiReconnectOperation(o)
    BY <2>6 DEF Plan!WifiReconnectOperation
  <2>7. CASE op = Plan!GlobalIPOperation(o)
    BY <2>7 DEF Plan!GlobalIPOperation
  <2>8. CASE op = Plan!DNSOperation(o)
    BY <2>8 DEF Plan!DNSOperation
  <2>. QED BY <1>1, <2>1, <2>2, <2>3, <2>4, <2>5, <2>6, <2>7, <2>8
<1>3. op.kind = "dns" => op = Plan!DNSOperation(o)
  BY <1>1 DEF Plan!WifiFreshScanOperation, Plan!WifiConnectOperation, Plan!WifiWaitConnectedOperation,
     Plan!WifiAssertOperation, Plan!WifiMonitorOperation, Plan!WifiReconnectOperation,
     Plan!GlobalIPOperation, Plan!If, Plan!NewOperation, Plan!Refused
<1>4. op = Plan!DNSOperation(o) => op.f.qtypes \in {1, 2}
  BY DEF Plan!DNSOperation, Plan!If, Plan!NewOperation, Plan!Refused
<1>. QED BY <1>2, <1>3, <1>4

(* The deadlines of the kinds in Single.                                   *)
LEMMA SingleOutlasts ==
  ASSUME WidthAssumption, NEW o, IsRequest(o), NEW op \in Built(o), op.ok, op.kind \in Single
  PROVE  Plan!AgentTime(op) < Plan!TimeoutFor(op)
<1>1. op.f.timeout \in Nat /\ (op.kind = "dns" => op.f.qtypes \in {1, 2})
  BY SingleShape
<1>2. CASE op.kind = "dns"
  <2>1. PICK q \in {1, 2} : op.f.qtypes = q
    BY <1>1, <1>2
  <2>2. PICK t \in Nat : op.f.timeout = t
    BY <1>1
  <2>3. Plan!AgentTime(op) = q * t
    BY <1>2, <2>1, <2>2 DEF Plan!AgentTime
  <2>4. Plan!TimeoutFor(op) = q * (IF t = 0 THEN 5000 ELSE t) + 3000
    BY <1>2, <2>1, <2>2 DEF Plan!TimeoutFor, Plan!Fallback, Plan!Millis
  <2>. QED BY <2>3, <2>4
<1>3. CASE op.kind = "global_ip"
  <2>2. PICK t \in Nat : op.f.timeout = t
    BY <1>1
  <2>3. Plan!AgentTime(op) = t
    BY <1>3, <2>2 DEF Plan!AgentTime
  <2>4. PICK n \in {1, 2} : Plan!FamilyCount(op) = n
    BY DEF Plan!FamilyCount
  <2>5. Plan!TimeoutFor(op) = n * (IF t = 0 THEN 5000 ELSE t) + 3000
    BY <1>3, <2>2, <2>4 DEF Plan!TimeoutFor, Plan!Fallback, Plan!Millis
  <2>. QED BY <2>3, <2>5
<1>4. PICK t \in Nat : op.f.timeout = t
  BY <1>1
<1>5. CASE op.kind = "connect"
  <2>1. Plan!TimeoutFor(op) = (IF t = 0 THEN 60000 ELSE t) + 5000
    BY <1>4, <1>5 DEF Plan!TimeoutFor, Plan!Fallback, Plan!Millis, Plan!Margin
  <2>. QED BY <1>4, <1>5, <2>1 DEF Plan!AgentTime
<1>6. CASE op.kind = "fresh_scan"
  <2>1. Plan!TimeoutFor(op) = (IF t = 0 THEN 20000 ELSE t) + 5000
    BY <1>4, <1>6 DEF Plan!TimeoutFor, Plan!Fallback, Plan!Millis, Plan!Margin
  <2>. QED BY <1>4, <1>6, <2>1 DEF Plan!AgentTime
<1>7. CASE op.kind = "wait"
  <2>1. Plan!TimeoutFor(op) = (IF t = 0 THEN 35000 ELSE t) + 5000
    BY <1>4, <1>7 DEF Plan!TimeoutFor, Plan!Fallback, Plan!Millis, Plan!Margin
  <2>. QED BY <1>4, <1>7, <2>1 DEF Plan!AgentTime
<1>8. CASE op.kind = "assert"
  <2>1. Plan!TimeoutFor(op) = (IF t = 0 THEN 10000 ELSE t) + 5000
    BY <1>4, <1>8 DEF Plan!TimeoutFor, Plan!Fallback, Plan!Millis, Plan!Margin
  <2>. QED BY <1>4, <1>8, <2>1 DEF Plan!AgentTime
<1>9. CASE op.kind = "monitor"
  <2>1. Plan!TimeoutFor(op) = (IF t = 0 THEN 10000 ELSE t) + 5000
    BY <1>4, <1>9 DEF Plan!TimeoutFor, Plan!Fallback, Plan!Millis, Plan!Margin
  <2>. QED BY <1>4, <1>9, <2>1 DEF Plan!AgentTime
<1>10. CASE op.kind = "reconnect"
  <2>1. Plan!TimeoutFor(op) = (IF t = 0 THEN 35000 ELSE t) + 5000
    BY <1>4, <1>10 DEF Plan!TimeoutFor, Plan!Fallback, Plan!Millis, Plan!Margin
  <2>. QED BY <1>4, <1>10, <2>1 DEF Plan!AgentTime
<1>. QED BY <1>2, <1>3, <1>5, <1>6, <1>7, <1>8, <1>9, <1>10 DEF Single

(* An operation with several waits is of its builder, and its numbers are  *)
(* what that builder makes of the request.                                 *)
LEMMA SeveralShape ==
  ASSUME WidthAssumption, NEW o, IsRequest(o), NEW op \in Built(o), op.ok, op.kind \in Several
  PROVE  /\ op.o = o /\ op.f.timeout \in Nat
         /\ op.kind = "cycle" => op.f.timeout # 0 /\ op.f.count \in Nat \ {0} /\ op.f.pause \in Nat
<1>0. o.timeout \in Given /\ o.count \in Given /\ o.pause \in Given
  BY DEF IsRequest, Numbers
<1>1. op \in {Plan!PingOperation(o), Plan!TracerouteOperation(o), Plan!PathMTUOperation(o),
             Plan!DownloadOperation(o), Plan!HTTPOperation(o), Plan!WifiCycleOperation(o)}
  <2>1. /\ Plan!WifiEHTOperation(o).ok => Plan!WifiEHTOperation(o).kind = "wifi_diagnostics"
        /\ Plan!WifiScanOperation(o).ok => Plan!WifiScanOperation(o).kind = "wifi_scan"
        /\ Plan!WifiScanDetailOperation(o).ok => Plan!WifiScanDetailOperation(o).kind = "scan_detail"
    BY DEF Plan!WifiEHTOperation, Plan!WifiScanOperation, Plan!WifiScanDetailOperation, Plan!If,
           Plan!NewOperation, Plan!Refused
  <2>2. \A b \in {Plan!WifiFreshScanOperation(o), Plan!WifiConnectOperation(o),
                  Plan!WifiWaitConnectedOperation(o), Plan!WifiAssertOperation(o),
                  Plan!WifiMonitorOperation(o), Plan!WifiReconnectOperation(o),
                  Plan!GlobalIPOperation(o), Plan!DNSOperation(o)} : b.ok => b.kind \in Single
    BY DEF Plan!WifiFreshScanOperation, Plan!WifiConnectOperation, Plan!WifiWaitConnectedOperation,
           Plan!WifiAssertOperation, Plan!WifiMonitorOperation, Plan!WifiReconnectOperation,
           Plan!GlobalIPOperation, Plan!DNSOperation, Plan!If, Plan!NewOperation, Plan!Refused, Single
  <2>3. /\ Plan!WifiStatusOperation.kind = "wifi_status"
        /\ Plan!WifiDiagnosticsOperation.kind = "wifi_diagnostics"
        /\ Plan!WifiCapabilitiesOperation.kind = "wifi_capabilities"
        /\ Plan!WifiDisconnectOperation.kind = "disconnect" /\ Plan!WifiForgetOperation(o).kind = "forget"
        /\ Plan!IPStatusOperation.kind = "ip_status"
    BY DEF Plan!WifiStatusOperation, Plan!WifiDiagnosticsOperation, Plan!WifiCapabilitiesOperation,
           Plan!WifiDisconnectOperation, Plan!WifiForgetOperation, Plan!IPStatusOperation,
           Plan!NewOperation
  <2>. QED BY <2>1, <2>2, <2>3 DEF Built, Single, Several
<1>2. op.o = o /\ op.f.timeout \in Nat
  <2>. USE <1>0, UintIsNat DEF Plan!If, Plan!NewOperation, Plan!Refused
  <2>1. CASE op = Plan!PingOperation(o)
    <3>1. Plan!Uint(o.count, 3) * 2000 + 3000 \in Nat
      OBVIOUS
    <3>. QED BY <2>1, <3>1 DEF Plan!PingOperation
  <2>2. CASE op = Plan!TracerouteOperation(o)
    BY <2>2 DEF Plan!TracerouteOperation
  <2>3. CASE op = Plan!PathMTUOperation(o)
    BY <2>3 DEF Plan!PathMTUOperation
  <2>4. CASE op = Plan!DownloadOperation(o)
    BY <2>4 DEF Plan!DownloadOperation
  <2>5. CASE op = Plan!HTTPOperation(o)
    BY <2>5 DEF Plan!HTTPOperation
  <2>6. CASE op = Plan!WifiCycleOperation(o)
    BY <2>6 DEF Plan!WifiCycleOperation
  <2>. QED BY <1>1, <2>1, <2>2, <2>3, <2>4, <2>5, <2>6
<1>3. op.kind = "cycle" => op = Plan!WifiCycleOperation(o)
  BY <1>1 DEF Plan!PingOperation, Plan!TracerouteOperation, Plan!PathMTUOperation,
     Plan!DownloadOperation, Plan!HTTPOperation, Plan!If, Plan!NewOperation, Plan!Refused
<1>4. ASSUME op = Plan!WifiCycleOperation(o)
      PROVE  op.f.timeout # 0 /\ op.f.count \in Nat \ {0} /\ op.f.pause \in Nat
  <2>1. /\ op.f.timeout = Plan!Uint(o.timeout, 45000) /\ op.f.count = Plan!Uint(o.count, 3)
        /\ op.f.pause = Plan!Uint(o.pause, 1000) /\ Plan!UintOk(o.timeout) /\ Plan!UintOk(o.count)
    BY <1>4 DEF Plan!WifiCycleOperation, Plan!ConnectOk, Plan!If, Plan!NewOperation, Plan!Refused
  <2>2. ASSUME NEW v \in Given, Plan!UintOk(v), NEW d \in Nat \ {0} PROVE Plan!Uint(v, d) # 0
    <3>1. CASE v = {}
      BY <3>1 DEF Plan!Uint
    <3>2. CASE \E n \in Nat : v = {n}
      BY <2>2, <3>2 DEF Plan!Uint, Plan!The, Plan!UintOk, WidthAssumption
    <3>. QED BY <2>2, <3>1, <3>2 DEF Given
  <2>. QED BY <1>0, <2>1, <2>2, UintIsNat
<1>. QED BY <1>2, <1>3, <1>4

(* The time of a probe before and in its process.                          *)
LEMMA ProbeTime ==
  ASSUME NEW t \in Nat, NEW h
  PROVE  Plan!AgentProbe(t, h) = (IF h = "literal" THEN 0 ELSE 2 * (IF t < 2000 THEN t ELSE 2000))
                                   + (IF t < 5000 THEN t ELSE 5000) + t
BY DEF Plan!AgentProbe, Plan!Least

(* A valid cycle that pings has a host of a known form.                    *)
LEMMA CycleHost ==
  ASSUME NEW op, Plan!ValidateOperation(op), op.kind = "cycle"
  PROVE  op.ok /\ (op.o.ping => op.o.host \in {"name", "literal"})
<1>1. op.ok /\ Plan!CycleValid(op)
  BY Zenon DEF Plan!ValidateOperation
<1>. QED BY <1>1 DEF Plan!CycleValid, Plan!HostOk

(* The deadline of a cycle, by its own rule.                               *)
LEMMA CycleDeadline ==
  ASSUME NEW op, op.kind = "cycle"
  PROVE  Plan!TimeoutFor(op) =
           op.f.count * (Plan!Millis(op, 60000) + op.f.pause + 10000
                           + (IF op.o.ping THEN 9000 ELSE 0)
                           + (IF Plan!Fetches(op) THEN 10000 ELSE 0)) + 10000
<1>1. op.kind \notin DOMAIN Plan!Fallback
  BY DEF Plan!Fallback
<1>. QED BY <1>1 DEF Plan!TimeoutFor

(* A cycle ends in time unless it may overrun: its reserve of ten seconds  *)
(* a connection covers all but a ping by name with the settling wait.      *)
LEMMA CycleOutlasts ==
  ASSUME WidthAssumption, NEW o, IsRequest(o), NEW op \in Built(o), Plan!ValidateOperation(op),
         op.kind = "cycle"
  PROVE  Plan!AgentTime(op) < Plan!TimeoutFor(op) <=> ~Plan!MayOverrun(op)
<1> DEFINE t == op.f.timeout
           c == op.f.count
           p == op.f.pause
           h == IF Plan!Fetches(op) THEN 10000 ELSE 0
           f == IF op.o.forget THEN 0 ELSE 1500
           probe == IF op.o.ping THEN Plan!AgentProbe(9000, op.o.host) ELSE 0
           allowed == IF op.o.ping THEN 9000 ELSE 0
           late == op.o.ping /\ op.o.host = "name" /\ ~op.o.forget
<1>1. op.ok /\ (op.o.ping => op.o.host \in {"name", "literal"})
  BY CycleHost
<1>2. op.o = o /\ t \in Nat \ {0} /\ c \in Nat \ {0} /\ p \in Nat
  BY <1>1, SeveralShape DEF Several
<1>3. Plan!AgentTime(op) = c * (t + f + probe + h) + (c - 1) * p
  BY DEF Plan!AgentTime, Plan!AgentCycle
<1>4. Plan!TimeoutFor(op) = c * (t + p + 10000 + allowed + h) + 10000
  <2>1. Plan!Millis(op, 60000) = t
    BY <1>2 DEF Plan!Millis
  <2>. QED BY <2>1, CycleDeadline
<1>5. Plan!MayOverrun(op) <=> late /\ 500 * c >= 10000 + p
  BY DEF Plan!MayOverrun
<1>6. h \in {0, 10000}
  OBVIOUS
<1>7. \/ probe = 0 /\ allowed = 0 /\ f \in {0, 1500} /\ ~late
      \/ probe = 14000 /\ allowed = 9000 /\ f \in {0, 1500} /\ ~late
      \/ probe = 18000 /\ allowed = 9000 /\ f = 0 /\ ~late
      \/ probe = 18000 /\ allowed = 9000 /\ f = 1500 /\ late
  <2>1. Plan!AgentProbe(9000, "literal") = 14000 /\ Plan!AgentProbe(9000, "name") = 18000
    BY ProbeTime
  <2>2. CASE ~op.o.ping
    BY <2>2
  <2>3. CASE op.o.ping /\ op.o.host = "literal"
    BY <2>1, <2>3
  <2>4. CASE op.o.ping /\ op.o.host = "name"
    BY <2>1, <2>4
  <2>. QED BY <1>1, <2>2, <2>3, <2>4
<1>. HIDE DEF t, c, p, h, f, probe, allowed, late
<1>8. CASE late
  <2>1. Plan!AgentTime(op) = c * (t + 19500 + h) + (c - 1) * p
    BY <1>2, <1>3, <1>6, <1>7, <1>8
  <2>2. Plan!TimeoutFor(op) = c * (t + p + 19000 + h) + 10000
    BY <1>2, <1>4, <1>6, <1>7, <1>8
  <2>3. /\ c * (t + 19500 + h) + (c - 1) * p = c * t + 19500 * c + c * h + c * p - p
        /\ c * (t + p + 19000 + h) + 10000 = c * t + c * p + 19000 * c + c * h + 10000
    BY <1>2, <1>6
  <2>4. c * t \in Nat /\ c * h \in Nat /\ c * p \in Nat
    BY <1>2, <1>6
  <2>. QED BY <1>2, <1>5, <1>8, <2>1, <2>2, <2>3, <2>4
<1>9. CASE ~late
  <2>1. PICK d \in {0, 1500, 14000, 15500, 18000} :
          /\ Plan!AgentTime(op) = c * (t + d + h) + (c - 1) * p
          /\ d < 10000 + allowed /\ allowed \in {0, 9000}
    BY <1>2, <1>3, <1>6, <1>7, <1>9
  <2>2. /\ c * (t + d + h) + (c - 1) * p = c * t + c * d + c * h + c * p - p
        /\ c * (t + p + 10000 + allowed + h) + 10000 = c * t + c * p + c * (10000 + allowed) + c * h + 10000
    BY <1>2, <1>6, <2>1
  <2>3. c * d <= c * (10000 + allowed)
    BY <1>2, <2>1
  <2>4. c * t \in Nat /\ c * h \in Nat /\ c * p \in Nat /\ c * d \in Nat /\ c * (10000 + allowed) \in Nat
    BY <1>2, <1>6, <2>1
  <2>. QED BY <1>2, <1>4, <1>5, <1>9, <2>1, <2>2, <2>3, <2>4
<1>. QED BY <1>8, <1>9

(* The deadlines of the other kinds in Several.                            *)
LEMMA SeveralOutlast ==
  ASSUME WidthAssumption, NEW o, IsRequest(o), NEW op \in Built(o), Plan!ValidateOperation(op),
         op.kind \in Several \ {"cycle"}
  PROVE  Plan!AgentTime(op) < Plan!TimeoutFor(op) <=> ~Plan!MayOverrun(op)
<1>1. op.ok /\ (op.kind \in {"ping", "traceroute", "path_mtu"} => op.o.host \in {"name", "literal"})
  BY DEF Plan!ValidateOperation, Plan!HostOk
<1>2. PICK t \in Nat : op.f.timeout = t
  BY <1>1, SeveralShape
<1>3. Plan!TimeoutFor(op) = Plan!Millis(op, Plan!Fallback[op.kind]) + Plan!Margin(op.kind)
  <2>1. op.kind \in DOMAIN Plan!Fallback
    BY DEF Several, Plan!Fallback
  <2>. QED BY <2>1 DEF Plan!TimeoutFor, Several
<1>4. PICK n \in Nat : Plan!Fallback[op.kind] = n /\ n >= 10000
  BY DEF Several, Plan!Fallback
<1>5. Plan!TimeoutFor(op) = (IF t = 0 THEN n ELSE t) + (IF op.kind \in {"wget", "traceroute"} THEN 5000 ELSE 3000)
  BY <1>2, <1>3, <1>4 DEF Several, Plan!Millis, Plan!Margin
<1>6. CASE op.kind \in {"http", "wget"}
  <2>1. Plan!AgentTime(op) = 2 * t
    BY <1>2, <1>6 DEF Plan!AgentTime
  <2>2. Plan!MayOverrun(op) <=> t >= (IF op.kind = "http" THEN 3000 ELSE 5000)
    BY <1>2, <1>6 DEF Plan!MayOverrun
  <2>. QED BY <1>4, <1>5, <1>6, <2>1, <2>2
<1>7. CASE op.kind \in {"ping", "path_mtu", "traceroute"}
  <2>1. Plan!AgentTime(op) = Plan!AgentProbe(t, op.o.host)
    BY <1>2, <1>7 DEF Plan!AgentTime
  <2>2. CASE op.o.host = "name"
    <3>1. Plan!AgentTime(op) = 2 * (IF t < 2000 THEN t ELSE 2000) + (IF t < 5000 THEN t ELSE 5000) + t
      BY <2>1, <2>2, ProbeTime
    <3>2. Plan!MayOverrun(op) <=> t >= (IF op.kind = "traceroute" THEN 1667 ELSE 1000)
      BY <1>2, <1>7, <2>2 DEF Plan!MayOverrun
    <3>. QED BY <1>4, <1>5, <1>7, <3>1, <3>2
  <2>3. CASE op.o.host = "literal"
    <3>1. Plan!AgentTime(op) = (IF t < 5000 THEN t ELSE 5000) + t
      BY <2>1, <2>3, ProbeTime
    <3>2. Plan!MayOverrun(op) <=> t >= (IF op.kind = "traceroute" THEN 5000 ELSE 3000)
      BY <1>2, <1>7, <2>3 DEF Plan!MayOverrun
    <3>. QED BY <1>4, <1>5, <1>7, <3>1, <3>2
  <2>. QED BY <1>1, <1>7, <2>2, <2>3
<1>. QED BY <1>6, <1>7 DEF Several

(* Commands!WaitsOutlastAgent (command.TimeoutFor), for every request and  *)
(* every kind of command: the controller's deadline is later than the end  *)
(* of the agent's bounded waits exactly for the commands that MayOverrun   *)
(* does not name.                                                          *)
THEOREM WaitsOutlast ==
  ASSUME WidthAssumption, NEW o, IsRequest(o), NEW op \in Built(o)
  PROVE  Plan!WaitsOutlastAgent(op)
<1> SUFFICES ASSUME Plan!ValidateOperation(op)
             PROVE  Plan!AgentTime(op) < Plan!TimeoutFor(op) <=> ~Plan!MayOverrun(op)
  BY DEF Plan!WaitsOutlastAgent
<1>1. CASE op.kind \in Several
  BY <1>1, CycleOutlasts, SeveralOutlast
<1>2. CASE op.kind \in Single
  <2>1. ~Plan!MayOverrun(op)
    BY <1>2 DEF Plan!MayOverrun, Single
  <2>. QED BY <1>2, <2>1, ValidIsKnown, SingleOutlasts
<1>3. CASE op.kind \notin Single \cup Several
  <2>1. ~Plan!MayOverrun(op) /\ Plan!AgentTime(op) = 0
    BY <1>3 DEF Plan!MayOverrun, Plan!AgentTime, Single, Several
  <2>2. Plan!TimeoutFor(op) \in {15000, 20000, 30000}
    <3>1. op.kind \notin DOMAIN Plan!Fallback
      BY <1>3 DEF Plan!Fallback, Single, Several
    <3>. QED BY <1>3, <3>1 DEF Plan!TimeoutFor, Single, Several
  <2>. QED BY <2>1, <2>2
<1>. QED BY <1>1, <1>2, <1>3

(* Commands!NumbersSurvive (PingOperation, validateMessage).               *)
THEOREM NumbersKept ==
  ASSUME WidthAssumption, NEW o, IsRequest(o), NEW op \in Built(o)
  PROVE  Plan!NumbersSurvive(op)
<1> SUFFICES ASSUME Plan!ValidateOperation(op) PROVE
      /\ \A key \in DOMAIN op.f : op.f[key] <= IntMax
      /\ op.kind = "ping" /\ op.o.timeout = {} => op.f.timeout \div 2000 > op.f.count
  BY DEF Plan!NumbersSurvive
<1>1. \A key \in DOMAIN op.f : op.f[key] <= IntMax
  BY ValidIsKnown DEF Plan!NumbersOk, WidthAssumption
<1>2. ASSUME op.kind = "ping", op.o.timeout = {} PROVE op.f.timeout \div 2000 > op.f.count
  <2>1. op = Plan!PingOperation(o) /\ op.ok
    <3>1. /\ Plan!WifiStatusOperation.kind # "ping" /\ Plan!WifiDiagnosticsOperation.kind # "ping"
          /\ Plan!WifiCapabilitiesOperation.kind # "ping" /\ Plan!WifiDisconnectOperation.kind # "ping"
          /\ Plan!WifiForgetOperation(o).kind # "ping" /\ Plan!IPStatusOperation.kind # "ping"
      BY DEF Plan!WifiStatusOperation, Plan!WifiDiagnosticsOperation, Plan!WifiCapabilitiesOperation,
             Plan!WifiDisconnectOperation, Plan!WifiForgetOperation, Plan!IPStatusOperation, Plan!NewOperation
    <3>2. Plan!WifiEHTOperation(o).ok => Plan!WifiEHTOperation(o).kind = "wifi_diagnostics"
      BY DEF Plan!WifiEHTOperation, Plan!If, Plan!NewOperation, Plan!Refused
    <3>3. /\ Plan!WifiScanOperation(o).ok => Plan!WifiScanOperation(o).kind # "ping"
          /\ Plan!WifiScanDetailOperation(o).ok => Plan!WifiScanDetailOperation(o).kind # "ping"
          /\ Plan!TracerouteOperation(o).ok => Plan!TracerouteOperation(o).kind # "ping"
          /\ Plan!PathMTUOperation(o).ok => Plan!PathMTUOperation(o).kind # "ping"
      BY DEF Plan!WifiScanOperation, Plan!WifiScanDetailOperation,
             Plan!TracerouteOperation, Plan!PathMTUOperation, Plan!If, Plan!NewOperation, Plan!Refused
    <3>4. /\ Plan!DownloadOperation(o).ok => Plan!DownloadOperation(o).kind # "ping"
          /\ Plan!HTTPOperation(o).ok => Plan!HTTPOperation(o).kind # "ping"
          /\ Plan!WifiCycleOperation(o).ok => Plan!WifiCycleOperation(o).kind # "ping"
      BY DEF Plan!WifiCycleOperation, Plan!DownloadOperation, Plan!HTTPOperation, Plan!If,
             Plan!NewOperation, Plan!Refused
    <3>5. \A b \in {Plan!WifiFreshScanOperation(o), Plan!WifiConnectOperation(o),
                    Plan!WifiWaitConnectedOperation(o), Plan!WifiAssertOperation(o),
                    Plan!WifiMonitorOperation(o), Plan!WifiReconnectOperation(o),
                    Plan!GlobalIPOperation(o), Plan!DNSOperation(o)} : b.ok => b.kind # "ping"
      BY DEF Plan!WifiFreshScanOperation, Plan!WifiConnectOperation, Plan!WifiWaitConnectedOperation,
             Plan!WifiAssertOperation, Plan!WifiMonitorOperation, Plan!WifiReconnectOperation,
             Plan!GlobalIPOperation, Plan!DNSOperation, Plan!If, Plan!NewOperation, Plan!Refused
    <3>. QED BY <1>2, <3>1, <3>2, <3>3, <3>4, <3>5, ValidIsKnown DEF Built
  <2>2. op.o = o
    BY <2>1 DEF Plan!PingOperation, Plan!If, Plan!NewOperation, Plan!Refused
  <2>3. PICK c \in Nat : Plan!Uint(o.count, 3) = c
    BY UintIsNat DEF IsRequest, Numbers
  <2>4. op.f.count = c /\ op.f.timeout = c * 2000 + 3000
    BY <1>2, <2>1, <2>2, <2>3 DEF Plan!PingOperation, Plan!If, Plan!NewOperation, Plan!Refused, Plan!Uint
  <2>. QED BY <2>4
<1>. QED BY <1>1, <1>2

(* A name that was given.                                                  *)
Named(name) == name # ""

(* Checks, networks and the operations of a builder that did not refuse    *)
(* are records with at least these fields.                                 *)
IsOperation(op) == op.ok => {"kind", "sel"} \subseteq DOMAIN op
IsCheck(c) == {"id", "op", "gateway", "policy"} \subseteq DOMAIN c /\ IsOperation(c.op)
IsNetwork(n) ==
  {"o", "ssid", "bssid", "netid", "rotation", "disconnectAfter", "forgetAfter", "readOnly",
   "activeProbes", "checks"} \subseteq DOMAIN n

(* A plan of checks and networks of this form.                             *)
IsPlan(plan, Check) ==
  /\ \A c \in Check : IsCheck(c)
  /\ plan.checks \in Seq(Check)
  /\ \A i \in DOMAIN plan.networks : /\ IsNetwork(plan.networks[i])
                                     /\ plan.networks[i].checks \in Seq(Check)

(* The rotation changes nothing of what a network is addressed by.         *)
LEMMA RotatedKeeps ==
  ASSUME NEW n, IsNetwork(n)
  PROVE  LET r == Plan!Rotated(n)
         IN /\ r.ssid = n.ssid /\ r.bssid = n.bssid /\ r.netid = n.netid /\ r.readOnly = n.readOnly
            /\ r.activeProbes = n.activeProbes /\ r.checks = n.checks
BY DEF IsNetwork, Plan!Rotated

(* A compiled check has the operation of its check, bound to the network.  *)
LEMMA CompiledOperation ==
  ASSUME NEW c, IsCheck(c), NEW net, NEW id
  PROVE  LET s == Plan!CompileCheck(c, net, id)
         IN /\ s.gateway = c.gateway
            /\ c.gateway = {} => s.op = Plan!BindSelector(c.op, net)
<1> DEFINE own == IF c.id # <<>> THEN c.id ELSE id
           s == Plan!CompileStep(c, own)
<1>1. Plan!CompileCheck(c, net, id) = IF s.gateway = {} THEN [s EXCEPT !.op = Plan!BindSelector(s.op, net)] ELSE s
  BY DEF Plan!CompileCheck
<1> HIDE DEF own
<1>2. s.gateway = c.gateway /\ s.op = c.op /\ DOMAIN s = DOMAIN c
  BY DEF IsCheck, Plan!CompileStep
<1> HIDE DEF s
<1>. QED BY <1>1, <1>2 DEF IsCheck

(* The selector of a bound operation is the target's where the target has  *)
(* one.                                                                    *)
LEMMA BoundOperation ==
  ASSUME NEW op, IsOperation(op), op.ok, NEW net, Named(net.ssid)
  PROVE  LET b == Plan!BindSelector(op, net)
         IN /\ b.kind = op.kind
            /\ op.kind \in Plan!Selecting =>
                 /\ b.sel.ssid = net.ssid
                 /\ net.bssid # {} => b.sel.bssid = net.bssid
                 /\ net.netid # {} => b.sel.netid = net.netid
<1>1. CASE op.kind \in Plan!Selecting
  <2> DEFINE b == Plan!BindSelector(op, net)
  <2>1. b = [op EXCEPT !.sel = Plan!Bound(op.sel, net)]
    BY <1>1 DEF Plan!BindSelector
  <2>2. b.kind = op.kind /\ b.sel = Plan!Bound(op.sel, net)
    BY <2>1 DEF IsOperation
  <2>3. /\ b.sel.ssid = net.ssid
        /\ net.bssid # {} => b.sel.bssid = net.bssid
        /\ net.netid # {} => b.sel.netid = net.netid
    <3>1. Plan!Bound(op.sel, net) =
            [ssid |-> net.ssid,
             bssid |-> IF net.bssid # {} THEN net.bssid ELSE op.sel.bssid,
             netid |-> IF net.netid # {} THEN net.netid ELSE op.sel.netid]
      BY Zenon DEF Plan!Bound, Named
    <3>. QED BY <2>2, <3>1
  <2>. QED BY <2>2, <2>3
<1>2. CASE op.kind \notin Plan!Selecting
  BY <1>2 DEF Plan!BindSelector
<1>. QED BY <1>1, <1>2

(* PlanCompiler!BoundToTarget (compileCheck, bindSelector), for every plan *)
(* and all agents: whatever selector a check brought along, the compiled   *)
(* plan sends its command to its target, and what is only observed gets no *)
(* command that changes it.                                                *)
THEOREM StaysOnTarget ==
  ASSUME NEW Check, NEW plan, IsPlan(plan, Check), NEW agents
  PROVE  Plan!BoundToTarget(Plan!Compile(plan, agents))
<1> DEFINE p == Plan!Compile(plan, agents)
<1> SUFFICES ASSUME p.ok, NEW t \in Plan!ToSet(p.targets), NEW c \in Plan!ToSet(t.checks), c.gateway = {}
    PROVE /\ c.op.kind \in Plan!Selecting =>
               /\ c.op.sel.ssid = t.net.ssid
               /\ t.net.bssid # {} => Plan!AddrOf(c.op.sel.bssid) = Plan!AddrOf(t.net.bssid)
               /\ t.net.netid # {} => c.op.sel.netid = t.net.netid
          /\ t.net.readOnly => c.op.kind \in Plan!Observations /\ t.connect = <<>>
  BY Zenon DEF Plan!BoundToTarget
<1>1. /\ \A i \in DOMAIN plan.networks : Plan!TargetOk(plan, i, agents)
      /\ p.targets = [i \in DOMAIN plan.networks |-> Plan!CompileTarget(plan, i, agents)]
  BY DEF Plan!Compile, Plan!NoPlan
<1> HIDE DEF p
<1>2. PICK i \in DOMAIN plan.networks : t = Plan!CompileTarget(plan, i, agents)
  BY <1>1 DEF Plan!ToSet
<1> DEFINE net == Plan!Rotated(plan.networks[i])
           all == plan.checks \o net.checks
<1>3. /\ t.net = net
      /\ net.readOnly => t.connect = <<>>
      /\ t.checks = [j \in DOMAIN all |-> Plan!CompileCheck(all[j], net, Plan!CheckId(plan, i, j))]
  BY <1>2 DEF Plan!CompileTarget
<1>4. IsNetwork(plan.networks[i]) /\ plan.networks[i].checks \in Seq(Check)
  BY DEF IsPlan
<1>5. Named(net.ssid)
  BY <1>1, <1>4, RotatedKeeps DEF Plan!TargetOk, Plan!NetworkOk, Named
<1>6. all \in Seq(Check)
  BY <1>4, RotatedKeeps DEF IsPlan
<1>7. PICK j \in DOMAIN all : c = Plan!CompileCheck(all[j], net, Plan!CheckId(plan, i, j))
  BY <1>3 DEF Plan!ToSet
<1>8. Plan!CheckOk(all[j], net)
  BY <1>1 DEF Plan!TargetOk
<1> HIDE DEF net, all
<1>9. all[j] \in Check /\ IsCheck(all[j])
  BY <1>6 DEF IsPlan
<1>10. all[j].gateway = {} /\ c.op = Plan!BindSelector(all[j].op, net)
  BY <1>7, <1>9, CompiledOperation
<1>11. all[j].op.ok /\ Plan!ObservationOk(net, all[j])
  BY <1>8, <1>10, ValidIsKnown DEF Plan!CheckOk, Plan!StepOk
<1>12. IsOperation(all[j].op)
  BY <1>9 DEF IsCheck
<1>13. /\ c.op.kind = all[j].op.kind
       /\ all[j].op.kind \in Plan!Selecting =>
            /\ c.op.sel.ssid = net.ssid
            /\ net.bssid # {} => c.op.sel.bssid = net.bssid
            /\ net.netid # {} => c.op.sel.netid = net.netid
  BY <1>5, <1>10, <1>11, <1>12, BoundOperation
<1>14. net.readOnly => all[j].op.kind \in Plan!Observations
  BY <1>11 DEF Plan!ObservationOk, Plan!Observations
<1>. QED BY <1>3, <1>13, <1>14

LEMMA OneCardinality == \A A : Plan!Cardinality(A) = Cardinality(A)
  BY Zenon DEF Plan!Cardinality, Cardinality

(* PlanCompiler!ResolversAgree (bindAgents, ResolveAgentSnapshot), for all *)
(* selectors and agents.                                                   *)
THEOREM SameAgent ==
  ASSUME NEW selector, NEW agents
  PROVE  Plan!ResolversAgree(selector, agents)
<1> SUFFICES ASSUME Named(selector)
             PROVE  Plan!BindAgents(selector, agents) = Plan!ResolveAgentSnapshot(selector, agents)
  BY DEF Plan!ResolversAgree, Named
<1> DEFINE exact == Plan!Exact(selector, agents)
           prefix == Plan!Prefixed(selector, agents)
           longer == {i \in DOMAIN agents : agents[i].serial # "" /\ Plan!HasPrefix(agents[i].serial, selector)}
<1>1. exact = {} => prefix = longer
  BY Zenon DEF Plan!Exact, Plan!Prefixed
<1>2. exact = {} => Plan!Cardinality(exact) = 0
  BY FS_EmptySet, OneCardinality, Zenon
<1>3. /\ Plan!BindAgents(selector, agents) =
            IF Plan!Cardinality(exact) = 1 THEN <<agents[Plan!The(exact)]>>
            ELSE IF exact = {} /\ Plan!Cardinality(prefix) = 1 THEN <<agents[Plan!The(prefix)]>> ELSE <<>>
      /\ Plan!ResolveAgentSnapshot(selector, agents) =
            IF exact # {} THEN IF Plan!Cardinality(exact) = 1 THEN <<agents[Plan!The(exact)]>> ELSE <<>>
            ELSE IF Plan!Cardinality(longer) = 1 THEN <<agents[Plan!The(longer)]>> ELSE <<>>
  BY Zenon DEF Plan!BindAgents, Plan!ResolveAgentSnapshot, Named
<1> HIDE DEF longer
<1>4. CASE exact = {}
  <2>1. Plan!Cardinality(exact) # 1
    BY <1>2, <1>4
  <2>. QED BY <1>1, <1>3, <1>4, <2>1
<1>5. CASE exact # {}
  BY <1>3, <1>5
<1>. QED BY <1>4, <1>5

(* PlanCompiler!NamesTheirAgent (Server.ResolveAgent), for all texts and   *)
(* all agents: a name never means another agent, and who is meant stays    *)
(* the same when others leave.                                             *)
THEOREM AgentsKeepTheirNames ==
  ASSUME NEW text, NEW agents, IsFiniteSet(agents)
  PROVE  Plan!NamesTheirAgent(text, agents)
<1> DEFINE exact(S)  == {a \in S : Plan!AgentMatches(a, text)}
           prefix(S) == {a \in S : Plan!AgentPrefixMatches(a, text)}
           found(S)  == Plan!ResolveAgent(text, S)
<1>1. \A S : found(S) = IF text = <<>> THEN {}
                        ELSE IF exact(S) # {} THEN (IF Cardinality(exact(S)) = 1 THEN exact(S) ELSE {})
                        ELSE IF Cardinality(prefix(S)) = 1 THEN prefix(S) ELSE {}
  BY OneCardinality, Zenon DEF Plan!ResolveAgent
<1>2. ASSUME NEW S \in SUBSET agents, Cardinality(S) = 1 PROVE \E a : S = {a}
  BY <1>2, FS_Subset, FS_Singleton
<1>3. \A a \in agents : text \in a.names => a \in exact(agents)
  BY Zenon DEF Plan!AgentMatches
<1>4. \A S : exact(S) \subseteq S /\ prefix(S) \subseteq S
  OBVIOUS
<1>5. \A S \in SUBSET agents : exact(S) = exact(agents) \cap S /\ prefix(S) = prefix(agents) \cap S
  OBVIOUS
<1>. HIDE DEF exact, prefix, found
<1>6. ASSUME NEW a \in agents, text \in a.names PROVE found(agents) \subseteq {a}
  <2>1. a \in exact(agents)
    BY <1>3, <1>6
  <2>2. CASE Cardinality(exact(agents)) = 1
    <3>1. exact(agents) = {a}
      BY <1>2, <1>4, <2>1, <2>2
    <3>. QED BY <1>1, <2>1, <3>1, Zenon
  <2>3. CASE Cardinality(exact(agents)) # 1
    BY <1>1, <2>1, <2>3, Zenon
  <2>. QED BY <2>2, <2>3
<1>7. ASSUME NEW staying \in SUBSET agents, found(agents) # {}, found(agents) \subseteq staying
      PROVE  found(staying) = found(agents)
  <2>1. CASE exact(agents) # {}
    <3>1. found(agents) = exact(agents) /\ text # <<>> /\ Cardinality(exact(agents)) = 1
      BY <1>1, <1>7, <2>1, Zenon
    <3>2. exact(agents) \subseteq staying /\ exact(staying) = exact(agents) \cap staying
      BY <1>5, <1>7, <3>1, Zenon
    <3>3. exact(staying) = exact(agents)
      BY <3>2, Zenon
    <3>. QED BY <1>1, <2>1, <3>1, <3>3, Zenon
  <2>2. CASE exact(agents) = {}
    <3>1. found(agents) = prefix(agents) /\ text # <<>> /\ Cardinality(prefix(agents)) = 1
      BY <1>1, <1>7, <2>2, Zenon
    <3>2. /\ prefix(agents) \subseteq staying
          /\ prefix(staying) = prefix(agents) \cap staying /\ exact(staying) = {} \cap staying
      BY <1>5, <1>7, <2>2, <3>1, Zenon
    <3>3. prefix(staying) = prefix(agents) /\ exact(staying) = {}
      BY <3>2, Zenon
    <3>. QED BY <1>1, <3>1, <3>3, Zenon
  <2>. QED BY <2>1, <2>2
<1>. QED BY <1>6, <1>7, Zenon DEF Plan!NamesTheirAgent, found

=============================================================================

----------------------------- MODULE CheckPolicy -----------------------------
(***************************************************************************)
(* The policy of one check: how normalizePolicy (harness/runtime.go)       *)
(* accepts it and gives it a timeout, and how checkAttempted               *)
(* (harness/execute.go) works it off: Repeat repeats, each of samples that *)
(* poll until a first pass and then watch a stability window, each sample  *)
(* of up to Attempts attempts.  Time is a count of ticks and passes in     *)
(* operations and sleeps only; timers are exact.                           *)
(***************************************************************************)
EXTENDS Integers, Sequences

CONSTANTS
  Inputs,       (* the policies to consider, before normalisation          *)
  OpTimeout,    (* the timeout of the check's operation                    *)
  MaxOp,        (* bound on the duration of an operation                   *)
  MaxDuration,  (* largest time.Duration, for 2^63 - 1                     *)
  MaxRetained,  (* maxRetainedAttempts                                     *)
  Second,       (* the default interval                                    *)
  Causes,       (* the operator's interventions: a subset of {skip, cancel}*)
  Raw           (* what an operation may come to                           *)

ASSUME PolicyAssumption ==
  /\ MaxDuration \in Nat /\ OpTimeout \in 1 .. MaxDuration /\ MaxOp \in Nat
  /\ MaxRetained \in Nat /\ Second \in 1 .. MaxDuration
  /\ Causes \subseteq {"skip", "cancel"} /\ Raw \subseteq {"pass", "fail", "missing", "canceled"}

(* A policy as the plan gives it: the counts are uint32, the durations     *)
(* time.Duration, which may be negative.                                   *)
Durations == (-MaxDuration - 1) .. MaxDuration
ASSUME InputsAssumption ==
  Inputs \subseteq [attempts : Nat, repeat : Nat, delay : Durations, eventually : Durations,
                   stableFor : Durations, interval : Durations, timeout : Durations]

VARIABLES
  pol,        (* the policy in force                                       *)
  pc,         (* where checkAttempted stands                               *)
  now,        (* ticks since the check began                               *)
  repeat, number,                  (* loop counters; see tally for samples *)
  eventual,   (* eventualDeadline                                          *)
  stable,     (* stableDeadline, or -1 before the first pass               *)
  last,       (* outcome of the last attempt                               *)
  report,     (* report.Outcome                                            *)
  cause,      (* the operator's intervention, or "none"                    *)
  tally,      (* len(report.Attempts)                                      *)
  ends,       (* how each finished repeat ended (history)                  *)
  firstPass   (* when the first pass of the repeat was judged, or -1       *)
              (* (history)                                                 *)

vars == <<pol, pc, now, repeat, number, eventual, stable, last, report, cause,
          tally, ends, firstPass>>

-----------------------------------------------------------------------------
(* normalizePolicy                                                         *)

(* Addition of two durations, which wraps.                                 *)
Plus(x, y) == IF x + y > MaxDuration THEN x + y - 2 * (MaxDuration + 1) ELSE x + y

Default(x, d) == IF x = 0 THEN d ELSE x

Samples(window, interval) == IF window > 0 THEN 1 + (window \div interval) + 1 ELSE 1

(* Fault: the sum of the attempts and the windows is not checked.          *)
TimeoutUnchecked(p, samples, window) ==
  LET t == (p.attempts * p.repeat * samples * (OpTimeout + p.delay) + window * p.repeat)
             % (2 * (MaxDuration + 1))
  IN IF t > MaxDuration THEN t - 2 * (MaxDuration + 1) ELSE t

(* Fault: the timeout is that of one repeat.                               *)
TimeoutOneRepeat(p, samples, window) ==
  p.attempts * samples * (OpTimeout + p.delay) + window

(* The timeout of a policy that names none, or -1 when it does not fit.    *)
TimeoutFor(p, samples, window) ==
  LET per == Plus(OpTimeout, p.delay)
      windows == window * p.repeat
      n == p.attempts * p.repeat
  IN CASE per <= 0 \/ per < OpTimeout -> -1
       [] per >= OpTimeout /\ window > MaxDuration \div p.repeat -> -1
       [] per >= OpTimeout /\ window <= MaxDuration \div p.repeat ->
            IF \/ p.attempts > MaxDuration \div p.repeat
               \/ n > MaxDuration \div samples
               \/ n * samples > (MaxDuration - windows) \div per
            THEN -1 ELSE n * samples * per + windows

Negative(p) == \E d \in {p.delay, p.eventually, p.stableFor, p.interval, p.timeout} : d < 0

NormalizePolicy(in) ==
  LET p == [in EXCEPT !.attempts = Default(@, 1), !.repeat = Default(@, 1),
                      !.interval = Default(@, Second)]
      window  == Plus(p.eventually, p.stableFor)
      samples == Samples(window, p.interval)
      timeout == IF p.timeout # 0 THEN p.timeout ELSE TimeoutFor(p, samples, window)
  IN IF \/ Negative(p)
        \/ window < p.eventually
        \/ p.attempts > MaxRetained \div p.repeat
        \/ p.attempts * p.repeat > MaxRetained \div samples
        \/ timeout < 0
     THEN [ok |-> FALSE, given |-> in]
     ELSE [ok |-> TRUE, attempts |-> p.attempts, repeat |-> p.repeat, delay |-> p.delay,
           eventually |-> p.eventually, stableFor |-> p.stableFor,
           interval |-> p.interval, timeout |-> timeout, given |-> in]

-----------------------------------------------------------------------------
(* checkAttempted                                                          *)

Init ==
  \E in \in Inputs :
    /\ pol = NormalizePolicy(in)
    /\ pc = IF pol.ok THEN "repeat" ELSE "rejected"
    /\ now = 0 /\ repeat = 1 /\ number = 1 /\ eventual = 0 /\ stable = -1
    /\ last = "missing" /\ report = "pass" /\ cause = "none"
    /\ tally = 0 /\ ends = <<>> /\ firstPass = -1

Min2(x, y) == IF x < y THEN x ELSE y

TimedOut(t) == t >= pol.timeout
Over(t) == cause # "none" \/ TimedOut(t)

ContextOutcome == CASE cause = "skip" -> "skip" [] cause = "cancel" -> "canceled" [] OTHER -> "fail"

(* The operator skips or cancels the check; the first request counts.      *)
Intervene(c) ==
  /\ pc \in {"repeat", "attempt", "delay", "judge", "poll", "watch"} /\ ~Over(now)
  /\ cause' = c
  /\ UNCHANGED <<pol, pc, now, repeat, number, eventual, stable, last, report, tally,
                 ends, firstPass>>

BeginRepeat ==
  /\ pc = "repeat" /\ pc' = "attempt"
  /\ eventual' = now + pol.eventually /\ stable' = -1 /\ firstPass' = -1
  /\ number' = 1 /\ last' = "missing"
  /\ UNCHANGED <<pol, now, repeat, report, cause, tally, ends>>

Polling == stable = -1 /\ pol.eventually > 0

(* The attempt is not made: the context is over, or the time to poll is.   *)
NoAttempt ==
  /\ pc = "attempt"
  /\ Over(now) \/ (Polling /\ now >= eventual)
  /\ last' = IF Over(now) THEN ContextOutcome ELSE "fail"
  /\ pc' = "judge"
  /\ UNCHANGED <<pol, now, repeat, number, eventual, stable, report, cause, tally, ends, firstPass>>

(* Fault: one attempt too many.                                            *)
LastAttemptLate == number > pol.attempts

LastAttempt == number = pol.attempts

(* The operation takes d ticks unless a deadline cuts it; the operator may *)
(* step in meanwhile.                                                      *)
Attempt(d, raw) ==
  /\ pc = "attempt" /\ ~Over(now) /\ ~(Polling /\ now >= eventual)
  /\ LET limit == IF Polling THEN Min2(eventual, pol.timeout) ELSE pol.timeout
         cut   == now + d >= limit
     IN /\ now' = Min2(now + d, limit)
        /\ \E c \in {"none"} \cup Causes :
             /\ cause' = c
             /\ last' = CASE cut /\ c = "none" -> "fail"
                          [] c = "skip"        -> "skip"
                          [] c = "cancel"      -> "canceled"
                          [] OTHER             -> raw
  /\ tally' = tally + 1
  /\ pc' = IF last' \in {"pass", "canceled", "skip"} \/ LastAttempt
           THEN "judge" ELSE "delay"
  /\ UNCHANGED <<pol, repeat, number, eventual, stable, report, ends, firstPass>>

(* A sleep of d ticks: it fails if the context is over before it ends.     *)
Slept(d) == ~Over(now) /\ (d = 0 \/ now + d < pol.timeout)
Sleep(d) == now' = IF Over(now) THEN now ELSE Min2(now + d, pol.timeout)

(* policy.Delay between attempts.                                          *)
Delay ==
  /\ pc = "delay"
  /\ Sleep(pol.delay)
  /\ IF Slept(pol.delay) THEN pc' = "attempt" /\ number' = number + 1 /\ UNCHANGED last
     ELSE pc' = "judge" /\ last' = ContextOutcome /\ UNCHANGED number
  /\ UNCHANGED <<pol, repeat, eventual, stable, report, cause, tally, ends, firstPass>>

(* Fault: a repeat that passes clears the report.                          *)
ReportReset(o) == IF o = "kept" THEN "pass" ELSE o

ReportAfter(o) == IF o = "kept" THEN report ELSE o

(* The repeat is over with outcome o, "kept" when the report stays as it   *)
(* is; a skip or cancel ends the check.                                    *)
EndRepeat(o) ==
  /\ report' = ReportAfter(o)
  /\ ends' = Append(ends, IF o = "kept" THEN "pass" ELSE o)
  /\ IF report' \in {"canceled", "skip"} \/ repeat = pol.repeat
     THEN pc' = "done" /\ UNCHANGED repeat
     ELSE pc' = "repeat" /\ repeat' = repeat + 1

(* Fault: the window is over once its deadline lies within an interval.    *)
WindowOverEarly == now + pol.interval >= stable

(* Fault: now.After for !now.Before, which samples the deadline forever.   *)
WindowOverStrict == now > stable

(* !now.Before(stableDeadline)                                             *)
WindowOver == now >= stable

(* A sample is done: the repeat goes on polling, starts or goes on         *)
(* watching, or is over.                                                   *)
Judge ==
  /\ pc = "judge"
  /\ CASE last \in {"canceled", "skip"} \/ Over(now) ->
            EndRepeat(IF last = "pass" THEN "fail" ELSE last) /\ UNCHANGED <<stable, firstPass>>
       [] last \notin {"canceled", "skip", "pass"} /\ ~Over(now) ->
            /\ UNCHANGED <<stable, firstPass>>
            /\ IF Polling /\ now < eventual THEN pc' = "poll" /\ UNCHANGED <<report, ends, repeat>>
               ELSE EndRepeat(last)
       [] last = "pass" /\ ~Over(now) /\ stable = -1 ->
            /\ firstPass' = now
            /\ IF pol.stableFor = 0 THEN EndRepeat("kept") /\ UNCHANGED stable
               ELSE /\ stable' = now + pol.stableFor
                    /\ pc' = "watch" /\ UNCHANGED <<report, ends, repeat>>
       [] last = "pass" /\ ~Over(now) /\ stable # -1 ->
            /\ UNCHANGED <<stable, firstPass>>
            /\ IF WindowOver THEN EndRepeat("kept")
               ELSE pc' = "watch" /\ UNCHANGED <<report, ends, repeat>>
  /\ UNCHANGED <<pol, now, number, eventual, last, cause, tally>>

(* The interval to the next sample, cut at the end of the window.          *)
NextSample(at, deadline) ==
  LET d == Min2(pol.interval, deadline - now) IN
  /\ pc = at
  /\ Sleep(d)
  /\ IF Slept(d)
     THEN pc' = "attempt" /\ number' = 1 /\ last' = "missing" /\ UNCHANGED <<report, ends, repeat>>
     ELSE EndRepeat(ContextOutcome) /\ UNCHANGED <<number, last>>
  /\ UNCHANGED <<pol, eventual, stable, cause, tally, firstPass>>

Poll  == NextSample("poll", eventual)
Watch == NextSample("watch", stable)

Next ==
  \/ BeginRepeat \/ NoAttempt \/ Delay \/ Judge \/ Poll \/ Watch
  \/ \E d \in 0 .. MaxOp, raw \in Raw : Attempt(d, raw)
  \/ \E c \in Causes : Intervene(c)

Spec == Init /\ [][Next]_vars

-----------------------------------------------------------------------------
(* Properties                                                              *)

TypeOK ==
  /\ pc \in {"rejected", "repeat", "attempt", "delay", "judge", "poll", "watch", "done"}
  /\ now \in Nat /\ tally \in Nat
  /\ last \in {"pass", "fail", "missing", "canceled", "skip"}
  /\ report \in {"pass", "fail", "missing", "canceled", "skip"}
  /\ pol.ok => /\ repeat \in 1 .. pol.repeat /\ number \in 1 .. pol.attempts
               /\ pol.timeout \in 1 .. MaxDuration

(* What a policy without a timeout may take, in exact arithmetic.          *)
Window(p)   == p.eventually + p.stableFor
Attempted(p) == p.attempts * p.repeat * Samples(Window(p), p.interval)
Need(p)     == Attempted(p) * (OpTimeout + p.delay) + p.repeat * Window(p)

(* normalizePolicy accepts exactly the policies whose windows, retained    *)
(* attempts and total time fit, and gives a policy without a timeout       *)
(* exactly the time it may need: no sum or product wraps on the way.       *)
TimeoutExact ==
  LET p == [pol.given EXCEPT !.attempts = Default(@, 1), !.repeat = Default(@, 1),
                             !.interval = Default(@, Second)]
  IN /\ pol.ok <=> /\ ~Negative(p)
                   /\ Window(p) <= MaxDuration /\ Attempted(p) <= MaxRetained
                   /\ p.timeout = 0 => Need(p) <= MaxDuration
     /\ pol.ok /\ p.timeout = 0 => pol.timeout = Need(p)

(* The budget of retained attempts that normalizePolicy checked holds for  *)
(* what checkAttempted really retains, however polling and watching share  *)
(* the time.                                                               *)
BudgetHolds == pol.ok =>
  tally <= Attempted(pol) /\ tally <= MaxRetained

(* "All policy loops have a finite, checked budget": the timeout given to  *)
(* a policy without one never strikes while operations keep to theirs.     *)
DefaultTimeoutSuffices ==
  pol.ok /\ pol.given.timeout = 0 /\ MaxOp < OpTimeout => now < pol.timeout

(* normalizePolicy and checkAttempted agree: the arithmetic is exact, and  *)
(* the loops keep to the budget and to the time it comes to.               *)
PolicyFits == TimeoutExact /\ BudgetHolds /\ DefaultTimeoutSuffices

(* A check passes only if every repeat did.                                *)
PassIsEarned == pc = "done" /\ report = "pass" =>
  Len(ends) = pol.repeat /\ \A i \in DOMAIN ends : ends[i] = "pass"

(* A repeat that passes has seen a pass at least StableFor after its first *)
(* pass: the whole window was watched.                                     *)
StableWindowWatched == [][
  (Len(ends') > Len(ends) /\ ends'[Len(ends')] = "pass") =>
     /\ firstPass' # -1 /\ last = "pass" /\ now - firstPass' >= pol.stableFor]_vars
=============================================================================

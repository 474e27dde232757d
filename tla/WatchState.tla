----------------------------- MODULE WatchState -----------------------------
(***************************************************************************)
(* The watch dashboard's state (watchstate/state.go, check_status.go) and  *)
(* the screen flags of `dropcheck watch` that follow it (tui/state.go,     *)
(* tui/pause.go): a fold of the run's events, applied in the order they    *)
(* were emitted, into target states, step states, agent progress and the   *)
(* two check histories.                                                    *)
(*                                                                         *)
(* The events are those harness.Execute emits: per agent the targets in    *)
(* turn, per target its checks, each with an outcome and, when it failed   *)
(* or its result is missing, a finding; between two checks an agent may    *)
(* park for a pause. Event text and labels are left out.                   *)
(***************************************************************************)
EXTENDS WatchSummaries

CONSTANTS
    Agents, Targets, Checks,   \* the plan; Targets and Checks are sequences
    Name,          \* the display name of a check; two checks may share one
    MaxRound,      \* bound: rounds
    MaxHistory     \* items kept of each history

VARIABLES
    at,            \* per agent, its place in the round
    owed,          \* per agent, the finding a failed step still has to report
    report,        \* history: the outcome of every check
    now,           \* in rounds: every event of a round has the same time
    round, roundStatus, phase,         \* the dashboard's state
    targets, progress, passing, failed

run == <<at, owed, report>>
screen == <<round, roundStatus, phase, targets, progress, passing, failed>>
vars == <<run, now, screen>>

Outcomes == {"pass", "fail", "missing", "skip", "canceled"}
outcomeStatus(o) ==
    CASE o = "pass" -> "ok" [] o = "fail" -> "failed" [] o = "skip" -> "skipped"
      [] OTHER -> o

\* The round of one agent: per target a start, its checks, an end.
Start == [target |-> 1, step |-> 0, open |-> FALSE]
Ended == [target |-> Len(Targets) + 1, step |-> 0, open |-> FALSE]
TargetAt(a) == Targets[at[a].target]
CheckAt(a) == Checks[at[a].step]
NoFinding == "none"

Fresh == [status |-> "pending", current |-> "", steps |-> <<>>]
Init ==
    /\ at = [a \in Agents |-> Ended] /\ owed = [a \in Agents |-> NoFinding]
    /\ report = {} /\ now = 1
    /\ round = 0 /\ roundStatus = "starting" /\ phase = "starting"
    /\ targets = [k \in Agents \X Range(Targets) |-> Fresh]
    /\ progress = <<>> /\ passing = <<>> /\ failed = <<>>
-----------------------------------------------------------------------------
(* The reducer's parts.                                                    *)

\* Items older than the window go first, then the oldest above the limit.
Trim(history) ==
    LET kept == SelectSeq(history, LAMBDA x : x.when >= now - HotspotWindow)
    IN SubSeq(kept, Max({1, Len(kept) - MaxHistory + 1}), Len(kept))

Item(a, check) == [round |-> round, when |-> now, agent |-> a,
                   target |-> TargetAt(a), check |-> check]
RecordPassingCheck(history, a, check) ==
    Trim(Append(history, Item(a, check) @@ [duration |-> 1]))
RemovePassingCheck(history, a, check) ==
    SelectSeq(history, LAMBDA x : ~(/\ x.round = round
                                    /\ PassingCheckKey(x) = <<a, TargetAt(a), check>>))
AddFailedCheck(history, a, check) ==
    Trim(Append(history, Item(a, check) @@ [metric |-> "m", cause |-> owed[a]]))

\* Fault: a step state is found by the name on the screen.
UpsertByName(steps, check, status) ==
    LET same == {i \in DOMAIN steps : Name[steps[i].check] = Name[check]}
    IN IF same = {} THEN Append(steps, [check |-> check, status |-> status])
       ELSE [steps EXCEPT ![Min(same)] = [check |-> check, status |-> status]]

\* One step state per check identifier, replaced or appended.
upsertStep(steps, check, status) ==
    LET same == {i \in DOMAIN steps : steps[i].check = check}
    IN IF same = {} THEN Append(steps, [check |-> check, status |-> status])
       ELSE [steps EXCEPT ![Min(same)] = [check |-> check, status |-> status]]

Update(a, f(_)) == targets' = [targets EXCEPT ![<<a, TargetAt(a)>>] = f(@)]
-----------------------------------------------------------------------------
(* The events, in the order the run emits them.                            *)

RoundStarted ==
    /\ \A a \in Agents : at[a] = Ended
    /\ round < MaxRound
    /\ at' = [a \in Agents |-> Start]
    /\ round' = round + 1 /\ roundStatus' = "running" /\ phase' = "round"
    /\ targets' = [k \in DOMAIN targets |-> Fresh]
    /\ now' = now + 1
    /\ UNCHANGED <<owed, report, progress, passing, failed>>

Ready(a) == at[a] # Ended /\ owed[a] = NoFinding

TargetStarted(a) ==
    /\ Ready(a) /\ at[a].step = 0
    /\ at' = [at EXCEPT ![a].step = 1]
    /\ Update(a, LAMBDA t : [t EXCEPT !.status = "running"]) /\ phase' = "target"
    /\ UNCHANGED <<owed, report, now, round, roundStatus, progress, passing, failed>>

AtCheck(a) == at[a].step \in 1..Len(Checks)

StepStarted(a) ==
    /\ Ready(a) /\ AtCheck(a) /\ ~at[a].open
    /\ at' = [at EXCEPT ![a].open = TRUE]
    /\ Update(a, LAMBDA t : [status |-> "running", current |-> CheckAt(a),
                             steps |-> upsertStep(t.steps, CheckAt(a), "running")])
    /\ phase' = "step"
    /\ UNCHANGED <<owed, report, now, round, roundStatus, progress, passing, failed>>

\* A skipped check need not have started. A failed or missing one owes its
\* finding, which is a later event.
StepFinished(a, o) ==
    /\ Ready(a) /\ AtCheck(a) /\ (at[a].open \/ o = "skip")
    /\ report' = report \cup {[round |-> round, agent |-> a, target |-> TargetAt(a),
                               check |-> CheckAt(a), outcome |-> o, when |-> now]}
    /\ IF o \in {"fail", "missing"}
       THEN owed' = [owed EXCEPT ![a] = CheckAt(a)] /\ UNCHANGED at
       ELSE at' = [at EXCEPT ![a].step = @ + 1, ![a].open = FALSE] /\ UNCHANGED owed
    /\ Update(a, LAMBDA t :
           [current |-> IF t.current = CheckAt(a) THEN "" ELSE t.current,
            status |-> IF o \in {"fail", "missing", "canceled"} THEN outcomeStatus(o) ELSE t.status,
            steps |-> upsertStep(t.steps, CheckAt(a), outcomeStatus(o))])
    /\ passing' = CASE o = "pass" -> RecordPassingCheck(passing, a, CheckAt(a))
                    [] o \in {"fail", "missing", "canceled"} -> RemovePassingCheck(passing, a, CheckAt(a))
                    [] OTHER -> passing
    /\ UNCHANGED <<now, round, roundStatus, phase, progress, failed>>

\* The finding event turns the step and the target to failed.
Finding(a) ==
    /\ owed[a] # NoFinding
    /\ owed' = [owed EXCEPT ![a] = NoFinding]
    /\ at' = [at EXCEPT ![a].step = @ + 1, ![a].open = FALSE]
    /\ passing' = RemovePassingCheck(passing, a, CheckAt(a))
    /\ failed' = AddFailedCheck(failed, a, CheckAt(a))
    /\ Update(a, LAMBDA t : [t EXCEPT !.status = "failed",
                                      !.steps = upsertStep(@, CheckAt(a), "failed")])
    /\ UNCHANGED <<now, report, round, roundStatus, phase, progress>>

Outcome(a, t) == {x.outcome : x \in {y \in report : y.round = round /\ y.agent = a /\ y.target = t}}
Worst(os) ==
    IF "fail" \in os THEN "fail" ELSE IF "missing" \in os THEN "missing"
    ELSE IF "canceled" \in os THEN "canceled" ELSE IF "skip" \in os THEN "skip" ELSE "pass"

TargetFinished(a) ==
    /\ Ready(a) /\ at[a].step = Len(Checks) + 1
    /\ at' = [at EXCEPT ![a] = [target |-> @.target + 1, step |-> 0, open |-> FALSE]]
    /\ LET status == outcomeStatus(Worst(Outcome(a, TargetAt(a))))
       IN /\ Update(a, LAMBDA t : [t EXCEPT !.status = status, !.current = ""])
          /\ passing' = IF status = "ok" THEN RecordPassingCheck(passing, a, "target")
                        ELSE passing
    /\ UNCHANGED <<now, owed, report, round, roundStatus, phase, progress, failed>>

RoundFinished ==
    /\ \A a \in Agents : at[a] = Ended
    /\ round > 0 /\ phase # "idle"
    /\ progress' = [a \in Agents |-> [round |-> round, state |-> "completed"]]
    /\ roundStatus' = outcomeStatus(Worst({x.outcome : x \in {y \in report : y.round = round}}))
    /\ phase' = "idle"
    /\ UNCHANGED <<run, now, round, targets, passing, failed>>

Next ==
    \/ RoundStarted \/ RoundFinished
    \/ \E a \in Agents :
          \/ TargetStarted(a) \/ StepStarted(a) \/ Finding(a) \/ TargetFinished(a)
          \/ \E o \in Outcomes : StepFinished(a, o)
Spec == Init /\ [][Next]_vars
-----------------------------------------------------------------------------
(* What the dashboard shows.                                               *)

CurrentCheckStatus(a, t, c) ==
    LET steps == targets[<<a, t>>].steps
        mine == {i \in DOMAIN steps : steps[i].check = c}
    IN IF mine = {} THEN "pending" ELSE steps[Min(mine)].status

\* The worst result of the agents decides the cell of a check and a target.
CheckStatusTargetCell(t, c) ==
    LET is(status) == \E a \in Agents : CurrentCheckStatus(a, t, c) = status
    IN IF is("failed") THEN "failed" ELSE IF is("missing") THEN "missing"
       ELSE IF is("canceled") THEN "canceled" ELSE IF is("running") THEN "running"
       ELSE IF is("ok") THEN "ok" ELSE IF is("skipped") THEN "skipped" ELSE "pending"

\* The cell with its numbers: what is running counts the agents that have got
\* as far, everything else those of the cell's status.
CheckStatusAggregate(t, c) ==
    LET status == CheckStatusTargetCell(t, c)
        Of(s) == Cardinality({a \in Agents : CurrentCheckStatus(a, t, c) = s})
    IN [status |-> status, failed |-> Of("failed"), total |-> Cardinality(Agents),
        count |-> CASE status = "running" -> Cardinality(Agents) - Of("pending")
                    [] status = "pending" -> 0
                    [] OTHER -> Of(status)]

\* The targets of which the first is shown as the current one.
CurrentTargets ==
    LET stepping == {k \in DOMAIN targets : targets[k].current # ""}
    IN IF stepping # {} THEN stepping ELSE {k \in DOMAIN targets : targets[k].status = "running"}
TargetCount(status) == Cardinality({k \in DOMAIN targets : targets[k].status = status})

\* A target that has not started yet shows what it was in the last round.
CheckStatusForTarget(a, t, events) ==
    LET status == targets[<<a, t>>].status
    IN IF status = "pending" /\ events # <<>> THEN Last(events).status ELSE status

\* The columns and rows of the table: what is planned, then what else has a
\* history.
Distinct(s) == FoldLeft(LAMBDA seen, x : IF x \in Range(seen) THEN seen ELSE Append(seen, x), <<>>, s)
CheckStatusTargets ==
    LET kept == passing \o failed IN Distinct(Targets \o [i \in DOMAIN kept |-> kept[i].target])
CheckStatusChecks ==
    LET kept == passing \o failed
    IN Distinct(SelectSeq(Checks \o [i \in DOMAIN kept |-> kept[i].check], LAMBDA c : c # "target"))

Result(a, t, c) == CHOOSE x \in report : x.round = round /\ x.agent = a /\ x.target = t /\ x.check = c
Shown(o) == IF o = "missing" THEN "failed" ELSE outcomeStatus(o)

\* When a round is over the dashboard agrees with the report: every cell shows
\* the worst outcome of its check over the agents (a missing result shows as
\* the failure its finding is), also for checks that share a name.
RoundAgrees ==
    phase = "idle" /\ round > 0 =>
        \A t \in Range(Targets), c \in Range(Checks) :
            LET shown == {Shown(Result(a, t, c).outcome) : a \in Agents}
            IN CheckStatusTargetCell(t, c) =
                 IF "failed" \in shown THEN "failed" ELSE IF "canceled" \in shown THEN "canceled"
                 ELSE IF "ok" \in shown THEN "ok" ELSE "skipped"

Names == Name @@ [c \in {"target"} |-> "target"]

\* The failure streak of a hotspot counts the latest rounds in which a check of
\* the target failed, and a round that passed ends it: computed from the report
\* and from the trimmed histories the two agree at the end of a round.
StreakExact ==
    phase = "idle" /\ round > 0 =>
        LET rows == FailureHotspots(passing, failed, now)
            Bad(a, t) == {r \in 1..round : \E x \in report : x.round = r /\ x.agent = a
                            /\ x.target = t /\ x.outcome \in {"fail", "missing"} /\ x.when >= now - HotspotWindow}
            Good(a, t) == {r \in 1..round : \E x \in report : x.round = r /\ x.agent = a
                            /\ x.target = t /\ x.outcome = "pass" /\ x.when >= now - HotspotWindow}
        IN \A i \in DOMAIN rows :
              LET bad == Bad(rows[i].key[1], rows[i].key[2])
                  clean == Good(rows[i].key[1], rows[i].key[2]) \ bad
              IN rows[i].streak = Cardinality({r \in bad : \A g \in clean : g < r})

\* The summaries account for the histories they are made of: every finding is
\* counted in exactly one row of the failed checks, once in a cause if it is
\* recent, and every pass in one row of the passing checks; a failed check did
\* not fail more often than it was tried, nor for longer than it failed.
SummariesAccount ==
    phase = "idle" /\ round > 0 =>
        LET good == PassingCheckSummaries(passing)
            bad == FailedCheckSummaries(passing, failed, Names)
            causes == FailureCauses(passing, failed, now)
        IN /\ SumOf(DOMAIN good, LAMBDA i : good[i].count) = Len(passing)
           /\ SumOf(DOMAIN bad, LAMBDA i : bad[i].count) = Len(failed)
           /\ SumOf(DOMAIN causes, LAMBDA i : causes[i].fails)
                = Cardinality({i \in DOMAIN failed : failed[i] \in Recent(failed, now)})
           /\ \A i \in DOMAIN bad : bad[i].percent \in 1..100 /\ bad[i].streak <= bad[i].count
           /\ \A i \in DOMAIN good : good[i].count > 0 /\ AvgDuration(good[i]) > 0

FieldsOfCheck(row) == CheckFields(Names, row)

\* A row is found again by its identity and by what it is about, and stands for
\* as many items as it counts; only a row of the recent ones may count fewer.
RowsFound(FieldsOf(_), rows, history, KeyOf(_)) ==
    \A i \in DOMAIN rows :
        LET keys == [k \in DOMAIN history |-> KeyOf(history[k])]
            fields == [k \in DOMAIN rows |-> FieldsOf(rows[k])]
            items == Len(Occurrences(history, keys, rows[i].key))
        IN /\ IndexByIdentity(rows, rows[i].key) = i
           /\ \A name \in {rows[i].key[1], rows[i].key[2]} : rows[i] \in Range(Filtered(rows, fields, name))
           /\ IF "count" \in DOMAIN rows[i] THEN items = rows[i].count ELSE items >= rows[i].fails

\* The past results are the report's: of a check only its newest pass or failure
\* is shown, and it is while it is inside the window; every outcome is drawn in
\* one column, the newest in the last; and every row is found.
HistoryAgrees ==
    phase = "idle" /\ round > 0 =>
        LET events == OutcomeEvents(passing, failed)
        IN /\ \A a \in Agents, t \in Range(Targets), c \in Range(Checks) :
                LET told == {x \in report : /\ x.agent = a /\ x.target = t /\ x.check = c
                                            /\ x.outcome \in {"pass", "fail", "missing"}}
                    newest == {x \in told : \A y \in told : y.when <= x.when}
                    past == HistoricalCheckStatus(passing, failed, a, t, c)
                IN /\ past \subseteq {IF x.outcome = "pass" THEN "ok" ELSE "failed" : x \in newest}
                   /\ (\E x \in newest : x.when >= now - HotspotWindow) => past # {}
           /\ \A width \in 1..3 :
                LET drawn == OutcomeBuckets(events, width)
                IN /\ SumOf(1..width, LAMBDA b : drawn[b].ok) = Len(passing)
                   /\ SumOf(1..width, LAMBDA b : drawn[b].failed) = Len(failed)
                   /\ (events # <<>> /\ events[1].when < Last(events).when) =>
                        drawn[width].ok + drawn[width].failed > 0
           /\ CheckStatusChecks = Checks /\ CheckStatusTargets = Targets
           /\ RowsFound(FieldsOfCheck, PassingCheckSummaries(passing), passing, PassingCheckKey)
           /\ RowsFound(FieldsOfCheck, FailedCheckSummaries(passing, failed, Names), failed, FailedCheckKey)
           /\ RowsFound(HotspotFields, FailureHotspots(passing, failed, now), failed, HotspotKey)
           /\ RowsFound(CauseFields, FailureCauses(passing, failed, now), failed, CauseKey)

\* The target shown as the current one is one that an agent is at.
CurrentIsAt == \A k \in CurrentTargets : at[k[1]] # Ended /\ TargetAt(k[1]) = k[2]

\* A cell that shows something counts an agent it is true of, and no cell
\* counts more agents than there are.
CellsCount ==
    \A t \in Range(Targets), c \in Range(Checks) :
        LET cell == CheckStatusAggregate(t, c)
        IN cell.count \in 0..cell.total /\ (cell.count = 0 <=> cell.status = "pending")

\* When a round is over no target is shown as running, none as waiting, and
\* none is the current one, whatever is retained of earlier rounds.
RoundSettled ==
    phase = "idle" /\ round > 0 =>
        LET events == OutcomeEvents(passing, failed)
        IN /\ TargetCount("running") = 0 /\ CurrentTargets = {}
           /\ \A a \in Agents, t \in Range(Targets) :
                CheckStatusForTarget(a, t, FilterOutcomeEvents(events, a, t)) # "pending"
=============================================================================

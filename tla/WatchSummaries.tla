--------------------------- MODULE WatchSummaries ---------------------------
(***************************************************************************)
(* What the watch dashboard derives from its two retained histories, the   *)
(* passing and the failed checks (watchstate/summaries.go, histogram.go).  *)
(* An item is [round, when, agent, target, check]; a passing one also has  *)
(* its duration, a failed one the metric and the cause of its finding.     *)
(* Times are numbers; a key is the tuple the code joins into a string.     *)
(***************************************************************************)
EXTENDS Integers, Sequences, FiniteSets, FiniteSetsExt, SequencesExt, TLC

CONSTANT HotspotWindow        \* FailureHotspotWindow, the retention window too

Items(history) == {history[i] : i \in DOMAIN history}
SumOf(S, Op(_)) == FoldSet(LAMBDA x, acc : Op(x) + acc, 0, S)

\* The rows of a summary, newest first; rows of one time keep the order of
\* their first item.
NewestFirst(rows) ==
    SetToSortSeq(rows, LAMBDA x, y : x.last > y.last \/ (x.last = y.last /\ x.first < y.first))

\* The row of an identity, 0 where there is none; a row's key is its identity.
IndexByIdentity(rows, key) ==
    LET same == {i \in DOMAIN rows : rows[i].key = key} IN IF same = {} THEN 0 ELSE Min(same)
-----------------------------------------------------------------------------
PassingCheckKey(p) == <<p.agent, p.target, p.check>>

PassingCheckSummaries(passing) ==
    LET Of(k) == {i \in DOMAIN passing : PassingCheckKey(passing[i]) = k}
        Timed(k) == {i \in Of(k) : passing[i].duration > 0}
        Row(k) == [key |-> k, first |-> Min(Of(k)), last |-> passing[Max(Of(k))].when,
                   count |-> Cardinality(Of(k)),
                   duration |-> passing[Max(Of(k))].duration,
                   total |-> SumOf(Timed(k), LAMBDA i : passing[i].duration),
                   timed |-> Cardinality(Timed(k))]
    IN NewestFirst({Row(PassingCheckKey(passing[i])) : i \in DOMAIN passing})

\* Rounded to the nearest millisecond, 0 without a timed item.
AvgDuration(row) ==
    IF row.timed = 0 THEN 0 ELSE (row.total + row.timed \div 2) \div row.timed
-----------------------------------------------------------------------------
FailedCheckKey(f) == <<f.agent, f.target, f.check, f.metric>>

\* The rounds in which a check of this name had a result, with the keys that
\* failed in them. Passing and failed items of one round are one attempt.
Attempts(passing, failed, nameOf, agent, target, name) ==
    LET In(h) == {x \in Items(h) : x.agent = agent /\ x.target = target /\ nameOf[x.check] = name}
        Rounds == {x.round : x \in In(passing) \cup In(failed)}
    IN {[round |-> r,
         when |-> Max({x.when : x \in {y \in In(passing) \cup In(failed) : y.round = r}}),
         keys |-> {FailedCheckKey(f) : f \in {g \in In(failed) : g.round = r}}] : r \in Rounds}

\* The attempts that are newer than every good one.
Streak(attempts, good) ==
    Cardinality({x \in attempts : \A g \in good : x.when > g.when})

FailedCheckSummaries(passing, failed, nameOf) ==
    LET Of(k) == {i \in DOMAIN failed : FailedCheckKey(failed[i]) = k}
        Row(k) ==
            LET f == failed[Max(Of(k))]
                tries == Attempts(passing, failed, nameOf, f.agent, f.target, nameOf[f.check])
                bad == {x \in tries : k \in x.keys}
            IN [key |-> k, first |-> Min(Of(k)), last |-> f.when, count |-> Cardinality(Of(k)),
                percent |-> (100 * Cardinality(bad)) \div Cardinality(tries),
                streak |-> Streak(tries, tries \ bad)]
    IN NewestFirst({Row(FailedCheckKey(failed[i])) : i \in DOMAIN failed})
-----------------------------------------------------------------------------
(* Hotspots rank targets, causes rank what fails across targets; both look *)
(* at the rounds inside the window.                                        *)

HotspotKey(x) == <<x.agent, x.target>>
CauseKey(x) == <<x.agent, x.cause>>
Recent(history, now) == {x \in Items(history) : x.when >= now - HotspotWindow}

\* Fault: a check of the target that passed turns its round into a good one.
RunsAnyPass(good, bad) ==
    {[round |-> r, when |-> Max({x.when : x \in {y \in good \cup bad : y.round = r}}),
      failed |-> \A x \in good : x.round # r] : r \in {x.round : x \in good \cup bad}}

\* A round failed when any check of the target failed in it.
Runs(good, bad) ==
    {[round |-> r, when |-> Max({x.when : x \in {y \in good \cup bad : y.round = r}}),
      failed |-> \E x \in bad : x.round = r] : r \in {x.round : x \in good \cup bad}}

Rate(row) == IF row.runs = 0 THEN 0 ELSE (row.failRuns * 1000) \div row.runs

\* The cause named by a row: of the first failure, and of each later one that
\* is newer than everything seen of the target so far, its passes included.
LatestCause(good, bad) ==
    LET passed == {x.when : x \in good}
        newer == {x \in bad : \A p \in passed : x.when > p}
        oldest == CHOOSE x \in bad : \A y \in bad : x.when <= y.when
        newest == CHOOSE x \in newer : \A y \in newer : x.when >= y.when
    IN IF newer = {} THEN oldest.cause ELSE newest.cause

FailureHotspots(passing, failed, now) ==
    LET Bad(k) == {f \in Recent(failed, now) : HotspotKey(f) = k}
        Good(k) == {p \in Recent(passing, now) : HotspotKey(p) = k}
        Row(k) ==
            LET rounds == Runs(Good(k), Bad(k))
            IN [key |-> k, last |-> Max({x.when : x \in Bad(k) \cup Good(k)}),
                fails |-> Cardinality({i \in DOMAIN failed : failed[i] \in Bad(k)}),
                runs |-> Cardinality(rounds),
                failRuns |-> Cardinality({x \in rounds : x.failed}),
                streak |-> Streak(rounds, {x \in rounds : ~x.failed}),
                cause |-> LatestCause(Good(k), Bad(k))]
        Before(x, y) ==
            \/ x.streak > y.streak
            \/ x.streak = y.streak /\ Rate(x) > Rate(y)
            \/ x.streak = y.streak /\ Rate(x) = Rate(y) /\ x.fails > y.fails
            \/ x.streak = y.streak /\ Rate(x) = Rate(y) /\ x.fails = y.fails /\ x.last > y.last
    IN SetToSortSeq({Row(HotspotKey(f)) : f \in Recent(failed, now)}, Before)

FailureCauses(passing, failed, now) ==
    LET Bad(k) == {f \in Recent(failed, now) : CauseKey(f) = k}
        PerTarget(k, t) ==
            LET bad == {f \in Bad(k) : f.target = t}
                good == {p \in Recent(passing, now) : p.agent = k[1] /\ p.target = t}
                rounds == Runs(good, bad)
            IN [target |-> t, fails |-> Cardinality({i \in DOMAIN failed : failed[i] \in bad}),
                runs |-> Cardinality(rounds),
                failRuns |-> Cardinality({x \in rounds : x.failed}),
                last |-> Max({x.when : x \in bad \cup good})]
        First(x, y) ==
            \/ x.fails > y.fails
            \/ x.fails = y.fails /\ Rate(x) > Rate(y)
            \/ x.fails = y.fails /\ Rate(x) = Rate(y) /\ x.last > y.last
        Row(k) ==
            LET rows == {PerTarget(k, f.target) : f \in Bad(k)}
            IN [key |-> k, targets |-> SetToSortSeq(rows, First),
                fails |-> SumOf(rows, LAMBDA x : x.fails),
                runs |-> SumOf(rows, LAMBDA x : x.runs),
                failRuns |-> SumOf(rows, LAMBDA x : x.failRuns),
                last |-> Max({x.last : x \in rows})]
        Before(x, y) ==
            \/ Len(x.targets) > Len(y.targets)
            \/ Len(x.targets) = Len(y.targets) /\ Rate(x) > Rate(y)
            \/ Len(x.targets) = Len(y.targets) /\ Rate(x) = Rate(y) /\ x.fails > y.fails
            \/ /\ Len(x.targets) = Len(y.targets) /\ Rate(x) = Rate(y)
               /\ x.fails = y.fails /\ x.last > y.last
    IN SetToSortSeq({Row(CauseKey(f)) : f \in Recent(failed, now)}, Before)
-----------------------------------------------------------------------------
(* The check status: outcomes in the order of their times, passes first    *)
(* among equals, of an agent and a target.                                 *)

OutcomeEvent(x, status) == [when |-> x.when, agent |-> x.agent, target |-> x.target, status |-> status]
OutcomeEvents(passing, failed) ==
    LET both == [i \in DOMAIN passing |-> OutcomeEvent(passing[i], "ok")]
                \o [i \in DOMAIN failed |-> OutcomeEvent(failed[i], "failed")]
        Before(j, i) == IF both[j].when = both[i].when THEN j <= i ELSE both[j].when < both[i].when
        Rank(i) == Cardinality({j \in DOMAIN both : Before(j, i)})
    IN [n \in DOMAIN both |-> both[CHOOSE i \in DOMAIN both : Rank(i) = n]]

FilterOutcomeEvents(events, agent, target) ==
    SelectSeq(events, LAMBDA e : e.agent = agent /\ e.target = target)

Clamp(value, low, high) ==
    IF high < low \/ value < low THEN low ELSE IF value > high THEN high ELSE value

\* The outcomes per column of a graph, its edges the first and the last time.
OutcomeBuckets(events, width) ==
    LET first == events[1].when
        span == Last(events).when - first
        Index(e) == IF span = 0 THEN 0
                    ELSE Clamp(((e.when - first) * (width - 1)) \div span, 0, width - 1)
        In(b, status) == Cardinality({i \in DOMAIN events :
                                        events[i].status = status /\ Index(events[i]) = b - 1})
    IN [b \in 1..width |-> IF events = <<>> THEN [ok |-> 0, failed |-> 0]
                            ELSE [ok |-> In(b, "ok"), failed |-> In(b, "failed")]]

\* The newest retained outcome of a check; a failure of the time of a pass
\* does not replace it.
HistoricalCheckStatus(passing, failed, agent, target, check) ==
    LET Times(history) == {x.when : x \in {y \in Items(history) :
                               y.agent = agent /\ y.target = target /\ y.check = check}}
    IN IF Times(passing) \cup Times(failed) = {} THEN {}
       ELSE IF \E f \in Times(failed) : \A p \in Times(passing) : f > p
       THEN {"failed"} ELSE {"ok"}

-----------------------------------------------------------------------------
(* What a row stands for, and the search for rows.                         *)

\* The times of the items of a history that have the key; keys[i] is the key of
\* the i-th item.
Occurrences(history, keys, key) ==
    LET mine == SelectSeq([i \in DOMAIN history |-> i], LAMBDA i : keys[i] = key)
    IN [n \in DOMAIN mine |-> history[mine[n]].when]

Within(text, query) ==
    \E i \in 0..(Len(text) - Len(query)) : SubSeq(text, i + 1, i + Len(query)) = query
FieldsContainQuery(fields, query) == query = "" \/ \E text \in fields : Within(text, query)

\* The texts a row is searched by: the names of what it is about and its counts.
Counted(numbers) == {ToString(n) : n \in numbers}
CheckFields(nameOf, row) ==
    (Range(row.key) \ {row.key[3]}) \cup {nameOf[row.key[3]]} \cup Counted({row.count})
HotspotFields(row) ==
    Range(row.key) \cup {row.cause} \cup Counted({row.fails, row.failRuns, row.runs, row.streak})
CauseFields(row) ==
    Range(row.key) \cup {row.targets[i].target : i \in DOMAIN row.targets}
    \cup Counted({Len(row.targets), row.fails, row.failRuns, row.runs})

\* The rows that a query finds; fields[i] are the texts of the i-th row.
Filtered(rows, fields, query) ==
    LET found == SelectSeq([i \in DOMAIN rows |-> i], LAMBDA i : FieldsContainQuery(fields[i], query))
    IN [n \in DOMAIN found |-> rows[found[n]]]

-----------------------------------------------------------------------------
(* The histogram of recent events, in whole seconds.                       *)

RecentEventBucketCount(window, width) == Clamp(width, 1, window)
RecentEventBucketWidth(window, buckets) == (window + buckets - 1) \div buckets
NextHistogramBucketBoundary(at, bucket) == (at \div bucket + 1) * bucket
RecentHistogramEnd(times, bucket, now) ==
    NextHistogramBucketBoundary(Max(times \cup {now}), bucket)

\* The number of events per bucket, oldest bucket first.
RecentEventHistogram(times, width, window, now) ==
    LET buckets == RecentEventBucketCount(window, width)
        bucket == RecentEventBucketWidth(window, buckets)
        end == RecentHistogramEnd(times, bucket, now)
        start == end - bucket * buckets
        Index(at) == Clamp((at - start) \div bucket, 0, buckets - 1)
    IN [b \in 1..buckets |->
          Cardinality({at \in times : start <= at /\ at < end /\ Index(at) = b - 1})]

\* Counts squeezed or stretched to the columns of a graph, by their maximum.
ResampleSparklineCounts(counts, width) ==
    LET n == Len(counts)
        From(c) == Clamp((c * n) \div width, 0, n - 1)
        To(c) == Clamp(Max({((c + 1) * n) \div width, (c * n) \div width + 1}), From(c) + 1, n)
    IN IF n = width THEN counts
       ELSE [c \in 1..width |->
               IF n = 0 THEN 0 ELSE Max({counts[i] : i \in (From(c - 1) + 1)..To(c - 1)})]

\* The smallest of 1, 2, 3, 5 times a power of ten that is enough.
NiceSparklineUnit(needed) ==
    Min({u \in {step * 10 ^ k : step \in {1, 2, 3, 5}, k \in 0..6} : u >= needed})
SparklineEventsPerRow(most, height) ==
    IF most <= 0 \/ height <= 0 THEN 1 ELSE NiceSparklineUnit((most + height - 1) \div height)

\* No event of the window is lost but those of the oldest, partly expired
\* bucket, none is counted twice, and squeezing the columns keeps the peak.
HistogramComplete(times, width, window, now, columns) ==
    LET counts == RecentEventHistogram(times, width, window, now)
        bucket == RecentEventBucketWidth(window, Len(counts))
        total == SumOf(DOMAIN counts, LAMBDA b : counts[b])
        drawn == ResampleSparklineCounts(counts, columns)
        Peak(c) == Max({c[b] : b \in DOMAIN c})
    IN /\ total <= Cardinality(times)
       /\ total >= Cardinality({at \in times : at > Max(times \cup {now}) - window + bucket})
       /\ Len(drawn) = columns /\ Peak(drawn) = Peak(counts)
       /\ \A height \in 1..3 : Peak(drawn) <= height * SparklineEventsPerRow(Peak(drawn), height)
=============================================================================

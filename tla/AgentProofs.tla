----------------------------- MODULE AgentProofs -----------------------------
(***************************************************************************)
(* The foreground service and the screens of the agent.                    *)
(*                                                                         *)
(* AgentService, for any number of start intents: the session that lives   *)
(* is the current one, one session at a time is with the worker, and a     *)
(* worker that cleans up stops the service only when nothing newer was     *)
(* started.                                                                *)
(*                                                                         *)
(* AgentLinkCheck, for any networks: a link check that passes saw every    *)
(* stage pass on one network.  AgentShell, for results of any size: no     *)
(* result of a shell action is lost while screens come and go.             *)
(* AgentLogView, for files, tails and screens of any size: the lines are   *)
(* shown in order, and where one is missing the screen tells.              *)
(***************************************************************************)
EXTENDS AgentService, SequenceTheorems, TLAPS

CONSTANTS Networks,
          MaxBlocks, MaxChars, Sizes, MaxActions, MaxScreens,
          MaxLines, FileLines, KeepLines, TailLines, DisplayLines

VARIABLES command, stages, network, shown, report
VARIABLES screen, screens, retained, thread, result, listener, posted, started, delivered,
          blocks, disk, writes
VARIABLES logged, direct, file, listening, looper, phase, generation, lastLogLine, view

Link == INSTANCE AgentLinkCheck
Shell == INSTANCE AgentShell
Log == INSTANCE AgentLogView

-----------------------------------------------------------------------------
(* AgentService *)
Intents == [id : Ids, kind : Kinds]

(* The start IDs that have been delivered are 1 to Delivered: intents come *)
(* in the order of their IDs, the main thread works on the last delivered  *)
(* one, and a session has a place with the worker once its intent is done. *)
Delivered == lastStart - Len(inbox)

InOrder ==
  /\ Len(inbox) <= lastStart
  /\ \A k \in 1 .. Len(inbox) : inbox[k].id = Delivered + k
  /\ main # Idle => main.id = Delivered /\ worker[main.id] = "none"
  /\ \A j \in Ids : worker[j] # "none" => j <= Delivered

(* The worker has one session, and none that is queued is older.           *)
OneWorker ==
  \A i, j \in Ids :
    worker[i] \in OnWorker /\ i # j =>
      worker[j] \notin OnWorker /\ (worker[j] = "queued" => i < j)

IInv == TypeOK /\ InOrder /\ OneWorker /\ LiveSessionIsCurrent

MainVars   == <<inbox, lastStart, main>>

LEMMA InitIInv == ASSUME MaxStarts \in Nat PROVE Init => IInv
<1> SUFFICES ASSUME Init PROVE IInv
  OBVIOUS
<1>1. inbox = <<>> /\ Len(inbox) = 0 /\ inbox \in Seq(Intents) /\ lastStart = 0 /\ main = Idle /\ current = 0
  BY DEF Init, Intents
<1>2. \A i \in Ids : worker[i] = "none"
  BY DEF Init
<1>3. TypeOK
  <2>1. worker \in [Ids -> Stages] /\ lastStart \in 0 .. MaxStarts /\ current \in 0 .. MaxStarts
    BY <1>1 DEF Init, Stages
  <2>2. {wifiEvents, foreground, widgets, observing, stopping, destroyed} \subseteq BOOLEAN
        /\ interrupted \subseteq Ids
    BY DEF Init
  <2>. QED BY <1>1, <2>1, <2>2 DEF TypeOK, Intents
<1>. QED BY <1>1, <1>2, <1>3 DEF IInv, InOrder, Delivered, OneWorker, OnWorker, LiveSessionIsCurrent

(* A step of the worker: one session moves on, the intents stay.           *)
LEMMA MoveKeeps ==
  ASSUME MaxStarts \in Nat, IInv, UNCHANGED <<MainVars, interrupted>>,
         NEW i \in Ids, NEW from, NEW to \in Stages \ {"none", "queued"}, Move(i, from, to),
         from # "none",
         to \in OnWorker /\ from \notin OnWorker =>
           \A j \in Ids : worker[j] \notin OnWorker /\ (worker[j] = "queued" => i <= j),
         to \in {"running", "finally"} => from \in {"queued", "running"} /\ current' = current,
         to \notin {"running", "finally"} => current' \in {current, IF current = i THEN 0 ELSE current},
         {wifiEvents, foreground, widgets, observing, stopping, destroyed}' \subseteq BOOLEAN
  PROVE  IInv'
<1> USE DEF IInv, MainVars
<1>1. worker' = [worker EXCEPT ![i] = to] /\ worker[i] = from
  BY DEF Move
<1>2. worker' \in [Ids -> Stages] /\ worker'[i] = to /\ \A j \in Ids \ {i} : worker'[j] = worker[j]
  BY <1>1 DEF TypeOK
<1>3. TypeOK'
  BY <1>2 DEF TypeOK
<1>4. InOrder'
  BY <1>1, <1>2 DEF InOrder, Delivered, TypeOK
<1>5. OneWorker'
  BY <1>1, <1>2 DEF OneWorker, OnWorker, Stages, Ids
<1>6. LiveSessionIsCurrent'
  BY <1>1, <1>2 DEF LiveSessionIsCurrent, Stages
<1>. QED BY <1>3, <1>4, <1>5, <1>6

LEMMA StepIInv == ASSUME MaxStarts \in Nat PROVE IInv /\ [Next]_vars => IInv'
<1> SUFFICES ASSUME IInv, [Next]_vars PROVE IInv'
  OBVIOUS
<1> USE DEF IInv
<1>1. inbox \in Seq(Intents) /\ Len(inbox) \in Nat /\ lastStart \in Nat
  BY DEF TypeOK, Intents
<1>2. ASSUME NEW kind \in Kinds, Request(kind)
      PROVE  IInv'
  <2> DEFINE new == [id |-> lastStart + 1, kind |-> kind]
  <2>1. new \in Intents /\ lastStart' = lastStart + 1 /\ inbox' = Append(inbox, new)
        /\ lastStart' \in 0 .. MaxStarts /\ new.id = lastStart + 1
    BY <1>1, <1>2 DEF Request, TypeOK, Intents, Ids
  <2>. HIDE DEF new
  <2>2. /\ inbox' \in Seq(Intents) /\ Len(inbox') = Len(inbox) + 1
        /\ \A k \in 1 .. Len(inbox) : inbox'[k] = inbox[k]
        /\ inbox'[Len(inbox) + 1] = new
    BY <1>1, <2>1, AppendProperties
  <2>3. UNCHANGED <<main, current, worker, interrupted, wifiEvents, foreground, widgets, observing,
                    stopping, destroyed>>
    BY <1>2 DEF Request
  <2>4. TypeOK'
    BY <2>1, <2>2, <2>3 DEF TypeOK, Intents
  <2>5. Delivered' = Delivered
    BY <1>1, <2>1, <2>2 DEF Delivered
  <2>6. \A k \in 1 .. Len(inbox') : inbox'[k].id = Delivered + k
    <3> SUFFICES ASSUME NEW k \in 1 .. Len(inbox') PROVE inbox'[k].id = Delivered + k
      OBVIOUS
    <3>1. CASE k \in 1 .. Len(inbox)
      BY <2>2, <3>1 DEF InOrder
    <3>2. CASE k = Len(inbox) + 1
      BY <1>1, <2>1, <2>2, <3>2 DEF Delivered
    <3>. QED BY <1>1, <2>2, <3>1, <3>2
  <2>7. Len(inbox') <= lastStart'
    BY <1>1, <2>1, <2>2 DEF InOrder
  <2>8. InOrder'
    BY <2>3, <2>5, <2>6, <2>7 DEF InOrder
  <2>9. OneWorker' /\ LiveSessionIsCurrent'
    BY <2>3 DEF OneWorker, LiveSessionIsCurrent
  <2>. QED BY <2>4, <2>8, <2>9
<1>3. CASE WidgetsChange
  <2>1. UNCHANGED <<inbox, lastStart, main, current, worker, interrupted>>
    BY <1>3 DEF WidgetsChange
  <2>2. TypeOK'
    BY <1>3, <2>1 DEF WidgetsChange, TypeOK
  <2>. QED BY <2>1, <2>2 DEF InOrder, Delivered, OneWorker, LiveSessionIsCurrent
<1>4. CASE Deliver
  <2>1. inbox # <<>> /\ main = Idle /\ inbox' = Tail(inbox) /\ UNCHANGED <<lastStart, worker, current, interrupted>>
        /\ main' \in {Idle, Head(inbox)} /\ (main' # Idle => main'.kind \in {"session", "invalid"})
    BY <1>4 DEF Deliver
  <2>2. /\ Head(inbox) = inbox[1] /\ Head(inbox) \in Intents
        /\ Tail(inbox) \in Seq(Intents) /\ Len(Tail(inbox)) = Len(inbox) - 1
        /\ \A k \in 1 .. Len(inbox) - 1 : Tail(inbox)[k] = inbox[k + 1]
    BY <1>1, <2>1, HeadTailProperties
  <2>3. Len(inbox) >= 1
    BY <1>1, <2>1, EmptySeq
  <2>4. Delivered' = Delivered + 1 /\ Delivered \in Int
    BY <1>1, <2>1, <2>2 DEF Delivered
  <2>5. TypeOK'
    <3>1. main' \in {Idle} \cup [id : Ids, kind : {"session", "invalid", "submit"}]
      BY <2>1, <2>2 DEF Intents
    <3>2. {wifiEvents, foreground, widgets, observing, stopping, destroyed}' \subseteq BOOLEAN
      BY <1>4 DEF Deliver, StopSelf, TypeOK
    <3>. QED BY <2>1, <2>2, <3>1, <3>2 DEF TypeOK, Intents
  <2>6. InOrder'
    <3>1. Len(inbox') <= lastStart'
      BY <1>1, <2>1, <2>2 DEF InOrder
    <3>2. \A k \in 1 .. Len(inbox') : inbox'[k].id = Delivered' + k
      BY <1>1, <2>1, <2>2, <2>4 DEF InOrder
    <3>3. Head(inbox).id = Delivered'
      BY <1>1, <2>2, <2>3, <2>4 DEF InOrder
    <3>4. Head(inbox).id \in Ids /\ worker[Head(inbox).id] = "none"
      BY <2>2, <2>4, <3>3 DEF InOrder, Intents, Ids
    <3>5. \A j \in Ids : worker[j] # "none" => j <= Delivered'
      BY <2>4 DEF InOrder, Ids
    <3>. QED BY <2>1, <3>1, <3>2, <3>3, <3>4, <3>5 DEF InOrder
  <2>. QED BY <2>1, <2>5, <2>6 DEF OneWorker, LiveSessionIsCurrent
<1>5. CASE EnsureWifiEvents
  <2>1. main \in [id : Ids, kind : {"session", "invalid", "submit"}]
    BY <1>5 DEF EnsureWifiEvents, TypeOK, Idle
  <2>2. UNCHANGED <<inbox, lastStart, worker, current, interrupted>> /\ main # Idle
        /\ main' \in {Idle, [main EXCEPT !.kind = "submit"]}
    BY <1>5, <2>1 DEF EnsureWifiEvents, Idle
  <2>3. main' = Idle \/ (main'.id = main.id /\ main' \in [id : Ids, kind : {"session", "invalid", "submit"}])
    BY <2>1, <2>2
  <2>4. TypeOK'
    BY <1>5, <2>2, <2>3 DEF EnsureWifiEvents, TypeOK
  <2>. QED BY <2>2, <2>3, <2>4 DEF InOrder, Delivered, OneWorker, LiveSessionIsCurrent
<1>6. CASE StartGrpcSession
  <2>0. PICK n \in Ids : n = main.id
    BY <1>6 DEF StartGrpcSession, TypeOK, Idle
  <2>1. /\ main.kind = "submit" /\ main # Idle /\ main' = Idle /\ current' = n
        /\ UNCHANGED <<inbox, lastStart, wifiEvents, foreground, widgets, observing, stopping, destroyed>>
    BY <1>6, <2>0 DEF StartGrpcSession, Idle
  <2>2. worker[n] = "none" /\ n = Delivered /\ \A j \in Ids \ {n} : worker[j] # "none" => j < n
    BY <1>1, <2>0, <2>1 DEF InOrder, Delivered, Ids
  <2>3. worker' = [j \in Ids |-> IF j = n THEN "queued"
                                 ELSE IF j \in Canceled(n) /\ worker[j] = "queued" THEN "dropped" ELSE worker[j]]
        /\ interrupted' = interrupted \cup {j \in Canceled(n) : worker[j] \in OnWorker}
    BY <1>6, <2>0 DEF StartGrpcSession
  <2>4. worker' \in [Ids -> Stages] /\ worker'[n] = "queued"
    BY <2>3 DEF TypeOK, Stages
  <2>5. \A j \in Ids \ {n} : worker'[j] = worker[j] \/ (worker[j] = "queued" /\ worker'[j] = "dropped")
    BY <2>3
  <2>6. TypeOK'
    <3>1. interrupted' \subseteq Ids
      BY <2>3 DEF TypeOK, Canceled
    <3>2. current' \in 0 .. MaxStarts
      BY <2>1 DEF Ids
    <3>3. main' = Idle
      BY <2>1
    <3>. QED BY <2>1, <2>4, <3>1, <3>2, <3>3 DEF TypeOK
  <2>7. InOrder'
    <3>1. Delivered' = Delivered
      BY <2>1 DEF Delivered
    <3>2. \A j \in Ids : worker'[j] # "none" => j <= Delivered
      BY <2>2, <2>5 DEF Ids
    <3>. QED BY <2>1, <3>1, <3>2 DEF InOrder
  <2>8. OneWorker'
    BY <2>2, <2>4, <2>5 DEF OneWorker, OnWorker, Ids
  <2>9. LiveSessionIsCurrent'
    <3> SUFFICES ASSUME NEW j \in Ids \ {n}, worker'[j] \in {"queued", "running", "finally"}, j \notin interrupted'
                 PROVE  FALSE
      BY <2>1 DEF LiveSessionIsCurrent
    <3>1. worker[j] = worker'[j] /\ j \notin interrupted
      BY <2>3, <2>5
    <3>2. j \in Canceled(n)
      BY <3>1 DEF LiveSessionIsCurrent, Canceled, Pending, OnWorker
    <3>. QED BY <2>3, <3>1, <3>2 DEF OnWorker
  <2>. QED BY <2>6, <2>7, <2>8, <2>9
<1>7. CASE OnDestroy
  <2>1. /\ worker' = [j \in Ids |-> IF worker[j] = "queued" THEN "dropped" ELSE worker[j]]
        /\ interrupted' = interrupted \cup {j \in Ids : worker[j] \in OnWorker}
        /\ UNCHANGED <<inbox, lastStart, main, current>> /\ main = Idle
    BY <1>7 DEF OnDestroy
  <2>2. worker' \in [Ids -> Stages]
        /\ \A j \in Ids : worker'[j] = worker[j] \/ (worker[j] = "queued" /\ worker'[j] = "dropped")
    BY <2>1 DEF TypeOK, Stages
  <2>3. TypeOK'
    BY <1>7, <2>1, <2>2 DEF OnDestroy, TypeOK
  <2>4. InOrder' /\ OneWorker'
    BY <2>1, <2>2 DEF InOrder, Delivered, OneWorker, OnWorker
  <2>5. LiveSessionIsCurrent'
    BY <2>1 DEF LiveSessionIsCurrent, OnWorker
  <2>. QED BY <2>3, <2>4, <2>5
<1>8. ASSUME NEW i \in Ids, Worker(i)
      PROVE  IInv'
  <2> USE DEF OnWorker, Stages, MainVars
  <2>1. CASE WorkerStart(i)
    BY <2>1, MoveKeeps DEF WorkerStart, TypeOK
  <2>2. CASE SessionEnds(i)
    BY <2>2, MoveKeeps DEF SessionEnds, TypeOK
  <2>3. CASE AfterGrpcSessionFinished(i)
    BY <2>3, MoveKeeps DEF AfterGrpcSessionFinished, TypeOK
  <2>4. CASE StopWifiEvents(i)
    BY <2>4, MoveKeeps DEF StopWifiEvents, TypeOK
  <2>5. CASE StopForeground(i)
    BY <2>5, MoveKeeps DEF StopForeground, TypeOK
  <2>6. CASE WorkerStopSelf(i)
    BY <2>6, MoveKeeps DEF WorkerStopSelf, StopSelf, TypeOK
  <2>. QED BY <1>8, <2>1, <2>2, <2>3, <2>4, <2>5, <2>6 DEF Worker
<1>9. CASE UNCHANGED vars
  BY <1>9 DEF vars, TypeOK, InOrder, Delivered, OneWorker, LiveSessionIsCurrent
<1>. QED BY <1>2, <1>3, <1>4, <1>5, <1>6, <1>7, <1>8, <1>9 DEF Next, Main

-----------------------------------------------------------------------------
LEMMA Invariant == ASSUME MaxStarts \in Nat PROVE Spec => []IInv
<1>1. Init => IInv
  BY InitIInv
<1>2. IInv /\ [Next]_vars => IInv'
  BY StepIInv
<1>. QED BY <1>1, <1>2, PTL DEF Spec

(* A stale cleanup never clears the state of a newer session: a session    *)
(* that nobody superseded or shut down is the current one until its own    *)
(* cleanup, whatever else the two threads do.                              *)
THEOREM LiveIsCurrent == ASSUME MaxStarts \in Nat PROVE Spec => []LiveSessionIsCurrent
<1>1. IInv => LiveSessionIsCurrent
  BY DEF IInv
<1>. QED BY <1>1, Invariant, PTL

(* When the cleanup of a session stops the service, no intent is on its    *)
(* way and no session is queued or runs: its start ID is the last one, so  *)
(* everything that came later would have a later one.                      *)
THEOREM SparesNewer == ASSUME MaxStarts \in Nat PROVE Spec => CleanupSparesNewer
<1> DEFINE Stops == ~stopping /\ stopping' /\ \E i \in Ids : worker[i] = "stopSelf" /\ worker'[i] = "done"
           Spared == (\A j \in Ids : worker'[j] \notin {"queued", "running"}) /\ main' = Idle /\ inbox' = <<>>
<1>1. IInv /\ [Next]_vars => [Stops => Spared]_vars
  <2> SUFFICES ASSUME IInv, Next, Stops PROVE Spared
    BY DEF vars
  <2>1. PICK i \in Ids : worker[i] = "stopSelf" /\ worker'[i] = "done"
    OBVIOUS
  <2>2. PICK k \in Ids : Worker(k)
    BY <2>1 DEF Next, Main, Request, WidgetsChange, Deliver, EnsureWifiEvents, StartGrpcSession, OnDestroy,
                OnWorker
  <2>3. WorkerStopSelf(k)
    BY <2>2 DEF Worker, WorkerStart, SessionEnds, AfterGrpcSessionFinished, StopWifiEvents, StopForeground
  <2>4. /\ worker[k] = "stopSelf" /\ worker' = [worker EXCEPT ![k] = "done"] /\ k = lastStart
        /\ UNCHANGED <<inbox, lastStart, main>>
    BY <2>3 DEF WorkerStopSelf, StopSelf, Move
  <2>5. Len(inbox) \in Nat /\ lastStart \in Nat /\ inbox \in Seq(Intents) /\ k <= Delivered
    BY <2>4 DEF IInv, TypeOK, InOrder, Intents
  <2>6. inbox = <<>>
    BY <2>4, <2>5, EmptySeq DEF Delivered
  <2>7. Len(inbox) = 0 /\ Delivered = k
    BY <2>4, <2>6 DEF Delivered
  <2>8. main = Idle
    BY <2>4, <2>7 DEF IInv, InOrder
  <2>9. \A j \in Ids \ {k} : worker[j] \notin OnWorker /\ worker[j] # "queued"
    BY <2>4, <2>7 DEF IInv, InOrder, OneWorker, OnWorker, Ids
  <2>10. \A j \in Ids : worker'[j] \notin {"queued", "running"}
    BY <2>4, <2>9 DEF IInv, TypeOK, OnWorker
  <2>. QED BY <2>4, <2>6, <2>8, <2>10
<1>. QED BY <1>1, Invariant, PTL DEF Spec, CleanupSparesNewer

-----------------------------------------------------------------------------
(* AgentLinkCheck *)

Outcomes == {"PASS", "FAIL", "MISSING", "SKIP", "UNSUPPORTED", "CANCELED"}

(* While the check runs every stage behind it passed, and the first        *)
(* snapshot is the network the second is compared with.                    *)
LinkUnderWay ==
  /\ Len(stages) < Len(Link!StageNames)
  /\ \A i \in 1 .. Len(stages) : stages[i] = "PASS"
  /\ stages = <<>> => network = Link!NoNetwork /\ shown = <<>>
  /\ stages # <<>> => network # Link!NoNetwork /\ shown = <<network>>

LinkInv ==
  /\ stages \in Seq(Outcomes)
  /\ IF report = Link!NoReport THEN LinkUnderWay ELSE Link!LinkPassEarned

LEMMA StageNamesLength ==
  /\ Len(Link!StageNames) \in {2, 5}
  /\ \A i \in 1 .. Len(Link!StageNames) :
       Link!StageNames[i] \in {"ip_before", "ip_after"} <=> i \in {1, Len(Link!StageNames)}
<1>1. CASE Link!Lab
  <2>1. Link!StageNames = <<"ip_before", "gateway_ping", "dns", "http", "ip_after">>
    BY <1>1 DEF Link!StageNames
  <2>2. Len(Link!StageNames) = 5
    BY <2>1
  <2>3. \A i \in 1 .. 5 : i = 1 \/ i = 2 \/ i = 3 \/ i = 4 \/ i = 5
    OBVIOUS
  <2>. QED BY <2>1, <2>2, <2>3
<1>2. CASE ~Link!Lab
  <2>1. Link!StageNames = <<"ip_before", "ip_after">>
    BY <1>2 DEF Link!StageNames
  <2>2. Len(Link!StageNames) = 2
    BY <2>1
  <2>3. \A i \in 1 .. 2 : i = 1 \/ i = 2
    OBVIOUS
  <2>. QED BY <2>1, <2>2, <2>3
<1>. QED BY <1>1, <1>2

(* Finish: what was not reached is skipped.                                *)
LEMMA FinishPads ==
  ASSUME NEW done \in Seq(Outcomes), Len(done) <= Len(Link!StageNames), NEW outcome,
         Link!Finish(done, outcome)
  PROVE  /\ stages' \in Seq(Outcomes) /\ Len(stages') = Len(Link!StageNames) /\ report' = outcome
         /\ \A i \in 1 .. Len(done) : stages'[i] = done[i]
         /\ \A i \in Len(done) + 1 .. Len(Link!StageNames) : stages'[i] = "SKIP"
<1> DEFINE n == Len(Link!StageNames)
           skips == [i \in 1 .. (n - Len(done)) |-> "SKIP"]
<1>1. n \in Nat /\ Len(done) \in Nat /\ n - Len(done) \in Nat
  BY StageNamesLength, LenProperties
<1>2. skips \in Seq(Outcomes) /\ Len(skips) = n - Len(done)
  <2>1. skips \in [1 .. (n - Len(done)) -> Outcomes]
    BY DEF Outcomes
  <2>2. \E m \in Nat : skips \in [1 .. m -> Outcomes] /\ m = n - Len(done)
    BY <1>1, <2>1
  <2>. HIDE DEF skips
  <2>. QED BY <2>2, SeqDef
<1>3. stages' = done \o skips /\ report' = outcome
  BY DEF Link!Finish
<1>. HIDE DEF skips
<1>4. stages' \in Seq(Outcomes) /\ Len(stages') = n
      /\ \A i \in 1 .. n : stages'[i] = IF i <= Len(done) THEN done[i] ELSE skips[i - Len(done)]
  BY <1>1, <1>2, <1>3, ConcatProperties
<1>5. \A i \in 1 .. (n - Len(done)) : skips[i] = "SKIP"
  BY DEF skips
<1>. QED BY <1>1, <1>3, <1>4, <1>5

LEMMA LinkInit == Link!Init => LinkInv
  BY StageNamesLength DEF Link!Init, LinkInv, LinkUnderWay

LEMMA LinkStep == LinkInv /\ [Link!Next]_(Link!vars) => LinkInv'
<1> SUFFICES ASSUME LinkInv, [Link!Next]_(Link!vars) PROVE LinkInv'
  OBVIOUS
<1> DEFINE n == Len(Link!StageNames)
<1>0. Len(stages) \in Nat /\ n \in {2, 5} /\ stages \in Seq(Outcomes)
  BY StageNamesLength DEF LinkInv
<1>1. CASE Link!Refuse
  <2>1. Link!Refusal \in {"UNSUPPORTED", "MISSING"} /\ Link!Refusal # Link!NoReport
    BY <1>1 DEF Link!Refuse, Link!Refusal, Link!NoReport
  <2> DEFINE done == <<Link!Refusal>>
  <2>2. done \in Seq(Outcomes) /\ Len(done) = 1 /\ done[1] = Link!Refusal
    BY <2>1 DEF Outcomes
  <2>. HIDE DEF done
  <2>0. Len(done) = 1
    BY <2>2
  <2>3. Link!Finish(done, Link!Refusal) /\ command' = command
    BY <1>1 DEF Link!Refuse, done
  <2>4. /\ stages' \in Seq(Outcomes) /\ Len(stages') = n /\ report' = Link!Refusal
        /\ stages'[1] = Link!Refusal /\ \A i \in 2 .. n : stages'[i] = "SKIP"
    <3>0. n = 2 \/ n = 5
      BY <1>0
    <3>1. Len(done) <= n /\ Len(done) + 1 = 2
      BY <2>0, <3>0
    <3>2. /\ stages' \in Seq(Outcomes) /\ Len(stages') = n /\ report' = Link!Refusal
          /\ \A i \in 1 .. Len(done) : stages'[i] = done[i]
          /\ \A i \in Len(done) + 1 .. n : stages'[i] = "SKIP"
      BY <2>2, <2>3, <3>1, FinishPads
    <3>. QED BY <2>2, <3>1, <3>2
  <2>5. Link!StageNames' = Link!StageNames
    BY <2>3 DEF Link!StageNames, Link!Lab
  <2>6. \E i \in 1 .. Len(stages') :
          /\ stages'[i] = report'
          /\ \A j \in 1 .. (i - 1) : stages'[j] = "PASS"
          /\ \A j \in (i + 1) .. Len(stages') : stages'[j] = "SKIP"
    <3>1. 1 \in 1 .. Len(stages')
      BY <1>0, <2>4
    <3>. QED BY <2>4, <3>1
  <2>7. Link!LinkPassEarned'
    BY <2>1, <2>4, <2>5, <2>6 DEF Link!LinkPassEarned
  <2>. QED BY <2>1, <2>4, <2>7 DEF LinkInv, Link!NoReport
<1>2. CASE Link!Stage
  <2> DEFINE name == Link!StageNames[Len(stages) + 1]
             ip == name \in {"ip_before", "ip_after"}
             out(r) == IF ip THEN Link!SnapshotOutcome(r, network) ELSE Link!ProbeOutcome(name, r)
             done(r) == Append(stages, out(r))
  <2>1. PICK r \in Link!Reads :
          /\ shown' = IF ip THEN Append(shown, r.identity) ELSE shown
          /\ network' = IF ip /\ out(r) = "PASS" THEN r.identity ELSE network
          /\ IF out(r) # "PASS" \/ Len(stages) + 1 = n THEN Link!Finish(done(r), out(r))
             ELSE stages' = done(r) /\ report' = Link!NoReport
    BY <1>2 DEF Link!Stage
  <2>2. report = Link!NoReport /\ command' = command /\ LinkUnderWay
    BY <1>2 DEF Link!Stage, LinkInv
  <2>3. out(r) \in Outcomes \ {"SKIP"}
    <3>1. r.quality \in {"met", "unmet", "unknown"}
      BY DEF Link!Reads
    <3>2. Link!Failure(r) \in {"CANCELED", "MISSING", "none"} /\ Link!Quality(r) \in {"MISSING", "FAIL", "PASS"}
      BY <3>1 DEF Link!Failure, Link!Quality
    <3>. QED BY <3>2 DEF Link!SnapshotOutcome, Link!ProbeOutcome, Outcomes
  <2>4. ip /\ out(r) = "PASS" =>
          r.identity # Link!NoNetwork /\ (network # Link!NoNetwork => r.identity = network)
    BY DEF Link!SnapshotOutcome, Link!Failure, Link!Quality
  <2>5. ip <=> Len(stages) + 1 \in {1, n}
    BY <1>0, <2>2, StageNamesLength DEF LinkUnderWay
  <2>6. Link!StageNames' = Link!StageNames
    BY <2>2 DEF Link!StageNames, Link!Lab
  <2>. HIDE DEF out, ip, name
  <2>7. /\ done(r) \in Seq(Outcomes) /\ Len(done(r)) = Len(stages) + 1
        /\ \A i \in 1 .. Len(stages) : done(r)[i] = "PASS"
        /\ done(r)[Len(stages) + 1] = out(r)
    BY <1>0, <2>2, <2>3, AppendProperties DEF LinkUnderWay
  <2>. HIDE DEF done
  <2>8. CASE out(r) = "PASS" /\ Len(stages) + 1 # n
    <3>1. stages' = done(r) /\ report' = Link!NoReport /\ stages' # <<>>
      BY <1>0, <2>1, <2>7, <2>8
    <3>2. Len(stages') < n /\ \A i \in 1 .. Len(stages') : stages'[i] = "PASS"
      BY <1>0, <2>2, <2>7, <2>8, <3>1 DEF LinkUnderWay
    <3>3. network' # Link!NoNetwork /\ shown' = <<network'>>
      <4>1. CASE stages = <<>>
        <5>1. ip /\ network' = r.identity /\ shown' = Append(<<>>, r.identity)
          BY <1>0, <2>1, <2>2, <2>5, <2>8, <4>1 DEF LinkUnderWay
        <5>. QED BY <2>4, <2>8, <5>1
      <4>2. CASE stages # <<>>
        <5>1. Len(stages) # 0
          BY <1>0, <4>2, EmptySeq
        <5>. QED BY <1>0, <2>1, <2>2, <2>5, <2>8, <4>2, <5>1 DEF LinkUnderWay
      <4>. QED BY <4>1, <4>2
    <3>. QED BY <2>6, <2>7, <3>1, <3>2, <3>3 DEF LinkInv, LinkUnderWay, Link!NoNetwork, Link!NoReport
  <2>9. CASE out(r) # "PASS" \/ Len(stages) + 1 = n
    <3>1. Link!Finish(done(r), out(r)) /\ Len(done(r)) <= n
      BY <1>0, <2>1, <2>2, <2>7, <2>9 DEF LinkUnderWay
    <3>2. /\ stages' \in Seq(Outcomes) /\ Len(stages') = n /\ report' = out(r)
          /\ \A i \in 1 .. Len(stages) : stages'[i] = "PASS"
          /\ stages'[Len(stages) + 1] = out(r)
          /\ \A i \in Len(stages) + 2 .. n : stages'[i] = "SKIP"
      BY <1>0, <2>3, <2>7, <3>1, FinishPads
    <3>3. ASSUME out(r) = "PASS" PROVE shown'[1] = shown'[2] /\ shown'[1] # Link!NoNetwork
      <4>1. Len(stages) + 1 = n /\ stages # <<>> /\ ip
        BY <1>0, <2>5, <2>9, <3>3, EmptySeq
      <4>2. shown' = Append(<<network>>, r.identity) /\ network # Link!NoNetwork /\ r.identity = network
        BY <2>1, <2>2, <2>4, <3>3, <4>1 DEF LinkUnderWay
      <4>. QED BY <4>2
    <3>4. Link!LinkPassEarned'
      <4>1. \A i \in 1 .. Len(stages') :
              stages'[i] = IF i <= Len(stages) THEN "PASS" ELSE IF i = Len(stages) + 1 THEN out(r) ELSE "SKIP"
        BY <1>0, <3>2
      <4>2. Len(stages) + 1 \in 1 .. n
        BY <1>0, <2>2 DEF LinkUnderWay
      <4>3. ASSUME report' = "PASS" PROVE \A i \in 1 .. Len(stages') : stages'[i] = "PASS"
        BY <1>0, <2>9, <3>2, <4>1, <4>3
      <4>4. ASSUME report' # "PASS"
            PROVE  \E i \in 1 .. Len(stages') :
                     /\ stages'[i] = report'
                     /\ \A j \in 1 .. (i - 1) : stages'[j] = "PASS"
                     /\ \A j \in (i + 1) .. Len(stages') : stages'[j] = "SKIP"
        <5>1. Len(stages') = n /\ report' = out(r)
          BY <3>2
        <5>2. \A j \in 1 .. Len(stages) + 1 - 1 : stages'[j] = "PASS"
          BY <1>0, <3>2
        <5>3. \A j \in Len(stages) + 1 + 1 .. n : stages'[j] = "SKIP"
          BY <1>0, <3>2
        <5>. QED BY <3>2, <4>2, <5>1, <5>2, <5>3
      <4>. QED BY <2>6, <3>2, <3>3, <4>3, <4>4 DEF Link!LinkPassEarned, Link!NoNetwork
    <3>. QED BY <2>3, <3>2, <3>4 DEF LinkInv, Link!NoReport, Outcomes
  <2>. QED BY <2>8, <2>9
<1>3. CASE UNCHANGED Link!vars
  BY <1>3 DEF Link!vars, LinkInv, LinkUnderWay, Link!LinkPassEarned, Link!StageNames, Link!Lab, Link!NoNetwork, Link!NoReport
<1>. QED BY <1>1, <1>2, <1>3 DEF Link!Next

THEOREM LinkPasses == Link!Spec => []Link!LinkPassEarned
<1>1. LinkInv => Link!LinkPassEarned
  BY DEF LinkInv, Link!LinkPassEarned
<1>. QED BY <1>1, LinkInit, LinkStep, PTL DEF Link!Spec

-----------------------------------------------------------------------------
(* AgentShell *)

(* Results are not empty, so that 0 stands for none.                       *)
ShellAssumption == Sizes \subseteq Nat \ {0}

(* The owner is busy with one action: it runs or its result waits.         *)
ShellInv ==
  /\ screens \in Nat /\ posted \in Nat /\ started \in Nat /\ delivered \in Nat
  /\ thread \in {"none", "runs", "interrupted"} /\ result \in Nat
  /\ thread = "none" \/ result = Shell!None
  /\ screen = Shell!None => listener = Shell!None
  /\ Shell!ResultReachesScreen

LEMMA ShellInit == Shell!Init => ShellInv
  BY DEF Shell!Init, ShellInv, Shell!ResultReachesScreen, Shell!None

LEMMA ShellStep == ASSUME ShellAssumption PROVE ShellInv /\ [Shell!Next]_(Shell!vars) => ShellInv'
<1> SUFFICES ASSUME ShellInv, [Shell!Next]_(Shell!vars) PROVE ShellInv'
  OBVIOUS
<1> USE DEF ShellInv, Shell!ResultReachesScreen, Shell!None
<1>1. CASE Shell!Start
  BY <1>1 DEF Shell!Start, Shell!Busy
<1>2. CASE Shell!LocalCommand \/ UNCHANGED Shell!vars
  BY <1>2 DEF Shell!LocalCommand, Shell!owner, Shell!vars
<1>3. CASE Shell!Cancel
  BY <1>3 DEF Shell!Cancel
<1>4. CASE Shell!Complete
  <2>1. result' \in Nat \ {0}
    BY <1>4 DEF Shell!Complete, ShellAssumption
  <2>. QED BY <1>4, <2>1 DEF Shell!Complete
<1>5. CASE Shell!Deliver
  BY <1>5 DEF Shell!Deliver
<1>6. CASE Shell!OnCreateRetained
  BY <1>6 DEF Shell!OnCreateRetained, Shell!Attach
<1>7. CASE Shell!OnCreateFresh
  BY <1>7 DEF Shell!OnCreateFresh
<1>8. CASE Shell!OnDestroyChanging
  BY <1>8 DEF Shell!OnDestroyChanging
<1>9. CASE Shell!OnDestroyFinishing
  BY <1>9 DEF Shell!OnDestroyFinishing
<1>. QED BY <1>1, <1>2, <1>3, <1>4, <1>5, <1>6, <1>7, <1>8, <1>9 DEF Shell!Next

THEOREM ResultsReachScreen == ASSUME ShellAssumption PROVE Shell!Spec => []Shell!ResultReachesScreen
<1>1. ShellInv => Shell!ResultReachesScreen
  BY DEF ShellInv
<1>2. ShellInv /\ [Shell!Next]_(Shell!vars) => ShellInv'
  BY ShellStep
<1>. QED BY <1>1, <1>2, ShellInit, PTL DEF Shell!Spec

-----------------------------------------------------------------------------
(* AgentLogView *)

LogAssumption == {FileLines, KeepLines, TailLines, DisplayLines} \subseteq Nat /\ TailLines # 0

(* What a screen says of a line: it shows it, or a later line that the     *)
(* main thread appended, or every line after some mark (or after the top   *)
(* of the screen) is newer.                                                *)
Told(v, dir, l) ==
  \/ \E j \in 1 .. Len(v) : v[j] = l
  \/ \E k \in dir : k >= l
  \/ \E c \in 0 .. Len(v) :
       /\ c = 0 \/ v[c] = Log!Omitted
       /\ \A j \in c + 1 .. Len(v) : v[j] = Log!Omitted \/ v[j] > l

(* Only a line of the main thread may stand above an older one.            *)
Ordered(v, dir) ==
  \A i, j \in 1 .. Len(v) : i < j /\ v[j] # Log!Omitted /\ v[i] >= v[j] => v[i] \in dir

(* A line of the log that waits in the looper for the current screen.      *)
Current(i) == looper[i][1] = generation
Posted(l) == \E i \in 1 .. Len(looper) : Current(i) /\ looper[i][2] = l

LogTyped ==
  /\ logged \in Nat /\ generation \in Nat /\ lastLogLine \in 0 .. logged
  /\ direct \subseteq 1 .. logged
  /\ file \in Seq(Nat) /\ view \in Seq(Nat) /\ looper \in Seq(Nat \X Nat)
  /\ \A j \in 1 .. Len(view) : view[j] <= logged
  /\ phase \in {"none", "created", "started", "stopped"}
  /\ phase # "none" => lastLogLine # Log!Null

(* terminal.log holds the last lines.                                      *)
FileIsTail ==
  /\ Len(file) <= logged /\ (logged # 0 => Len(file) # 0)
  /\ \A i \in 1 .. Len(file) : file[i] = logged - Len(file) + i

(* Posts are in the order of the lines, and after OnStop none is current.  *)
PostsInOrder ==
  /\ IF phase = "started" THEN listening = generation /\ generation # Log!Null
     ELSE listening = Log!Null
  /\ \A i \in 1 .. Len(looper) :
       /\ looper[i][1] <= generation /\ looper[i][2] \in 1 .. logged
       /\ Current(i) => phase = "started"
       /\ \A j \in i + 1 .. Len(looper) : looper[i][2] < looper[j][2]

(* What the screen shows is not newer than the last line appended, nor     *)
(* than a line that waits, unless it is of the main thread; and whatever   *)
(* is newer than a line that waits, waits behind it or is of the main      *)
(* thread.                                                                 *)
ViewInOrder ==
  /\ Ordered(view, direct)
  /\ \A j \in 1 .. Len(view) : view[j] > lastLogLine => view[j] \in direct
  /\ \A i \in 1 .. Len(looper) :
       Current(i) =>
         /\ \A j \in 1 .. Len(view) : view[j] >= looper[i][2] => view[j] \in direct
         /\ \A l \in looper[i][2] + 1 .. logged : l \in direct \/ Posted(l)

(* A line that the screen says nothing of is newer than the last one, and  *)
(* waits in the looper where the screen is started.                        *)
GapsPending ==
  phase # "none" =>
    \A l \in 1 .. logged :
      Told(view, direct, l) \/ (l > lastLogLine /\ (phase = "started" => Posted(l)))

LogInv == LogTyped /\ FileIsTail /\ PostsInOrder /\ ViewInOrder /\ GapsPending

LEMMA TakeLastShape ==
  ASSUME NEW f \in Seq(Nat), NEW k \in Nat, NEW v, v = Log!TakeLast(f, k)
  PROVE  /\ v \in Seq(Nat) /\ Len(v) = IF Len(f) > k THEN k ELSE Len(f)
         /\ \A i \in 1 .. Len(v) : v[i] = f[Len(f) - Len(v) + i]
<1> DEFINE m == IF Len(f) > k THEN Len(f) - k + 1 ELSE 1
<1>1. Len(f) \in Nat /\ m \in Int /\ \A i \in m .. Len(f) : f[i] \in Nat
  BY LenProperties, ElementOfSeq
<1>2. v = SubSeq(f, m, Len(f))
  BY DEF Log!TakeLast
<1>. HIDE DEF m
<1>3. v \in Seq(Nat) /\ Len(v) = (IF m <= Len(f) THEN Len(f) - m + 1 ELSE 0)
      /\ \A i \in 1 .. Len(f) - m + 1 : v[i] = f[m + i - 1]
  BY <1>1, <1>2, SubSeqProperties
<1>4. CASE Len(f) > k
  <2>1. m = Len(f) - k + 1
    BY <1>4 DEF m
  <2>2. (k = 0 => ~(m <= Len(f))) /\ (k # 0 => m <= Len(f)) /\ Len(f) - m + 1 = k
    BY <1>1, <1>4, <2>1
  <2>3. Len(v) = k
    BY <1>3, <2>2
  <2>4. \A i \in 1 .. k : m + i - 1 = Len(f) - k + i
    BY <1>1, <2>1
  <2>. QED BY <1>3, <1>4, <2>2, <2>3, <2>4
<1>5. CASE ~(Len(f) > k)
  <2>1. m = 1
    BY <1>5 DEF m
  <2>2. (Len(f) = 0 => ~(m <= Len(f))) /\ (Len(f) # 0 => m <= Len(f)) /\ Len(f) - m + 1 = Len(f)
    BY <1>1, <2>1
  <2>3. Len(v) = Len(f)
    BY <1>3, <2>2
  <2>4. \A i \in 1 .. Len(f) : m + i - 1 = Len(f) - Len(f) + i
    BY <1>1, <2>1
  <2>. QED BY <1>3, <1>5, <2>2, <2>3, <2>4
<1>. QED BY <1>4, <1>5

(* What a screen told before its oldest lines went, it still tells.        *)
LEMMA Trimmed ==
  ASSUME NEW f \in Seq(Nat), NEW v \in Seq(Nat), Len(v) <= Len(f),
         \A i \in 1 .. Len(v) : v[i] = f[Len(f) - Len(v) + i],
         NEW dir, Ordered(f, dir)
  PROVE  /\ Ordered(v, dir)
         /\ \A l \in Nat \ {0} : Told(f, dir, l) => Told(v, dir, l)
<1> DEFINE d == Len(f) - Len(v)
<1>1. Len(f) \in Nat /\ Len(v) \in Nat /\ d \in Nat /\ Len(f) = d + Len(v)
  BY LenProperties
<1>2. \A i \in 1 .. Len(v) : d + i \in 1 .. Len(f) /\ v[i] = f[d + i]
  BY <1>1
<1>. HIDE DEF d
<1>3. Ordered(v, dir)
  <2> SUFFICES ASSUME NEW i \in 1 .. Len(v), NEW j \in 1 .. Len(v), i < j, v[j] # Log!Omitted, v[i] >= v[j]
               PROVE  v[i] \in dir
    BY DEF Ordered
  <2>1. d + i \in 1 .. Len(f) /\ d + j \in 1 .. Len(f) /\ d + i < d + j
    BY <1>1, <1>2
  <2>. QED BY <1>2, <2>1 DEF Ordered
<1>4. ASSUME NEW l \in Nat \ {0}, Told(f, dir, l) PROVE Told(v, dir, l)
  <2>1. CASE \E j \in 1 .. Len(f) : f[j] = l
    <3>1. PICK j \in 1 .. Len(f) : f[j] = l
      BY <2>1
    <3>2. CASE j > d
      <4>1. j - d \in 1 .. Len(v) /\ d + (j - d) = j
        BY <1>1, <3>2
      <4>. QED BY <1>2, <3>1, <4>1 DEF Told
    <3>3. CASE j <= d /\ l \in dir
      BY <3>3 DEF Told
    <3>4. CASE j <= d /\ l \notin dir
      <4>1. \A i \in 1 .. Len(v) : v[i] = Log!Omitted \/ v[i] > l
        <5> SUFFICES ASSUME NEW i \in 1 .. Len(v), v[i] # Log!Omitted PROVE v[i] > l
          OBVIOUS
        <5>1. d + i \in 1 .. Len(f) /\ j < d + i /\ f[d + i] # Log!Omitted
          BY <1>1, <1>2, <3>4
        <5>2. ~(f[j] >= f[d + i])
          BY <3>1, <3>4, <5>1 DEF Ordered
        <5>. QED BY <1>2, <3>1, <5>1, <5>2, ElementOfSeq
      <4>2. 0 \in 0 .. Len(v) /\ \A i \in 0 + 1 .. Len(v) : v[i] = Log!Omitted \/ v[i] > l
        BY <1>1, <4>1
      <4>. QED BY <4>2 DEF Told
    <3>. QED BY <1>1, <3>2, <3>3, <3>4
  <2>2. CASE \E k \in dir : k >= l
    BY <2>2 DEF Told
  <2>3. CASE \E c \in 0 .. Len(f) :
               /\ c = 0 \/ f[c] = Log!Omitted
               /\ \A j \in c + 1 .. Len(f) : f[j] = Log!Omitted \/ f[j] > l
    <3>1. PICK c \in 0 .. Len(f) :
               /\ c = 0 \/ f[c] = Log!Omitted
               /\ \A j \in c + 1 .. Len(f) : f[j] = Log!Omitted \/ f[j] > l
      BY <2>3
    <3> DEFINE e == IF c > d THEN c - d ELSE 0
    <3>2. e \in 0 .. Len(v) /\ (e = 0 \/ v[e] = Log!Omitted)
      <4>1. CASE c > d
        <5>1. e = c - d
          BY <4>1
        <5>2. c \in Nat /\ c <= Len(f)
          BY <3>1, <1>1
        <5>. HIDE DEF e
        <5>3. e \in 1 .. Len(v) /\ d + e = c /\ c # 0
          BY <1>1, <4>1, <5>1, <5>2
        <5>. QED BY <1>2, <3>1, <5>3
      <4>2. CASE c <= d
        BY <1>1, <4>2
      <4>. QED BY <1>1, <4>1, <4>2
    <3>3. \A j \in e + 1 .. Len(v) : d + j \in c + 1 .. Len(f) /\ j \in 1 .. Len(v)
      BY <1>1, <3>1
    <3>. HIDE DEF e
    <3>4. \A j \in e + 1 .. Len(v) : v[j] = Log!Omitted \/ v[j] > l
      BY <1>2, <3>1, <3>3
    <3>. QED BY <3>2, <3>4 DEF Told
  <2>. QED BY <1>4, <2>1, <2>2, <2>3 DEF Told
<1>. QED BY <1>3, <1>4

(* appendLogLine: what the lines tell, and what the screen told of older   *)
(* lines than they, the screen tells then.                                 *)
LEMMA Appending ==
  ASSUME LogAssumption, view \in Seq(Nat), NEW s \in Seq(Nat), Log!AppendLogLines(s),
         NEW dir, direct \subseteq dir, Ordered(view, direct),
         \A i \in 1 .. Len(s), j \in 1 .. Len(view) :
           s[i] # Log!Omitted /\ view[j] >= s[i] => view[j] \in dir,
         Ordered(s, dir)
  PROVE  /\ view' \in Seq(Nat) /\ Ordered(view', dir)
         /\ \A j \in 1 .. Len(view') : \/ \E i \in 1 .. Len(view) : view'[j] = view[i]
                                       \/ \E i \in 1 .. Len(s) : view'[j] = s[i]
         /\ \A l \in Nat \ {0} :
              \/ Told(view, direct, l) /\ \A i \in 1 .. Len(s) : s[i] = Log!Omitted \/ s[i] > l
              \/ \E i \in 1 .. Len(s) : s[i] = l
              \/ \E k \in dir : k >= l
              \/ Len(s) # 0 /\ s[1] = Log!Omitted /\ \A i \in 2 .. Len(s) : s[i] > l
              => Told(view', dir, l)
<1> DEFINE f == view \o s
           n == Len(view)
<1>1. /\ f \in Seq(Nat) /\ n \in Nat /\ Len(s) \in Nat /\ Len(f) = n + Len(s)
      /\ \A i \in 1 .. n + Len(s) : f[i] = IF i <= n THEN view[i] ELSE s[i - n]
  BY LenProperties, ConcatProperties
<1>2. view' = Log!TakeLast(f, DisplayLines) /\ DisplayLines \in Nat
  BY DEF Log!AppendLogLines, Log!TrimDisplay, LogAssumption
<1>. HIDE DEF f, n
<1>3. /\ view' \in Seq(Nat) /\ Len(view') <= Len(f) /\ Len(view') \in Nat
      /\ \A i \in 1 .. Len(view') : view'[i] = f[Len(f) - Len(view') + i]
  <2> DEFINE w == Log!TakeLast(f, DisplayLines)
  <2>0. f \in Seq(Nat) /\ DisplayLines \in Nat /\ w = Log!TakeLast(f, DisplayLines)
    BY <1>1, <1>2
  <2>. HIDE DEF w
  <2>1. /\ w \in Seq(Nat)
        /\ Len(w) = IF Len(f) > DisplayLines THEN DisplayLines ELSE Len(f)
        /\ \A i \in 1 .. Len(w) : w[i] = f[Len(f) - Len(w) + i]
    BY <2>0, TakeLastShape
  <2>2. Len(f) \in Nat
    BY <1>1
  <2>3. Len(w) <= Len(f) /\ Len(w) \in Nat
    BY <1>2, <2>1, <2>2
  <2>4. view' = w
    BY <1>2, <2>0
  <2>. QED BY <2>1, <2>3, <2>4
<1>4. \A i \in 1 .. n : f[i] = view[i] /\ i \in 1 .. Len(f)
  BY <1>1
<1>5. \A i \in 1 .. Len(s) : f[n + i] = s[i] /\ n + i \in 1 .. Len(f)
  BY <1>1
<1>6. Ordered(f, dir)
  <2> SUFFICES ASSUME NEW i \in 1 .. Len(f), NEW j \in 1 .. Len(f), i < j, f[j] # Log!Omitted, f[i] >= f[j]
               PROVE  f[i] \in dir
    BY DEF Ordered
  <2>1. CASE j <= n
    <3>1. i \in 1 .. n /\ j \in 1 .. n /\ f[i] = view[i] /\ f[j] = view[j]
      BY <1>1, <2>1
    <3>. QED BY <3>1 DEF Ordered, n
  <2>2. CASE i <= n /\ j > n
    <3>1. f[i] = view[i] /\ f[j] = s[j - n] /\ j - n \in 1 .. Len(s) /\ i \in 1 .. Len(view)
      BY <1>1, <2>2 DEF n
    <3>. QED BY <3>1
  <2>3. CASE i > n
    <3>1. f[i] = s[i - n] /\ f[j] = s[j - n] /\ i - n \in 1 .. Len(s) /\ j - n \in 1 .. Len(s) /\ i - n < j - n
      BY <1>1, <2>3
    <3>. QED BY <3>1 DEF Ordered
  <2>. QED BY <1>1, <2>1, <2>2, <2>3
<1>7. Ordered(view', dir) /\ \A l \in Nat \ {0} : Told(f, dir, l) => Told(view', dir, l)
  BY <1>1, <1>3, <1>6, Trimmed
<1>8. ASSUME NEW j \in 1 .. Len(view')
      PROVE  (\E i \in 1 .. Len(view) : view'[j] = view[i]) \/ (\E i \in 1 .. Len(s) : view'[j] = s[i])
  <2> DEFINE p == Len(f) - Len(view') + j
  <2>1. p \in 1 .. n + Len(s) /\ view'[j] = f[p]
    BY <1>1, <1>3
  <2>. HIDE DEF p
  <2>2. p \in 1 .. n \/ p - n \in 1 .. Len(s)
    BY <1>1, <2>1
  <2>. QED BY <1>1, <2>1, <2>2 DEF n
<1>9. ASSUME NEW l \in Nat \ {0}, Told(view, direct, l), \A i \in 1 .. Len(s) : s[i] = Log!Omitted \/ s[i] > l
      PROVE  Told(f, dir, l)
  <2>1. CASE \E j \in 1 .. Len(view) : view[j] = l
    BY <1>4, <2>1 DEF Told, n
  <2>2. CASE \E k \in direct : k >= l
    BY <2>2 DEF Told
  <2>3. CASE \E c \in 0 .. Len(view) :
               /\ c = 0 \/ view[c] = Log!Omitted
               /\ \A j \in c + 1 .. Len(view) : view[j] = Log!Omitted \/ view[j] > l
    <3>1. PICK c \in 0 .. n :
               /\ c = 0 \/ view[c] = Log!Omitted
               /\ \A j \in c + 1 .. n : view[j] = Log!Omitted \/ view[j] > l
      BY <2>3 DEF n
    <3>2. c \in 0 .. Len(f) /\ (c = 0 \/ f[c] = Log!Omitted)
      BY <1>1, <1>4, <3>1
    <3>3. \A j \in c + 1 .. Len(f) : f[j] = Log!Omitted \/ f[j] > l
      <4> SUFFICES ASSUME NEW j \in c + 1 .. Len(f) PROVE f[j] = Log!Omitted \/ f[j] > l
        OBVIOUS
      <4>1. CASE j <= n
        <5>1. j \in c + 1 .. n /\ j \in 1 .. n /\ f[j] = view[j]
          BY <1>1, <3>1, <4>1
        <5>. QED BY <3>1, <5>1
      <4>2. CASE j > n
        <5>1. j - n \in 1 .. Len(s) /\ f[j] = s[j - n]
          BY <1>1, <4>2
        <5>. QED BY <1>9, <5>1
      <4>. QED BY <1>1, <4>1, <4>2
    <3>. QED BY <3>2, <3>3 DEF Told
  <2>. QED BY <1>9, <2>1, <2>2, <2>3 DEF Told
<1>10. ASSUME NEW l \in Nat \ {0}, Len(s) # 0, s[1] = Log!Omitted, \A i \in 2 .. Len(s) : s[i] > l
       PROVE  Told(f, dir, l)
  <2>1. n + 1 \in 0 .. Len(f) /\ f[n + 1] = Log!Omitted
    BY <1>1, <1>5, <1>10
  <2>2. \A j \in n + 1 + 1 .. Len(f) : j - n \in 2 .. Len(s) /\ f[j] = s[j - n]
    BY <1>1
  <2>. QED BY <1>10, <2>1, <2>2 DEF Told
<1>11. ASSUME NEW l \in Nat \ {0}, \E i \in 1 .. Len(s) : s[i] = l PROVE Told(f, dir, l)
  BY <1>5, <1>11 DEF Told
<1>12. ASSUME NEW l \in Nat \ {0}, \E k \in dir : k >= l PROVE Told(f, dir, l)
  BY <1>12 DEF Told
<1>. QED BY <1>3, <1>7, <1>8, <1>9, <1>10, <1>11, <1>12

(* A file that ends with the last line and has no hole.                    *)
Contiguous(f, last) == Len(f) <= last /\ \A i \in 1 .. Len(f) : f[i] = last - Len(f) + i

LEMMA TakingKeepsTail ==
  ASSUME NEW f \in Seq(Nat), NEW last \in Nat, Contiguous(f, last), NEW k \in Nat
  PROVE  /\ Log!TakeLast(f, k) \in Seq(Nat) /\ Contiguous(Log!TakeLast(f, k), last)
         /\ k # 0 /\ Len(f) # 0 => Len(Log!TakeLast(f, k)) # 0
<1> DEFINE v == Log!TakeLast(f, k)
<1>1. v = Log!TakeLast(f, k)
  OBVIOUS
<1>. HIDE DEF v
<1>2. /\ v \in Seq(Nat) /\ Len(v) = IF Len(f) > k THEN k ELSE Len(f)
      /\ \A i \in 1 .. Len(v) : v[i] = f[Len(f) - Len(v) + i]
  BY <1>1, TakeLastShape
<1>3. Len(f) \in Nat /\ Len(v) \in Nat
  BY <1>2, LenProperties
<1>4. Len(v) <= Len(f) /\ Len(v) <= last /\ (k # 0 /\ Len(f) # 0 => Len(v) # 0)
  BY <1>2, <1>3 DEF Contiguous
<1>5. ASSUME NEW i \in 1 .. Len(v) PROVE v[i] = last - Len(v) + i
  <2>1. Len(f) - Len(v) + i \in 1 .. Len(f)
    BY <1>3, <1>4
  <2>2. f[Len(f) - Len(v) + i] = last - Len(f) + (Len(f) - Len(v) + i)
    BY <2>1 DEF Contiguous
  <2>3. v[i] = f[Len(f) - Len(v) + i]
    BY <1>2
  <2>4. i \in Nat /\ last - Len(f) + (Len(f) - Len(v) + i) = last - Len(v) + i
    BY <1>3
  <2>. QED BY <2>2, <2>3, <2>4
<1>. QED BY <1>1, <1>2, <1>4, <1>5 DEF Contiguous

(* TerminalLog.append, with or without a compaction before it.             *)
LEMMA FileGrows ==
  ASSUME LogAssumption, LogTyped, NEW f \in Seq(Nat), Contiguous(f, logged)
  PROVE  /\ Log!CompactIfNeeded(f) \in Seq(Nat) /\ Contiguous(Log!CompactIfNeeded(f), logged)
         /\ Log!Appended(f, logged + 1) \in Seq(Nat)
         /\ Contiguous(Log!Appended(f, logged + 1), logged + 1)
         /\ Len(Log!Appended(f, logged + 1)) # 0
<1> DEFINE g == Log!CompactIfNeeded(f)
           h == Log!Appended(f, logged + 1)
<1>1. logged \in Nat /\ KeepLines \in Nat
  BY DEF LogAssumption, LogTyped
<1>2. g \in Seq(Nat) /\ Contiguous(g, logged)
  BY <1>1, TakingKeepsTail DEF Log!CompactIfNeeded
<1>3. h = Append(g, logged + 1)
  BY DEF Log!Appended
<1>. HIDE DEF g, h
<1>4. /\ h \in Seq(Nat) /\ Len(h) = Len(g) + 1 /\ h[Len(g) + 1] = logged + 1
      /\ \A i \in 1 .. Len(g) : h[i] = g[i]
  BY <1>1, <1>2, <1>3, AppendProperties
<1>5. Len(g) \in Nat /\ Len(g) <= logged
  BY <1>2, LenProperties DEF Contiguous
<1>6. Contiguous(h, logged + 1) /\ Len(h) # 0
  <2>1. ASSUME NEW i \in 1 .. Len(h) PROVE h[i] = logged + 1 - Len(h) + i
    <3>1. CASE i = Len(g) + 1
      BY <1>1, <1>4, <1>5, <3>1
    <3>2. CASE i # Len(g) + 1
      <4>1. i \in 1 .. Len(g)
        BY <1>4, <1>5, <3>2
      <4>2. h[i] = logged - Len(g) + i
        BY <1>2, <1>4, <4>1 DEF Contiguous
      <4>. QED BY <1>1, <1>4, <1>5, <4>2
    <3>. QED BY <3>1, <3>2
  <2>. QED BY <1>1, <1>4, <1>5, <2>1 DEF Contiguous
<1>. QED BY <1>2, <1>4, <1>6 DEF g, h

(* terminalCatchUp: the newer lines of the tail, under a mark where the    *)
(* last line that was shown is no longer in it.                            *)
LEMMA CatchingUp ==
  ASSUME LogAssumption, LogTyped, FileIsTail, phase # "none",
         NEW s, s = Log!TerminalCatchUp(lastLogLine, Log!TailOf(file))
  PROVE  /\ s \in Seq(Nat)
         /\ \A i \in 1 .. Len(s) : s[i] = Log!Omitted \/ s[i] \in lastLogLine + 1 .. logged
         /\ \A i, j \in 1 .. Len(s) : i < j => s[i] < s[j]
         /\ logged = IF s = << >> THEN lastLogLine ELSE s[Len(s)]
         /\ \A l \in lastLogLine + 1 .. logged :
              \/ \E i \in 1 .. Len(s) : s[i] = l
              \/ Len(s) # 0 /\ s[1] = Log!Omitted /\ \A i \in 2 .. Len(s) : s[i] > l
<1> DEFINE t == Log!TailOf(file)
           n == Len(t)
           P == {i \in 1 .. Len(t) : t[i] = lastLogLine}
           mark == Log!SelectLastInSeq(t, LAMBDA l : l = lastLogLine)
<1>1. /\ logged \in Nat /\ lastLogLine \in 1 .. logged
      /\ file \in Seq(Nat) /\ Contiguous(file, logged) /\ Len(file) # 0 /\ TailLines \in Nat /\ TailLines # 0
  BY DEF LogAssumption, LogTyped, FileIsTail, Log!Null, Contiguous
<1>2. t \in Seq(Nat) /\ Contiguous(t, logged) /\ n # 0
  BY <1>1, TakingKeepsTail DEF Log!TailOf
<1>3. t # << >> /\ lastLogLine # Log!Null
  BY <1>1, <1>2 DEF Log!Null
<1>4. s = (IF mark = 0 THEN <<Log!Omitted>> ELSE << >>) \o SubSeq(t, mark + 1, n)
  BY <1>3 DEF Log!TerminalCatchUp
<1>5. mark = IF P # {} THEN Log!Max(P) ELSE 0
  BY DEF Log!SelectLastInSeq
<1>. HIDE DEF t, mark
<1>6. n \in 1 .. logged /\ \A i \in 1 .. n : t[i] = logged - n + i /\ t[i] \in Nat
  BY <1>1, <1>2, LenProperties DEF Contiguous
<1>. HIDE DEF n
<1>7. CASE lastLogLine > logged - n
  <2> DEFINE m == lastLogLine - logged + n
  <2>1. m \in 1 .. n
    BY <1>1, <1>6, <1>7
  <2>2. t[m] = lastLogLine /\ \A i \in 1 .. n : t[i] = lastLogLine => i = m
    BY <1>1, <1>6, <2>1
  <2>. HIDE DEF m
  <2>3. P = {m}
    BY <2>1, <2>2 DEF n
  <2>4. Log!Max({m}) = m
    BY <2>1 DEF Log!Max
  <2>5. mark = m
    BY <1>5, <2>3, <2>4
  <2>6. s = << >> \o SubSeq(t, m + 1, n)
    <3>1. mark # 0
      BY <2>1, <2>5
    <3>2. s = << >> \o SubSeq(t, mark + 1, n)
      BY <1>4, <3>1, Zenon
    <3>. QED BY <2>5, <3>2, Zenon
  <2> DEFINE r == SubSeq(t, m + 1, n)
  <2>7. /\ r \in Seq(Nat) /\ Len(r) = (IF m + 1 <= n THEN n - (m + 1) + 1 ELSE 0)
        /\ \A i \in 1 .. n - (m + 1) + 1 : r[i] = t[m + 1 + i - 1]
    BY <1>2, <1>6, <2>1, SubSeqProperties
  <2>. HIDE DEF r
  <2>8. s = r
    BY <2>6, <2>7, ConcatEmptySeq DEF r
  <2>9. Len(r) = logged - lastLogLine
    BY <1>1, <1>6, <2>1, <2>7 DEF m
  <2>10. \A i \in 1 .. logged - lastLogLine : r[i] = lastLogLine + i
    <3> SUFFICES ASSUME NEW i \in 1 .. logged - lastLogLine PROVE r[i] = lastLogLine + i
      OBVIOUS
    <3>1. i \in 1 .. n - (m + 1) + 1 /\ m + 1 + i - 1 = m + i /\ m + i \in 1 .. n
      BY <1>1, <1>6, <2>1 DEF m
    <3>2. r[i] = logged - n + (m + i)
      BY <1>6, <2>7, <3>1
    <3>. QED BY <1>1, <1>6, <3>2 DEF m
  <2>11. \A l \in lastLogLine + 1 .. logged : l - lastLogLine \in 1 .. Len(r) /\ r[l - lastLogLine] = l
    BY <1>1, <2>9, <2>10
  <2>12. logged = IF r = << >> THEN lastLogLine ELSE r[Len(r)]
    BY <1>1, <2>7, <2>9, <2>10, EmptySeq
  <2>13. Len(r) \in Nat /\ \A i \in 1 .. Len(r) : r[i] = lastLogLine + i /\ r[i] \in lastLogLine + 1 .. logged
    BY <1>1, <2>9, <2>10
  <2>14. \A i, j \in 1 .. Len(r) : i < j => r[i] < r[j]
    BY <1>1, <2>13
  <2>15. \A l \in lastLogLine + 1 .. logged : \E i \in 1 .. Len(r) : r[i] = l
    BY <2>11
  <2>. HIDE DEF P
  <2>. QED BY <2>7, <2>8, <2>12, <2>13, <2>14, <2>15
<1>8. CASE ~(lastLogLine > logged - n)
  <2>1. P = {}
    BY <1>1, <1>6, <1>8 DEF n
  <2>2. mark = 0
    BY <1>5, <2>1
  <2> DEFINE o == <<Log!Omitted>>
             r == SubSeq(t, 1, n)
  <2>3. o \in Seq(Nat) /\ Len(o) = 1 /\ o[1] = 0
    BY DEF Log!Omitted
  <2>4. r \in Seq(Nat) /\ Len(r) = n /\ \A i \in 1 .. n : r[i] = t[i]
    <3>1. /\ r \in Seq(Nat) /\ Len(r) = (IF 1 <= n THEN n - 1 + 1 ELSE 0)
          /\ \A i \in 1 .. n - 1 + 1 : r[i] = t[1 + i - 1]
      BY <1>2, <1>6, SubSeqProperties
    <3>. QED BY <1>6, <3>1
  <2>5. s = o \o r
    BY <1>4, <2>2
  <2>. HIDE DEF o, r
  <2>6. /\ s \in Seq(Nat) /\ Len(s) = 1 + n
        /\ \A i \in 1 .. 1 + n : s[i] = IF i <= 1 THEN o[i] ELSE r[i - 1]
    <3>1. /\ o \o r \in Seq(Nat) /\ Len(o \o r) = Len(o) + Len(r)
          /\ \A i \in 1 .. Len(o) + Len(r) : (o \o r)[i] = IF i <= Len(o) THEN o[i] ELSE r[i - Len(o)]
      BY <2>3, <2>4, ConcatProperties
    <3>. QED BY <2>3, <2>4, <2>5, <3>1
  <2>7. s[1] = 0 /\ \A i \in 2 .. 1 + n : s[i] = logged - n + (i - 1) /\ s[i] \in Int
    <3>1. 1 \in 1 .. 1 + n /\ 1 <= 1
      BY <1>6
    <3>2. \A i \in 2 .. 1 + n : i \in 1 .. 1 + n /\ ~(i <= 1) /\ i - 1 \in 1 .. n
      BY <1>6
    <3>3. \A i \in 2 .. 1 + n : s[i] = t[i - 1]
      BY <2>4, <2>6, <3>2
    <3>. QED BY <1>1, <1>6, <2>3, <2>6, <3>1, <3>2, <3>3
  <2>8. \A i \in 2 .. 1 + n : s[i] \in lastLogLine + 1 .. logged
    BY <1>1, <1>6, <1>8, <2>7
  <2>9. \A l \in logged - n + 1 .. logged : l - (logged - n) + 1 \in 2 .. 1 + n
          /\ s[l - (logged - n) + 1] = l
    BY <1>1, <1>6, <2>7
  <2>10. \A l \in lastLogLine + 1 .. logged : ~(l > logged - n) => \A i \in 2 .. 1 + n : s[i] > l
    BY <1>1, <1>6, <2>7
  <2>11. s # << >> /\ s[Len(s)] = logged
    BY <1>1, <1>6, <2>6, <2>7
  <2>12. \A i, j \in 1 .. Len(s) : i < j => s[i] < s[j]
    <3> SUFFICES ASSUME NEW i \in 1 .. 1 + n, NEW j \in 1 .. 1 + n, i < j PROVE s[i] < s[j]
      BY <2>6
    <3>1. j \in 2 .. 1 + n /\ s[j] = logged - n + (j - 1) /\ s[j] > 0
      BY <1>1, <1>6, <2>7
    <3>2. CASE i = 1
      BY <2>7, <3>1, <3>2
    <3>3. CASE i # 1
      <4>1. i \in 2 .. 1 + n /\ s[i] = logged - n + (i - 1)
        BY <1>6, <2>7, <3>3
      <4>. QED BY <1>1, <1>6, <3>1, <4>1
    <3>. QED BY <3>2, <3>3
  <2>13. \A i \in 1 .. Len(s) : s[i] = Log!Omitted \/ s[i] \in lastLogLine + 1 .. logged
    BY <1>6, <2>6, <2>7, <2>8 DEF Log!Omitted
  <2>14. ASSUME NEW l \in lastLogLine + 1 .. logged
         PROVE  \/ \E i \in 1 .. Len(s) : s[i] = l
                \/ Len(s) # 0 /\ s[1] = Log!Omitted /\ \A i \in 2 .. Len(s) : s[i] > l
    <3>1. CASE l > logged - n
      <4>1. l - (logged - n) + 1 \in 1 .. Len(s)
        BY <1>1, <1>6, <2>6, <2>9, <3>1
      <4>. QED BY <1>1, <1>6, <2>9, <3>1, <4>1
    <3>2. CASE ~(l > logged - n)
      BY <1>6, <2>6, <2>7, <2>10, <3>2 DEF Log!Omitted
    <3>. QED BY <3>1, <3>2
  <2>. QED BY <2>6, <2>11, <2>12, <2>13, <2>14
<1>. QED BY <1>7, <1>8

LEMMA LogInit == ASSUME LogAssumption PROVE Log!Init => LogInv
<1> SUFFICES ASSUME Log!Init PROVE LogInv
  OBVIOUS
<1>1. /\ logged = 0 /\ direct = {} /\ file = << >> /\ listening = Log!Null /\ looper = << >>
      /\ phase = "none" /\ generation = 0 /\ lastLogLine = 0 /\ view = << >>
  BY DEF Log!Init, Log!Null
<1>2. LogTyped
  <2>1. file \in Seq(Nat) /\ view \in Seq(Nat) /\ looper \in Seq(Nat \X Nat)
    BY <1>1
  <2>2. Len(view) = 0 /\ lastLogLine \in 0 .. logged /\ direct \subseteq 1 .. logged
    BY <1>1
  <2>. QED BY <1>1, <2>1, <2>2 DEF LogTyped
<1>3. FileIsTail /\ PostsInOrder
  BY <1>1 DEF FileIsTail, PostsInOrder
<1>4. ViewInOrder /\ GapsPending
  BY <1>1 DEF ViewInOrder, GapsPending, Ordered
<1>. QED BY <1>2, <1>3, <1>4 DEF LogInv

LEMMA BackgroundStep == ASSUME LogAssumption, LogInv, Log!LogInBackground PROVE LogInv'
<1>0. PICK n, e : n = logged + 1 /\ e = Len(looper) + 1
  OBVIOUS
<1>1. /\ logged' = n /\ file' = Log!Appended(file, n)
      /\ looper' = IF listening = Log!Null THEN looper ELSE Append(looper, <<listening, n>>)
      /\ UNCHANGED <<direct, listening, phase, generation, lastLogLine, view>>
  BY <1>0 DEF Log!LogInBackground
<1>2. /\ LogTyped /\ FileIsTail /\ PostsInOrder /\ ViewInOrder /\ GapsPending
      /\ logged \in Nat /\ n \in Nat /\ generation \in Nat /\ looper \in Seq(Nat \X Nat)
  BY <1>0 DEF LogInv, LogTyped
<1>3. file' \in Seq(Nat) /\ Contiguous(file', n) /\ Len(file') # 0
  BY <1>0, <1>1, <1>2, FileGrows DEF LogTyped, FileIsTail, Contiguous
<1>4. FileIsTail'
  BY <1>1, <1>3 DEF FileIsTail, Contiguous
<1>5. Len(looper) \in Nat /\ e = Len(looper) + 1 /\ n = logged + 1
  BY <1>0, <1>2, LenProperties
<1>6. CASE listening = Log!Null
  <2>1. phase # "started" /\ looper' = looper
    BY <1>1, <1>2, <1>6 DEF PostsInOrder
  <2>2. \A i \in 1 .. Len(looper) : ~Current(i) /\ ~Current(i)'
    BY <1>1, <1>2, <2>1 DEF PostsInOrder, Current
  <2>3. LogTyped'
    BY <1>1, <1>2, <1>3, <1>5, <2>1 DEF LogTyped
  <2>4. PostsInOrder'
    BY <1>1, <1>2, <1>5, <2>1, <2>2 DEF PostsInOrder
  <2>5. ViewInOrder'
    BY <1>1, <1>2, <1>5, <2>1, <2>2 DEF ViewInOrder
  <2>6. GapsPending'
    BY <1>1, <1>2, <1>5, <2>1 DEF GapsPending, LogTyped
  <2>. QED BY <1>4, <2>3, <2>4, <2>5, <2>6 DEF LogInv
<1>7. CASE listening # Log!Null
  <2>1. phase = "started" /\ listening = generation
    BY <1>2, <1>7 DEF PostsInOrder
  <2>2. /\ looper' \in Seq(Nat \X Nat) /\ Len(looper') = e
        /\ looper'[e] = <<generation, n>>
        /\ \A i \in 1 .. Len(looper) : looper'[i] = looper[i]
    BY <1>1, <1>2, <1>5, <1>7, <2>1, AppendProperties
  <2>3. \A i \in 1 .. Len(looper') : i \in 1 .. Len(looper) \/ i = e
    BY <1>5, <2>2
  <2>4. \A i \in 1 .. Len(looper) : Current(i)' <=> Current(i)
    BY <1>1, <2>2 DEF Current
  <2>5. \A i \in 1 .. Len(looper) : looper[i][2] \in 1 .. logged /\ looper[i][1] <= generation
    BY <1>2 DEF PostsInOrder
  <2>6. Posted(n)' /\ \A l \in 1 .. logged : Posted(l) => Posted(l)'
    <3>1. Current(e)' /\ e \in 1 .. Len(looper')
      BY <1>1, <1>5, <2>2 DEF Current
    <3>2. \A i \in 1 .. Len(looper) : i \in 1 .. Len(looper')
      BY <1>5, <2>2
    <3>. QED BY <1>1, <2>2, <2>4, <3>1, <3>2 DEF Posted
  <2>7. LogTyped'
    BY <1>1, <1>2, <1>3, <1>5, <2>2 DEF LogTyped
  <2>8. PostsInOrder'
    <3>1. ASSUME NEW i \in 1 .. Len(looper')
          PROVE  /\ looper'[i][1] <= generation' /\ looper'[i][2] \in 1 .. logged'
                 /\ Current(i)' => phase' = "started"
                 /\ \A j \in i + 1 .. Len(looper') : looper'[i][2] < looper'[j][2]
      <4>1. CASE i \in 1 .. Len(looper)
        <5>1. looper'[i] = looper[i] /\ looper[i][2] \in 1 .. logged /\ looper[i][1] <= generation
          BY <2>2, <2>5, <4>1
        <5>2. ASSUME NEW j \in i + 1 .. Len(looper') PROVE looper'[i][2] < looper'[j][2]
          <6>1. CASE j \in 1 .. Len(looper)
            <7>1. j \in i + 1 .. Len(looper) /\ looper'[j] = looper[j]
              BY <2>2, <6>1
            <7>. QED BY <1>2, <4>1, <5>1, <7>1 DEF PostsInOrder
          <6>2. CASE j = e
            <7>1. looper'[j][2] = n
              BY <2>2, <6>2
            <7>2. looper'[i][2] \in 1 .. logged
              BY <5>1
            <7>. QED BY <1>2, <1>5, <7>1, <7>2
          <6>3. j \in 1 .. Len(looper')
            BY <1>5, <2>2, <4>1
          <6>. QED BY <2>3, <6>1, <6>2, <6>3
        <5>. QED BY <1>1, <1>2, <1>5, <2>1, <5>1, <5>2
      <4>2. CASE i = e
        <5>1. \A j \in i + 1 .. Len(looper') : FALSE
          BY <1>5, <2>2, <4>2
        <5>. QED BY <1>1, <1>2, <1>5, <2>1, <2>2, <4>2, <5>1
      <4>. QED BY <2>3, <4>1, <4>2
    <3>. QED BY <1>1, <1>2, <2>1, <3>1 DEF PostsInOrder
  <2>9. ViewInOrder'
    <3>1. ASSUME NEW i \in 1 .. Len(looper'), Current(i)'
          PROVE  /\ \A j \in 1 .. Len(view') : view'[j] >= looper'[i][2] => view'[j] \in direct'
                 /\ \A l \in looper'[i][2] + 1 .. logged' : l \in direct' \/ Posted(l)'
      <4>1. CASE i \in 1 .. Len(looper)
        <5>1. Current(i) /\ looper'[i] = looper[i] /\ looper[i][2] \in 1 .. logged
          BY <2>2, <2>4, <2>5, <3>1, <4>1
        <5>2. ASSUME NEW l \in looper[i][2] + 1 .. n PROVE l \in direct \/ Posted(l)'
          <6>1. CASE l = n
            BY <2>6, <6>1
          <6>2. CASE l # n
            <7>1. l \in looper[i][2] + 1 .. logged /\ l \in 1 .. logged
              BY <1>2, <1>5, <5>1, <6>2
            <7>. QED BY <1>2, <1>5, <2>6, <4>1, <5>1, <7>1 DEF ViewInOrder
          <6>. QED BY <6>1, <6>2
        <5>3. \A j \in 1 .. Len(view) : view[j] >= looper[i][2] => view[j] \in direct
          BY <1>2, <4>1, <5>1 DEF ViewInOrder
        <5>. QED BY <1>1, <5>1, <5>2, <5>3
      <4>2. CASE i = e
        <5>1. looper'[i][2] = n
          BY <2>2, <4>2
        <5>2. \A j \in 1 .. Len(view) : ~(view[j] >= n)
          <6>1. \A j \in 1 .. Len(view) : view[j] <= logged /\ view[j] \in Nat
            BY <1>2, ElementOfSeq DEF LogTyped
          <6>. QED BY <1>2, <1>5, <6>1
        <5>3. \A l \in n + 1 .. n : FALSE
          BY <1>2
        <5>. QED BY <1>1, <5>1, <5>2, <5>3
      <4>. QED BY <2>3, <4>1, <4>2
    <3>2. Ordered(view', direct') /\ \A j \in 1 .. Len(view') : view'[j] > lastLogLine' => view'[j] \in direct'
      BY <1>1, <1>2 DEF ViewInOrder
    <3>. QED BY <3>1, <3>2 DEF ViewInOrder
  <2>10. GapsPending'
    <3>1. ASSUME NEW l \in 1 .. n PROVE Told(view, direct, l) \/ (l > lastLogLine /\ Posted(l)')
      <4>1. CASE l = n
        <5>1. lastLogLine \in 0 .. logged
          BY <1>2 DEF LogTyped
        <5>. QED BY <1>2, <1>5, <2>6, <4>1, <5>1
      <4>2. CASE l # n
        <5>1. l \in 1 .. logged
          BY <1>2, <1>5, <4>2
        <5>. QED BY <1>2, <2>1, <2>6, <5>1 DEF GapsPending
      <4>. QED BY <4>1, <4>2
    <3>. QED BY <1>1, <3>1 DEF GapsPending
  <2>. QED BY <1>4, <2>7, <2>8, <2>9, <2>10 DEF LogInv
<1>. QED BY <1>6, <1>7

LEMMA OnMainStep == ASSUME LogAssumption, LogInv, Log!LogOnMain PROVE LogInv'
<1> DEFINE n == logged + 1
<1>1. /\ logged' = n /\ file' = Log!Appended(file, n)
      /\ IF listening # Log!Null THEN Log!AppendLogLines(<<n>>) /\ direct' = direct \cup {n}
         ELSE UNCHANGED <<lastLogLine, view, direct>>
      /\ UNCHANGED <<listening, looper, phase, generation>>
  BY DEF Log!LogOnMain
<1>2. /\ LogTyped /\ FileIsTail /\ PostsInOrder /\ ViewInOrder /\ GapsPending
      /\ logged \in Nat /\ n \in Nat /\ generation \in Nat /\ view \in Seq(Nat)
  BY DEF LogInv, LogTyped
<1>3. file' \in Seq(Nat) /\ Contiguous(file', n) /\ Len(file') # 0
  BY <1>1, <1>2, FileGrows DEF LogTyped, FileIsTail, Contiguous
<1>4. FileIsTail'
  BY <1>1, <1>3 DEF FileIsTail, Contiguous
<1>5. PostsInOrder'
  BY <1>1, <1>2 DEF PostsInOrder, Current
<1>6. \A i \in 1 .. Len(looper) : (Current(i)' <=> Current(i)) /\ looper[i][2] \in 1 .. logged
  BY <1>1, <1>2 DEF PostsInOrder, Current
<1>7. \A l \in Nat : Posted(l) => Posted(l)'
  BY <1>1 DEF Posted, Current
<1>8. CASE listening = Log!Null
  <2>1. phase # "started" /\ UNCHANGED <<lastLogLine, view, direct>>
    BY <1>1, <1>2, <1>8 DEF PostsInOrder
  <2>2. \A i \in 1 .. Len(looper) : ~Current(i) /\ ~Current(i)'
    BY <1>2, <1>6, <2>1 DEF PostsInOrder
  <2>3. LogTyped'
    BY <1>1, <1>2, <1>3, <2>1 DEF LogTyped
  <2>4. ViewInOrder'
    BY <1>1, <1>2, <2>1, <2>2 DEF ViewInOrder
  <2>5. GapsPending'
    BY <1>1, <1>2, <2>1 DEF GapsPending, LogTyped
  <2>. QED BY <1>4, <1>5, <2>3, <2>4, <2>5 DEF LogInv
<1>9. CASE listening # Log!Null
  <2> DEFINE s == <<n>>
             dir == direct \cup {n}
  <2>1. Log!AppendLogLines(s) /\ direct' = dir
    BY <1>1, <1>9
  <2>2. s \in Seq(Nat) /\ Len(s) = 1 /\ s[1] = n /\ s # << >>
    BY <1>2
  <2>3. lastLogLine' = n
    BY <2>1, <2>2 DEF Log!AppendLogLines
  <2>. HIDE DEF s
  <2>4. \A j \in 1 .. Len(view) : view[j] <= logged /\ view[j] \in Nat
    BY <1>2, ElementOfSeq DEF LogTyped
  <2>5. /\ Ordered(view, direct) /\ direct \subseteq dir /\ Ordered(s, dir)
        /\ \A i \in 1 .. Len(s), j \in 1 .. Len(view) : s[i] # Log!Omitted /\ view[j] >= s[i] => view[j] \in dir
    BY <1>2, <2>2, <2>4 DEF ViewInOrder, Ordered
  <2>6. /\ view' \in Seq(Nat) /\ Ordered(view', dir)
        /\ \A j \in 1 .. Len(view') : \/ \E i \in 1 .. Len(view) : view'[j] = view[i]
                                      \/ \E i \in 1 .. Len(s) : view'[j] = s[i]
        /\ \A l \in Nat \ {0} : (\E k \in dir : k >= l) => Told(view', dir, l)
    BY <1>2, <2>1, <2>2, <2>5, Appending
  <2>7. \A j \in 1 .. Len(view') : view'[j] = n \/ \E i \in 1 .. Len(view) : view'[j] = view[i]
    BY <2>2, <2>6
  <2>8. LogTyped'
    <3>1. \A j \in 1 .. Len(view') : view'[j] <= n
      BY <1>2, <2>4, <2>7
    <3>2. dir \subseteq 1 .. n /\ lastLogLine' \in 0 .. n /\ lastLogLine' # Log!Null
      BY <1>2, <2>3 DEF LogTyped, Log!Null
    <3>3. looper' \in Seq(Nat \X Nat) /\ generation' \in Nat /\ phase' \in {"none", "created", "started", "stopped"}
      BY <1>1, <1>2 DEF LogTyped
    <3>. QED BY <1>1, <1>2, <1>3, <2>1, <2>6, <3>1, <3>2, <3>3 DEF LogTyped
  <2>9. ViewInOrder'
    <3>1. \A j \in 1 .. Len(view') : ~(view'[j] > n)
      BY <1>2, <2>4, <2>7
    <3>2. ASSUME NEW i \in 1 .. Len(looper), Current(i)
          PROVE  /\ \A j \in 1 .. Len(view') : view'[j] >= looper[i][2] => view'[j] \in dir
                 /\ \A l \in looper[i][2] + 1 .. n : l \in dir \/ Posted(l)'
      <4>1. \A j \in 1 .. Len(view) : view[j] >= looper[i][2] => view[j] \in direct
        BY <1>2, <3>2 DEF ViewInOrder
      <4>2. \A l \in looper[i][2] + 1 .. logged : l \in direct \/ Posted(l)
        BY <1>2, <3>2 DEF ViewInOrder
      <4>3. \A l \in looper[i][2] + 1 .. n : l \in Nat /\ (l = n \/ l \in looper[i][2] + 1 .. logged)
        BY <1>2, <1>6
      <4>. QED BY <1>7, <2>7, <4>1, <4>2, <4>3
    <3>. QED BY <1>1, <1>6, <2>1, <2>3, <2>6, <3>1, <3>2 DEF ViewInOrder
  <2>10. GapsPending'
    <3>1. \A l \in 1 .. n : l \in Nat \ {0} /\ n >= l /\ n \in dir
      BY <1>2
    <3>. QED BY <1>1, <2>1, <2>6, <3>1 DEF GapsPending
  <2>. QED BY <1>4, <1>5, <2>8, <2>9, <2>10 DEF LogInv
<1>. QED BY <1>8, <1>9

LEMMA PostedStep == ASSUME LogAssumption, LogInv, Log!RunPosted PROVE LogInv'
<1>0. PICK m, e : m = looper[1][2] /\ e = Len(looper)
  OBVIOUS
<1>1. /\ looper # << >> /\ looper' = SubSeq(looper, 2, Len(looper))
      /\ IF Current(1) THEN Log!AppendLogLines(<<m>>) ELSE UNCHANGED <<lastLogLine, view>>
      /\ UNCHANGED <<logged, direct, file, listening, phase, generation>>
  BY <1>0 DEF Log!RunPosted, Current
<1>2. /\ LogTyped /\ FileIsTail /\ PostsInOrder /\ ViewInOrder /\ GapsPending
      /\ logged \in Nat /\ generation \in Nat /\ view \in Seq(Nat) /\ looper \in Seq(Nat \X Nat)
  BY DEF LogInv, LogTyped
<1>3. e \in Nat /\ e # 0 /\ e = Len(looper)
  BY <1>0, <1>1, <1>2, EmptySeq
<1>4. /\ looper' \in Seq(Nat \X Nat) /\ Len(looper') = e - 1
      /\ \A i \in 1 .. e - 1 : looper'[i] = looper[i + 1] /\ i + 1 \in 1 .. e
  <2>1. \A i \in 2 .. e : looper[i] \in Nat \X Nat
    BY <1>2, <1>3, ElementOfSeq
  <2>2. /\ looper' \in Seq(Nat \X Nat)
        /\ Len(looper') = (IF 2 <= e THEN e - 2 + 1 ELSE 0)
        /\ \A i \in 1 .. e - 2 + 1 : looper'[i] = looper[2 + i - 1]
    BY <1>1, <1>3, <2>1, SubSeqProperties
  <2>. QED BY <1>3, <2>2
<1>5. \A i \in 1 .. e - 1 : Current(i)' <=> Current(i + 1)
  BY <1>1, <1>4 DEF Current
<1>6. ASSUME NEW l, Posted(l), ~(Current(1) /\ m = l) PROVE Posted(l)'
  <2>1. PICK i \in 1 .. e : Current(i) /\ looper[i][2] = l
    BY <1>3, <1>6 DEF Posted
  <2>2. i # 1 /\ i - 1 \in 1 .. e - 1 /\ (i - 1) + 1 = i
    BY <1>0, <1>3, <1>6, <2>1
  <2>3. PICK k \in 1 .. e - 1 : k + 1 = i
    BY <2>2
  <2>. QED BY <1>4, <1>5, <2>1, <2>3 DEF Posted
<1>7. FileIsTail' /\ PostsInOrder'
  <2>1. FileIsTail'
    BY <1>1, <1>2 DEF FileIsTail
  <2>2. ASSUME NEW i \in 1 .. e - 1
        PROVE  /\ looper'[i][1] <= generation /\ looper'[i][2] \in 1 .. logged
               /\ Current(i)' => phase = "started"
               /\ \A j \in i + 1 .. e - 1 : looper'[i][2] < looper'[j][2]
    <3>1. \A j \in i + 1 .. e - 1 : j \in 1 .. e - 1 /\ j + 1 \in i + 1 + 1 .. e
      BY <1>3
    <3>2. looper'[i] = looper[i + 1] /\ i + 1 \in 1 .. Len(looper)
      BY <1>3, <1>4
    <3>. QED BY <1>2, <1>3, <1>4, <1>5, <3>1, <3>2 DEF PostsInOrder
  <2>. QED BY <1>1, <1>2, <1>4, <2>1, <2>2 DEF PostsInOrder
<1>8. CASE ~Current(1)
  <2>1. UNCHANGED <<lastLogLine, view>>
    BY <1>1, <1>8
  <2>2. \A l : Posted(l) => Posted(l)'
    BY <1>6, <1>8
  <2>3. LogTyped'
    BY <1>1, <1>2, <1>4, <2>1 DEF LogTyped
  <2>4. ViewInOrder'
    <3>1. \A i \in 1 .. e - 1 : Current(i)' => Current(i + 1) /\ looper'[i] = looper[i + 1] /\ i + 1 \in 1 .. Len(looper)
      BY <1>3, <1>4, <1>5
    <3>. QED BY <1>1, <1>2, <1>4, <2>1, <2>2, <3>1 DEF ViewInOrder
  <2>5. GapsPending'
    BY <1>1, <1>2, <2>1, <2>2 DEF GapsPending
  <2>. QED BY <1>7, <2>3, <2>4, <2>5 DEF LogInv
<1>9. CASE Current(1)
  <2> DEFINE s == <<m>>
  <2>1. Log!AppendLogLines(s)
    BY <1>1, <1>9
  <2>2. m \in 1 .. logged /\ phase = "started"
    <3>1. 1 \in 1 .. Len(looper)
      BY <1>3
    <3>. QED BY <1>0, <1>2, <1>9, <3>1 DEF PostsInOrder
  <2>3. s \in Seq(Nat) /\ Len(s) = 1 /\ s[1] = m /\ s # << >>
    BY <1>2, <2>2
  <2>4. lastLogLine' = m
    BY <2>1, <2>3 DEF Log!AppendLogLines
  <2>. HIDE DEF s
  <2>5. /\ \A j \in 1 .. Len(view) : view[j] >= m => view[j] \in direct
        /\ \A l \in m + 1 .. logged : l \in direct \/ Posted(l)
    <3>1. 1 \in 1 .. Len(looper)
      BY <1>3
    <3>. QED BY <1>0, <1>2, <1>9, <3>1 DEF ViewInOrder
  <2>6. /\ Ordered(view, direct) /\ Ordered(s, direct) /\ direct \subseteq direct
        /\ \A i \in 1 .. Len(s), j \in 1 .. Len(view) : s[i] # Log!Omitted /\ view[j] >= s[i] => view[j] \in direct
    BY <1>2, <2>3, <2>5 DEF ViewInOrder, Ordered
  <2>7. /\ view' \in Seq(Nat) /\ Ordered(view', direct)
        /\ \A j \in 1 .. Len(view') : \/ \E i \in 1 .. Len(view) : view'[j] = view[i]
                                      \/ \E i \in 1 .. Len(s) : view'[j] = s[i]
        /\ \A l \in Nat \ {0} :
             \/ Told(view, direct, l) /\ \A i \in 1 .. Len(s) : s[i] = Log!Omitted \/ s[i] > l
             \/ \E i \in 1 .. Len(s) : s[i] = l
             \/ \E k \in direct : k >= l
             \/ Len(s) # 0 /\ s[1] = Log!Omitted /\ \A i \in 2 .. Len(s) : s[i] > l
             => Told(view', direct, l)
    BY <1>2, <2>1, <2>3, <2>6, Appending
  <2>8. \A j \in 1 .. Len(view') : view'[j] = m \/ \E i \in 1 .. Len(view) : view'[j] = view[i]
    BY <2>3, <2>7
  <2>9. \A j \in 1 .. Len(view) : view[j] <= logged /\ view[j] \in Nat
    BY <1>2, ElementOfSeq DEF LogTyped
  <2>10. LogTyped'
    <3>1. \A j \in 1 .. Len(view') : view'[j] <= logged
      BY <2>2, <2>8, <2>9, <1>2
    <3>2. lastLogLine' \in 0 .. logged /\ lastLogLine' # Log!Null
      BY <2>2, <2>4 DEF Log!Null
    <3>. QED BY <1>1, <1>2, <1>4, <2>7, <3>1, <3>2 DEF LogTyped
  <2>11. \A i \in 2 .. e : looper[i][2] > m /\ looper[i][2] \in 1 .. logged
    <3>0. 1 \in 1 .. Len(looper)
      BY <1>3
    <3>1. \A j \in 1 + 1 .. e : looper[1][2] < looper[j][2]
      BY <1>2, <1>3, <3>0 DEF PostsInOrder
    <3>2. \A i \in 2 .. e : looper[i][2] \in 1 .. logged
      BY <1>2, <1>3 DEF PostsInOrder
    <3>. QED BY <1>0, <1>2, <2>2, <3>1, <3>2
  <2>12. ViewInOrder'
    <3>1. \A j \in 1 .. Len(view') : view'[j] > m => view'[j] \in direct
      BY <2>2, <2>5, <2>8, <2>9
    <3>2. ASSUME NEW i \in 1 .. e - 1, Current(i)'
          PROVE  /\ \A j \in 1 .. Len(view') : view'[j] >= looper'[i][2] => view'[j] \in direct
                 /\ \A l \in looper'[i][2] + 1 .. logged : l \in direct \/ Posted(l)'
      <4>1. /\ Current(i + 1) /\ looper'[i] = looper[i + 1] /\ i + 1 \in 2 .. e
            /\ looper[i + 1][2] > m /\ looper[i + 1][2] \in 1 .. logged
        BY <1>3, <1>4, <1>5, <2>11, <3>2
      <4>2. \A j \in 1 .. Len(view') : view'[j] >= looper[i + 1][2] => view'[j] > m
        <5> SUFFICES ASSUME NEW j \in 1 .. Len(view'), view'[j] >= looper[i + 1][2] PROVE view'[j] > m
          OBVIOUS
        <5>1. view'[j] \in Nat /\ m \in Nat /\ looper[i + 1][2] \in Nat
          BY <2>2, <2>8, <2>9, <4>1
        <5>. QED BY <4>1, <5>1
      <4>3. \A l \in looper[i + 1][2] + 1 .. logged : l \in m + 1 .. logged /\ l # m
        BY <2>2, <4>1
      <4>. QED BY <1>6, <2>5, <3>1, <4>1, <4>2, <4>3
    <3>. QED BY <1>1, <1>4, <2>4, <2>7, <3>1, <3>2 DEF ViewInOrder
  <2>13. GapsPending'
    <3>1. ASSUME NEW l \in 1 .. logged PROVE Told(view', direct, l) \/ (l > m /\ Posted(l)')
      <4>0. l \in Nat \ {0} /\ m \in Nat
        BY <2>2
      <4>1. CASE l > m
        <5>1. l \in direct \/ Posted(l)
          BY <2>2, <2>5, <4>1
        <5>2. l \in direct => Told(view', direct, l)
          BY <2>7, <4>0
        <5>3. l # m
          BY <4>0, <4>1
        <5>. QED BY <1>6, <4>1, <5>1, <5>2, <5>3
      <4>2. CASE l = m
        BY <2>3, <2>7, <4>0, <4>2
      <4>3. CASE l < m
        <5>1. ~Posted(l)
          <6> SUFFICES ASSUME NEW i \in 1 .. e, looper[i][2] = l PROVE FALSE
            BY <1>3 DEF Posted
          <6>1. i # 1
            BY <1>0, <4>0, <4>3
          <6>2. i \in 2 .. e
            BY <1>3, <6>1
          <6>. QED BY <2>11, <4>0, <4>3, <6>2
        <5>2. Told(view, direct, l)
          BY <1>2, <2>2, <5>1 DEF GapsPending
        <5>3. \A i \in 1 .. Len(s) : s[i] = Log!Omitted \/ s[i] > l
          BY <2>3, <4>0, <4>3
        <5>. QED BY <2>7, <4>0, <5>2, <5>3
      <4>. QED BY <4>0, <4>1, <4>2, <4>3
    <3>. QED BY <1>1, <2>4, <3>1 DEF GapsPending
  <2>. QED BY <1>7, <2>10, <2>12, <2>13 DEF LogInv
<1>. QED BY <1>8, <1>9

LEMMA OnCreateStep == ASSUME LogAssumption, LogInv, Log!OnCreate PROVE LogInv'
<1>0. PICK n : n = logged + 1
  OBVIOUS
<1>1. /\ phase = "none" /\ logged' = n
      /\ file' = Log!Appended(Log!CompactIfNeeded(file), n)
      /\ view' = Log!TakeLast(Log!TakeLast(file', TailLines), DisplayLines)
      /\ lastLogLine' = n /\ phase' = "created"
      /\ UNCHANGED <<direct, listening, looper, generation>>
  BY <1>0 DEF Log!OnCreate, Log!TrimDisplay, Log!TailOf
<1>2. /\ LogTyped /\ FileIsTail /\ PostsInOrder /\ ViewInOrder /\ GapsPending
      /\ logged \in Nat /\ n \in Nat /\ n = logged + 1 /\ generation \in Nat
      /\ TailLines \in Nat /\ DisplayLines \in Nat
  BY <1>0 DEF LogInv, LogTyped, LogAssumption
<1>3. file \in Seq(Nat) /\ Contiguous(file, logged)
  BY <1>2 DEF LogTyped, FileIsTail, Contiguous
<1>4. Log!CompactIfNeeded(file) \in Seq(Nat) /\ Contiguous(Log!CompactIfNeeded(file), logged)
  BY <1>2, <1>3, FileGrows
<1>5. file' \in Seq(Nat) /\ Contiguous(file', n) /\ Len(file') # 0
  BY <1>1, <1>2, <1>4, FileGrows
<1>6. Log!TakeLast(file', TailLines) \in Seq(Nat) /\ Contiguous(Log!TakeLast(file', TailLines), n)
  BY <1>2, <1>5, TakingKeepsTail
<1>7. view' \in Seq(Nat) /\ Contiguous(view', n)
  BY <1>1, <1>2, <1>6, TakingKeepsTail
<1>8. Len(view') \in Nat /\ Len(view') <= n
      /\ \A j \in 1 .. Len(view') : view'[j] = n - Len(view') + j /\ view'[j] \in 1 .. n
  BY <1>2, <1>7, LenProperties DEF Contiguous
<1>9. \A i \in 1 .. Len(looper) : ~Current(i) /\ ~Current(i)'
  BY <1>1, <1>2 DEF PostsInOrder, Current
<1>10. LogTyped'
  <2>1. direct \subseteq 1 .. n /\ looper \in Seq(Nat \X Nat) /\ n # Log!Null
    BY <1>2 DEF LogTyped, Log!Null
  <2>2. \A j \in 1 .. Len(view') : view'[j] <= n
    BY <1>2, <1>8
  <2>. QED BY <1>1, <1>2, <1>5, <1>7, <2>1, <2>2 DEF LogTyped
<1>11. FileIsTail'
  BY <1>1, <1>5 DEF FileIsTail, Contiguous
<1>12. PostsInOrder'
  BY <1>1, <1>2, <1>9 DEF PostsInOrder
<1>13. ViewInOrder'
  <2>1. Ordered(view', direct')
    BY <1>2, <1>8 DEF Ordered
  <2>2. \A j \in 1 .. Len(view') : ~(view'[j] > n)
    BY <1>2, <1>8
  <2>. QED BY <1>1, <1>9, <2>1, <2>2 DEF ViewInOrder
<1>14. ASSUME NEW l \in 1 .. n PROVE Told(view', direct', l)
  <2>1. CASE l > n - Len(view')
    <3>1. l - (n - Len(view')) \in 1 .. Len(view')
      BY <1>2, <1>8, <2>1
    <3>2. view'[l - (n - Len(view'))] = l
      BY <1>2, <1>8, <3>1
    <3>. QED BY <3>1, <3>2 DEF Told
  <2>2. CASE ~(l > n - Len(view'))
    <3>1. \A j \in 0 + 1 .. Len(view') : view'[j] > l
      BY <1>2, <1>8, <2>2
    <3>2. 0 \in 0 .. Len(view')
      BY <1>8
    <3>. QED BY <3>1, <3>2 DEF Told
  <2>. QED BY <2>1, <2>2
<1>15. GapsPending'
  BY <1>1, <1>14 DEF GapsPending
<1>. QED BY <1>10, <1>11, <1>12, <1>13, <1>15 DEF LogInv

LEMMA OnStartStep == ASSUME LogAssumption, LogInv, Log!OnStart PROVE LogInv'
<1>0. PICK s : s = Log!TerminalCatchUp(lastLogLine, Log!TailOf(file))
  OBVIOUS
<1>1. /\ phase \in {"created", "stopped"} /\ generation' = generation + 1 /\ listening' = generation + 1
      /\ Log!AppendLogLines(s) /\ phase' = "started"
      /\ UNCHANGED <<logged, direct, file, looper>>
  BY <1>0 DEF Log!OnStart
<1>2. /\ LogTyped /\ FileIsTail /\ PostsInOrder /\ ViewInOrder /\ GapsPending
      /\ logged \in Nat /\ generation \in Nat /\ view \in Seq(Nat)
      /\ lastLogLine \in 1 .. logged /\ phase # "none"
  BY <1>1 DEF LogInv, LogTyped, Log!Null
<1>3. /\ s \in Seq(Nat)
      /\ \A i \in 1 .. Len(s) : s[i] = Log!Omitted \/ s[i] \in lastLogLine + 1 .. logged
      /\ \A i, j \in 1 .. Len(s) : i < j => s[i] < s[j]
      /\ logged = IF s = << >> THEN lastLogLine ELSE s[Len(s)]
      /\ \A l \in lastLogLine + 1 .. logged :
           \/ \E i \in 1 .. Len(s) : s[i] = l
           \/ Len(s) # 0 /\ s[1] = Log!Omitted /\ \A i \in 2 .. Len(s) : s[i] > l
  BY <1>0, <1>2, CatchingUp
<1>4. lastLogLine' = logged
  BY <1>1, <1>3 DEF Log!AppendLogLines
<1>5. \A i \in 1 .. Len(s) : s[i] \in Nat
  BY <1>3, ElementOfSeq
<1>6. \A j \in 1 .. Len(view) : view[j] <= logged /\ view[j] \in Nat
  BY <1>2, ElementOfSeq DEF LogTyped
<1>7. /\ Ordered(view, direct) /\ Ordered(s, direct) /\ direct \subseteq direct
      /\ \A i \in 1 .. Len(s), j \in 1 .. Len(view) : s[i] # Log!Omitted /\ view[j] >= s[i] => view[j] \in direct
  <2>1. Ordered(s, direct)
    <3>1. \A i, j \in 1 .. Len(s) : i < j => ~(s[i] >= s[j])
      BY <1>3, <1>5
    <3>. QED BY <3>1 DEF Ordered
  <2>2. ASSUME NEW i \in 1 .. Len(s), NEW j \in 1 .. Len(view), s[i] # Log!Omitted, view[j] >= s[i]
        PROVE  view[j] \in direct
    <3>1. s[i] \in lastLogLine + 1 .. logged
      BY <1>3, <2>2
    <3>2. view[j] > lastLogLine
      BY <1>2, <1>6, <2>2, <3>1
    <3>. QED BY <1>2, <3>2 DEF ViewInOrder
  <2>. QED BY <1>2, <2>1, <2>2 DEF ViewInOrder
<1>8. /\ view' \in Seq(Nat) /\ Ordered(view', direct)
      /\ \A j \in 1 .. Len(view') : \/ \E i \in 1 .. Len(view) : view'[j] = view[i]
                                    \/ \E i \in 1 .. Len(s) : view'[j] = s[i]
      /\ \A l \in Nat \ {0} :
           \/ Told(view, direct, l) /\ \A i \in 1 .. Len(s) : s[i] = Log!Omitted \/ s[i] > l
           \/ \E i \in 1 .. Len(s) : s[i] = l
           \/ \E k \in direct : k >= l
           \/ Len(s) # 0 /\ s[1] = Log!Omitted /\ \A i \in 2 .. Len(s) : s[i] > l
           => Told(view', direct, l)
  BY <1>1, <1>2, <1>3, <1>7, Appending
<1>9. \A i \in 1 .. Len(looper) : ~Current(i)'
  <2>1. \A i \in 1 .. Len(looper) : looper[i][1] <= generation /\ looper[i] \in Nat \X Nat
    BY <1>2, ElementOfSeq DEF PostsInOrder, LogTyped
  <2>2. \A i \in 1 .. Len(looper) : looper[i][1] # generation + 1
    BY <1>2, <2>1
  <2>. QED BY <1>1, <2>2 DEF Current
<1>10. \A j \in 1 .. Len(view') : view'[j] <= logged
  <2>1. \A i \in 1 .. Len(s) : s[i] <= logged
    BY <1>2, <1>3 DEF Log!Omitted
  <2>. QED BY <1>6, <1>8, <2>1
<1>11. LogTyped' /\ FileIsTail'
  <2>1. logged \in 0 .. logged /\ logged # Log!Null
    BY <1>2 DEF Log!Null
  <2>. QED BY <1>1, <1>2, <1>4, <1>8, <1>10, <2>1 DEF LogTyped, FileIsTail
<1>12. PostsInOrder'
  <2>1. \A i \in 1 .. Len(looper) : looper[i][1] <= generation /\ looper[i] \in Nat \X Nat
    BY <1>2, ElementOfSeq DEF PostsInOrder, LogTyped
  <2>2. generation + 1 # Log!Null /\ \A i \in 1 .. Len(looper) : looper[i][1] <= generation + 1
    BY <1>2, <2>1 DEF Log!Null
  <2>. QED BY <1>1, <1>2, <1>9, <2>2 DEF PostsInOrder
<1>13. ViewInOrder'
  <2>1. \A j \in 1 .. Len(view') : ~(view'[j] > logged)
    <3>1. \A j \in 1 .. Len(view') : view'[j] \in Nat
      BY <1>8, ElementOfSeq
    <3>. QED BY <1>2, <1>10, <3>1
  <2>. QED BY <1>1, <1>4, <1>8, <1>9, <2>1 DEF ViewInOrder
<1>14. ASSUME NEW l \in 1 .. logged PROVE Told(view', direct, l)
  <2>1. l \in Nat \ {0}
    OBVIOUS
  <2>2. CASE l > lastLogLine
    <3>1. l \in lastLogLine + 1 .. logged
      BY <1>2, <2>1, <2>2
    <3>. QED BY <1>3, <1>8, <2>1, <3>1
  <2>3. CASE ~(l > lastLogLine)
    <3>1. Told(view, direct, l)
      BY <1>2, <2>3 DEF GapsPending
    <3>2. \A i \in 1 .. Len(s) : s[i] = Log!Omitted \/ s[i] > l
      BY <1>2, <1>3, <2>1, <2>3
    <3>. QED BY <1>8, <2>1, <3>1, <3>2
  <2>. QED BY <2>2, <2>3
<1>15. GapsPending'
  BY <1>1, <1>14 DEF GapsPending
<1>. QED BY <1>11, <1>12, <1>13, <1>15 DEF LogInv

LEMMA OnStopStep == ASSUME LogAssumption, LogInv, Log!OnStop \/ Log!OnDestroy PROVE LogInv'
<1>1. /\ LogTyped /\ FileIsTail /\ PostsInOrder /\ ViewInOrder /\ GapsPending /\ generation \in Nat
  BY DEF LogInv, LogTyped
<1>2. \A i \in 1 .. Len(looper) : looper[i][1] <= generation /\ looper[i] \in Nat \X Nat
  BY <1>1, ElementOfSeq DEF PostsInOrder, LogTyped
<1>3. CASE Log!OnStop
  <2>1. /\ phase = "started" /\ generation' = generation + 1 /\ listening' = Log!Null /\ phase' = "stopped"
        /\ UNCHANGED <<logged, direct, file, looper, lastLogLine, view>>
    BY <1>3 DEF Log!OnStop
  <2>2. \A i \in 1 .. Len(looper) : looper[i][1] # generation + 1 /\ looper[i][1] <= generation + 1
    BY <1>1, <1>2
  <2>3. \A i \in 1 .. Len(looper) : ~Current(i)'
    BY <2>1, <2>2 DEF Current
  <2>4. LogTyped' /\ FileIsTail'
    BY <1>1, <2>1 DEF LogTyped, FileIsTail
  <2>5. PostsInOrder'
    BY <1>1, <2>1, <2>2, <2>3 DEF PostsInOrder
  <2>6. ViewInOrder' /\ GapsPending'
    BY <1>1, <2>1, <2>3 DEF ViewInOrder, GapsPending
  <2>. QED BY <2>4, <2>5, <2>6 DEF LogInv
<1>4. CASE Log!OnDestroy
  <2>1. /\ phase = "stopped" /\ phase' = "none"
        /\ UNCHANGED <<logged, direct, file, listening, looper, generation, lastLogLine, view>>
    BY <1>4 DEF Log!OnDestroy
  <2>2. \A i \in 1 .. Len(looper) : ~Current(i) /\ ~Current(i)'
    BY <1>1, <2>1 DEF Current, PostsInOrder
  <2>3. LogTyped' /\ FileIsTail' /\ GapsPending'
    BY <1>1, <2>1 DEF LogTyped, FileIsTail, GapsPending
  <2>4. PostsInOrder' /\ ViewInOrder'
    BY <1>1, <2>1, <2>2 DEF PostsInOrder, ViewInOrder
  <2>. QED BY <2>3, <2>4 DEF LogInv
<1>. QED BY <1>3, <1>4

LEMMA LogStep == LogAssumption /\ LogInv /\ [Log!Next]_Log!vars => LogInv'
<1> SUFFICES ASSUME LogAssumption, LogInv, [Log!Next]_Log!vars PROVE LogInv'
  OBVIOUS
<1>1. CASE UNCHANGED Log!vars
  BY <1>1 DEF LogInv, LogTyped, FileIsTail, PostsInOrder, ViewInOrder, GapsPending,
              Posted, Current, Log!vars
<1>2. CASE Log!Next
  BY <1>2, BackgroundStep, OnMainStep, PostedStep, OnCreateStep, OnStartStep, OnStopStep DEF Log!Next
<1>. QED BY <1>1, <1>2

(* What the invariant says of a screen at rest, and of the order of lines. *)
LEMMA LogInvImplies == LogInv => Log!NoSilentGap /\ Log!ShownInOrder
<1> SUFFICES ASSUME LogInv PROVE Log!NoSilentGap /\ Log!ShownInOrder
  OBVIOUS
<1>1. \A j \in 1 .. Len(view) : view[j] \in Nat
  BY ElementOfSeq DEF LogInv, LogTyped
<1>2. ASSUME Log!Idle, NEW l \in 1 .. logged
      PROVE  \/ l \in Log!Shown
             \/ \A k \in Log!Shown \ {Log!Omitted} : l < k
             \/ Log!Omitted \in Log!Shown
             \/ \E k \in direct : k >= l
  <2>1. phase = "started" /\ ~Posted(l)
    BY <1>2 DEF Log!Idle, Posted, Current
  <2>2. Told(view, direct, l)
    BY <1>2, <2>1 DEF LogInv, GapsPending
  <2>3. CASE \E c \in 0 .. Len(view) :
               /\ c = 0 \/ view[c] = Log!Omitted
               /\ \A j \in c + 1 .. Len(view) : view[j] = Log!Omitted \/ view[j] > l
    <3>1. PICK c \in 0 .. Len(view) :
               /\ c = 0 \/ view[c] = Log!Omitted
               /\ \A j \in c + 1 .. Len(view) : view[j] = Log!Omitted \/ view[j] > l
      BY <2>3
    <3>2. CASE c = 0
      BY <1>1, <3>1, <3>2 DEF Log!Shown
    <3>3. CASE c # 0
      <4>1. c \in 1 .. Len(view) /\ view[c] = Log!Omitted
        BY <3>1, <3>3
      <4>. QED BY <4>1 DEF Log!Shown
    <3>. QED BY <3>2, <3>3
  <2>. QED BY <2>2, <2>3 DEF Told, Log!Shown
<1>3. Log!NoSilentGap
  BY <1>2 DEF Log!NoSilentGap
<1>4. Log!ShownInOrder
  <2> SUFFICES ASSUME NEW i \in 1 .. Len(view), NEW j \in 1 .. Len(view), i < j,
                      {view[i], view[j]} \cap (direct \cup {Log!Omitted}) = {}
               PROVE  view[i] < view[j]
    BY DEF Log!ShownInOrder
  <2>1. view[i] \notin direct /\ view[j] # Log!Omitted
    OBVIOUS
  <2>2. ~(view[i] >= view[j])
    BY <2>1 DEF LogInv, ViewInOrder, Ordered
  <2>. QED BY <1>1, <2>2
<1>. QED BY <1>3, <1>4

(* AgentLogView!NoSilentGap (MainActivity, terminalCatchUp), for files,    *)
(* tails and screens of any size: a screen at rest that misses a line      *)
(* shows a mark for it, or nothing older than it.                          *)
THEOREM GapsAreTold == LogAssumption /\ Log!Spec => []Log!NoSilentGap
<1>. SUFFICES ASSUME LogAssumption PROVE Log!Spec => []Log!NoSilentGap
  OBVIOUS
<1>1. Log!Init => LogInv
  BY LogInit
<1>2. LogInv /\ [Log!Next]_Log!vars => LogInv'
  BY LogStep
<1>3. LogInv => Log!NoSilentGap
  BY LogInvImplies
<1>. QED BY <1>1, <1>2, <1>3, PTL DEF Log!Spec

(* AgentLogView!ShownInOrder (MainActivity.onStart, onStop), for any       *)
(* sizes: lines of other threads stay in the order of the file.            *)
THEOREM LinesInOrder == LogAssumption /\ Log!Spec => []Log!ShownInOrder
<1>. SUFFICES ASSUME LogAssumption PROVE Log!Spec => []Log!ShownInOrder
  OBVIOUS
<1>1. Log!Init => LogInv
  BY LogInit
<1>2. LogInv /\ [Log!Next]_Log!vars => LogInv'
  BY LogStep
<1>3. LogInv => Log!ShownInOrder
  BY LogInvImplies
<1>. QED BY <1>1, <1>2, <1>3, PTL DEF Log!Spec
==============================================================================

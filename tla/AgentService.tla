---------------------------- MODULE AgentService ----------------------------
(***************************************************************************)
(* The Android foreground service of the agent (AgentService.kt): start    *)
(* intents are delivered on the main thread, one controller session at a   *)
(* time runs on a single worker thread, a new session supersedes the old   *)
(* one, and the worker of a finished session tears down the Wi-Fi event    *)
(* logger, the foreground state and the service.                           *)
(*                                                                         *)
(* Start IDs are 1, 2, ... in the order Android hands them out; a session  *)
(* is named by the start ID of its intent, which with the random token     *)
(* stands for the session key.  One instance of the service is modelled,   *)
(* from onCreate to onDestroy.                                             *)
(***************************************************************************)
EXTENDS Integers, Sequences

CONSTANT MaxStarts   (* bound on the number of start intents               *)

Ids   == 1 .. MaxStarts
Kinds == {"session", "invalid", "observe", "unobserve", "other"}

VARIABLES
  inbox,        (* start intents that Android has not delivered yet        *)
  lastStart,    (* the last start ID handed out                            *)
  main,         (* the intent onStartCommand works on, or Idle             *)
  current,      (* currentStartId, 0 when there is no current session      *)
  worker,       (* where each session stands on the worker thread          *)
  interrupted,  (* sessions whose future was canceled while it ran         *)
  wifiEvents,   (* wifiEventsStarted                                       *)
  foreground,   (* the service is in the foreground                        *)
  widgets,      (* AgentClockWidgetProvider.hasClockWidgets                *)
  observing,    (* the clock widget observer is started                    *)
  stopping,     (* stopSelf was called with the last start ID              *)
  destroyed     (* onDestroy has run                                       *)

vars == <<inbox, lastStart, main, current, worker, interrupted, wifiEvents,
          foreground, widgets, observing, stopping, destroyed>>

Idle == [id |-> 0, kind |-> "none"]

(* "finally" is the session's finally block before the lock; the last three *)
(* follow the lock in afterGrpcSessionFinished.                            *)
OnWorker == {"running", "finally", "stopEvents", "stopForeground", "stopSelf"}
Stages   == {"none", "queued", "dropped", "done"} \cup OnWorker

(* Future.isDone is false: the task is queued or runs and is not canceled. *)
Pending(i) == worker[i] \in {"queued"} \cup OnWorker /\ i \notin interrupted

Init ==
  /\ inbox = <<>> /\ lastStart = 0 /\ main = Idle
  /\ current = 0
  /\ worker = [i \in Ids |-> "none"]
  /\ interrupted = {}
  /\ wifiEvents = FALSE
  /\ foreground = TRUE
  /\ widgets \in BOOLEAN
  /\ observing = widgets
  /\ stopping = FALSE /\ destroyed = FALSE

-----------------------------------------------------------------------------
(* The system and the user                                                 *)

(* Someone starts the service: adb for a controller session, the widget    *)
(* provider when widgets come or go, Android itself.                       *)
Request(kind) ==
  /\ ~destroyed /\ ~stopping
  /\ lastStart < MaxStarts
  /\ lastStart' = lastStart + 1
  /\ inbox' = Append(inbox, [id |-> lastStart + 1, kind |-> kind])
  /\ UNCHANGED <<main, current, worker, interrupted, wifiEvents, foreground,
                 widgets, observing, stopping, destroyed>>

(* The user adds the first clock widget or removes the last.               *)
WidgetsChange ==
  /\ lastStart < MaxStarts
  /\ widgets' = ~widgets
  /\ UNCHANGED <<inbox, lastStart, main, current, worker, interrupted, wifiEvents,
                 foreground, observing, stopping, destroyed>>

(* stopSelf(startId) stops the service only for the last start ID.         *)
StopSelf(id) == stopping' = (stopping \/ id = lastStart)

-----------------------------------------------------------------------------
(* onStartCommand on the main thread                                       *)

(* Delivery of an intent up to the first call that another thread can see: *)
(* the service becomes a foreground service, widget intents are handled.   *)
Deliver ==
  /\ main = Idle /\ inbox # <<>> /\ ~destroyed
  /\ inbox' = Tail(inbox)
  /\ LET i == Head(inbox) IN
     /\ main' = IF i.kind \in {"session", "invalid"} THEN i ELSE Idle
     /\ foreground' = ~(i.kind = "unobserve" /\ ~widgets)
     /\ observing' = CASE i.kind = "observe"   -> TRUE
                       [] i.kind = "unobserve" -> observing /\ widgets
                       [] OTHER                -> observing
     /\ IF i.kind = "unobserve" /\ ~widgets THEN StopSelf(i.id) ELSE UNCHANGED stopping
  /\ UNCHANGED <<lastStart, current, worker, interrupted, wifiEvents, widgets, destroyed>>

(* ensureWifiEventsStarted, before the request is validated.  The logger   *)
(* is abstracted to its flag, which only this thread sets and only the     *)
(* worker clears, so check and set are one step.                           *)
EnsureWifiEvents ==
  /\ main.kind \in {"session", "invalid"}
  /\ wifiEvents' = TRUE
  /\ main' = IF main.kind = "session" THEN [main EXCEPT !.kind = "submit"] ELSE Idle
  /\ UNCHANGED <<inbox, lastStart, current, worker, interrupted, foreground, widgets,
                 observing, stopping, destroyed>>

(* Fault: the current session is not canceled.                             *)
CanceledNone(i) == {}

(* The sessions that the start of session i cancels: the current one, if   *)
(* its future is not done.                                                 *)
Canceled(i) == {j \in Ids : j = current /\ Pending(j)}

(* startGrpcSession under sessionLock: a canceled future that has not run  *)
(* yet never runs, not even its finally block; a running one is            *)
(* interrupted.  The new session is queued behind it.                      *)
StartGrpcSession ==
  /\ main.kind = "submit"
  /\ worker' = [j \in Ids |-> IF j = main.id THEN "queued"
                              ELSE IF j \in Canceled(main.id) /\ worker[j] = "queued"
                                     THEN "dropped" ELSE worker[j]]
  /\ interrupted' = interrupted \cup {j \in Canceled(main.id) : worker[j] \in OnWorker}
  /\ current' = main.id
  /\ main' = Idle
  /\ UNCHANGED <<inbox, lastStart, wifiEvents, foreground, widgets, observing,
                 stopping, destroyed>>

(* onDestroy: the current session is canceled, the executor shut down.     *)
OnDestroy ==
  /\ stopping /\ main = Idle /\ ~destroyed
  /\ destroyed' = TRUE
  /\ observing' = FALSE /\ wifiEvents' = FALSE /\ foreground' = FALSE
  /\ worker' = [j \in Ids |-> IF worker[j] = "queued" THEN "dropped" ELSE worker[j]]
  /\ interrupted' = interrupted \cup {j \in Ids : worker[j] \in OnWorker}
  /\ UNCHANGED <<inbox, lastStart, main, current, widgets, stopping>>

-----------------------------------------------------------------------------
(* The session worker thread                                               *)

Move(i, from, to) == worker[i] = from /\ worker' = [worker EXCEPT ![i] = to]

(* The single worker takes the oldest queued session when it is free.      *)
WorkerStart(i) ==
  /\ \A j \in Ids : worker[j] \notin OnWorker /\ (worker[j] = "queued" => i <= j)
  /\ Move(i, "queued", "running")
  /\ UNCHANGED <<inbox, lastStart, main, current, interrupted, wifiEvents, foreground,
                 widgets, observing, stopping, destroyed>>

(* GrpcSessionClient.run ends: the stream ended, or the thread was         *)
(* interrupted in done.await.                                              *)
SessionEnds(i) ==
  /\ Move(i, "running", "finally")
  /\ UNCHANGED <<inbox, lastStart, main, current, interrupted, wifiEvents, foreground,
                 widgets, observing, stopping, destroyed>>

(* Fault: the cleanup does not compare the session with the current one.   *)
AfterFinishedUnchecked(i) ==
  /\ Move(i, "finally", "stopEvents")
  /\ current' = 0
  /\ UNCHANGED <<inbox, lastStart, main, interrupted, wifiEvents, foreground, widgets,
                 observing, stopping, destroyed>>

(* Fault: the start ID is reset to a value no session has.                 *)
AfterFinishedSentinel(i) ==
  /\ Move(i, "finally", IF current = i THEN "stopEvents" ELSE "done")
  /\ current' = IF current = i THEN -1 ELSE current
  /\ UNCHANGED <<inbox, lastStart, main, interrupted, wifiEvents, foreground, widgets,
                 observing, stopping, destroyed>>

(* afterGrpcSessionFinished under sessionLock: the cleanup of a superseded *)
(* session is ignored.                                                     *)
AfterGrpcSessionFinished(i) ==
  /\ Move(i, "finally", IF current = i THEN "stopEvents" ELSE "done")
  /\ current' = IF current = i THEN 0 ELSE current
  /\ UNCHANGED <<inbox, lastStart, main, interrupted, wifiEvents, foreground, widgets,
                 observing, stopping, destroyed>>

(* stopWifiEvents, after the lock is released.                             *)
StopWifiEvents(i) ==
  /\ Move(i, "stopEvents", IF widgets THEN "done" ELSE "stopForeground")
  /\ wifiEvents' = FALSE
  /\ UNCHANGED <<inbox, lastStart, main, current, interrupted, foreground, widgets,
                 observing, stopping, destroyed>>

StopForeground(i) ==
  /\ Move(i, "stopForeground", "stopSelf")
  /\ foreground' = FALSE
  /\ UNCHANGED <<inbox, lastStart, main, current, interrupted, wifiEvents, widgets,
                 observing, stopping, destroyed>>

(* Fault: the service is stopped whatever start came later.                *)
WorkerStopSelfAlways(i) ==
  /\ Move(i, "stopSelf", "done")
  /\ stopping' = TRUE
  /\ UNCHANGED <<inbox, lastStart, main, current, interrupted, wifiEvents, foreground,
                 widgets, observing, destroyed>>

(* Fault: the service is stopped with the start ID of an earlier start.    *)
WorkerStopSelfStale(i) ==
  /\ Move(i, "stopSelf", "done")
  /\ StopSelf(i - 1)
  /\ UNCHANGED <<inbox, lastStart, main, current, interrupted, wifiEvents, foreground,
                 widgets, observing, destroyed>>

WorkerStopSelf(i) ==
  /\ Move(i, "stopSelf", "done")
  /\ StopSelf(i)
  /\ UNCHANGED <<inbox, lastStart, main, current, interrupted, wifiEvents, foreground,
                 widgets, observing, destroyed>>

-----------------------------------------------------------------------------
Main == Deliver \/ EnsureWifiEvents \/ StartGrpcSession \/ OnDestroy

Worker(i) ==
  \/ WorkerStart(i)
  \/ SessionEnds(i)
  \/ AfterGrpcSessionFinished(i)
  \/ StopWifiEvents(i)
  \/ StopForeground(i)
  \/ WorkerStopSelf(i)

Next ==
  \/ \E kind \in Kinds : Request(kind)
  \/ WidgetsChange
  \/ Main
  \/ \E i \in Ids : Worker(i)

Spec == Init /\ [][Next]_vars

(* Android runs the main thread and the worker.  A session ends when it is *)
(* interrupted; otherwise it may last for ever.                            *)
Fairness ==
  /\ WF_vars(Main)
  /\ \A i \in Ids :
       /\ WF_vars(WorkerStart(i))
       /\ WF_vars(i \in interrupted /\ SessionEnds(i))
       /\ WF_vars(AfterGrpcSessionFinished(i) \/ StopWifiEvents(i) \/ StopForeground(i)
                  \/ WorkerStopSelf(i))

FairSpec == Spec /\ Fairness

-----------------------------------------------------------------------------
(* Every variable stays in its type.                                       *)
TypeOK ==
  /\ inbox \in Seq([id : Ids, kind : Kinds])
  /\ lastStart \in 0 .. MaxStarts
  /\ main \in {Idle} \cup [id : Ids, kind : {"session", "invalid", "submit"}]
  /\ current \in 0 .. MaxStarts
  /\ worker \in [Ids -> Stages]
  /\ interrupted \subseteq Ids
  /\ {wifiEvents, foreground, widgets, observing, stopping, destroyed} \subseteq BOOLEAN

(* A session that nobody superseded or shut down is the current one, until *)
(* its own cleanup gives the place up: a stale cleanup never clears the    *)
(* session state of its successor (AgentService.kt:190), and no two        *)
(* sessions are live at once.                                              *)
LiveSessionIsCurrent ==
  \A i \in Ids : worker[i] \in {"queued", "running", "finally"} /\ i \notin interrupted
                   => current = i

(* A worker that cleans up takes no newer start down with it: stopSelf    *)
(* with its own start ID is void once another start came (line 210).       *)
CleanupSparesNewer ==
  [][~stopping /\ stopping' /\ (\E i \in Ids : worker[i] = "stopSelf" /\ worker'[i] = "done") =>
       /\ \A j \in Ids : worker'[j] \notin {"queued", "running"}
       /\ main' = Idle /\ inbox' = <<>>]_vars

(* The service never stops itself under a controller session that is       *)
(* queued or runs: it "keeps one active controller session started through *)
(* ADB" (AgentService.kt:22).                                              *)
KeepsActiveSession ==
  [][~stopping /\ stopping' => \A i \in Ids : worker[i] \notin {"queued", "running"}]_vars

(* A superseding session gets the worker: whatever it displaced ends.      *)
QueuedSessionRuns ==
  \A i \in Ids : worker[i] = "queued" ~> (worker[i] \in {"running", "dropped"})

(* When the last session of the last start ends and no widget holds the    *)
(* service, the service goes away, unless it is started again.             *)
LastSessionStopsService ==
  \A i \in Ids :
    (worker[i] = "finally" /\ current = i /\ lastStart = i)
      ~> (destroyed \/ widgets \/ lastStart > i)
=============================================================================

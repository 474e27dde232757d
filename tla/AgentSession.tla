---------------------------- MODULE AgentSession -----------------------------
(***************************************************************************)
(* One controller session of the Android agent: GrpcSessionClient.run, the *)
(* gRPC callback thread that accepts and cancels commands, the single      *)
(* command worker that executes them under AgentCommandLock (shared with   *)
(* the on-device shell), and the order in which all of it is shut down.    *)
(*                                                                         *)
(* A task is one RUN_COMMAND frame and the FutureTask made for it.         *)
(***************************************************************************)
EXTENDS Integers, Sequences, FiniteSets

CONSTANTS
  Tasks,        (* the RUN_COMMAND frames of the controller                *)
  IdOf,         (* the command ID of each frame                            *)
  Cancels,      (* the command IDs CANCEL_COMMAND frames come for          *)
  NoTask        (* no task                                                  *)

ASSUME SessionAssumption == NoTask \notin Tasks

VARIABLES
  session,      (* where run stands                                        *)
  closed,       (* requests.onCompleted was called                         *)
  rx,           (* the callback thread: [at, task]                         *)
  sent,         (* the frames the controller has sent                      *)
  active,       (* GrpcSessionClient.active: command ID -> task            *)
  cancelled,    (* the tasks whose FutureTask is cancelled                 *)
  queue,        (* the queue of commandExecutor                            *)
  poolShut,     (* commandExecutor.shutdownNow was called                  *)
  worker,       (* the worker thread: [at, task]                           *)
  flag,         (* the worker's interrupt flag                             *)
  lock,         (* AgentCommandLock: "free", "worker" or "shell"           *)
  wire          (* per task the kinds of frames sent for it                *)

taskVars  == <<active, cancelled, queue, poolShut, worker, flag, lock, wire>>
rxVars    == <<rx, sent>>
vars      == <<session, closed, rxVars, taskVars>>

Ids    == {IdOf[t] : t \in Tasks}
Idle   == [at |-> "idle", task |-> NoTask]
Answer == {"result", "canceled", "error"}

Init ==
  /\ session = "open" /\ closed = FALSE
  /\ rx = Idle /\ sent = {}
  /\ active = [i \in Ids |-> NoTask] /\ cancelled = {} /\ queue = <<>>
  /\ poolShut = FALSE /\ worker = Idle /\ flag = FALSE /\ lock = "free"
  /\ wire = [t \in Tasks |-> <<>>]

(* send: onNext fails on a completed stream and its failure is swallowed.  *)
Send(t, kind) == wire' = IF closed THEN wire ELSE [wire EXCEPT ![t] = Append(@, kind)]

(* FutureTask.cancel(true) on a set of tasks: the one being run has its    *)
(* thread interrupted, the others will never be run.                       *)
CancelTasks(ts) ==
  /\ cancelled' = cancelled \cup ts
  /\ flag' = (flag \/ (worker.task # NoTask /\ worker.task \in ts \ cancelled))

-----------------------------------------------------------------------------
(* The session thread                                                      *)

(* The stream is opened, the hello frame is sent, the heartbeats begin.    *)
Open ==
  /\ session = "open"
  /\ session' = "await"
  /\ UNCHANGED <<closed, rxVars, taskVars>>

(* done.await returns: the stream failed or completed, a send failed, or   *)
(* the service interrupted the thread.                                     *)
StreamEnds ==
  /\ session = "await"
  /\ session' = "cancel"
  /\ UNCHANGED <<closed, rxVars, taskVars>>

CancelActive ==
  /\ session = "cancel"
  /\ CancelTasks({active[i] : i \in Ids} \ {NoTask})
  /\ session' = "clear"
  /\ UNCHANGED <<closed, rxVars, active, queue, poolShut, worker, lock, wire>>

ClearActive ==
  /\ session = "clear"
  /\ active' = [i \in Ids |-> NoTask]
  /\ session' = "shutdown"
  /\ UNCHANGED <<closed, rxVars, cancelled, queue, poolShut, worker, flag, lock, wire>>

(* Fault: shutdown() lets what was accepted run to its end.                *)
HaltGently == UNCHANGED <<queue, flag>>

(* shutdownNow drains the queue and interrupts the worker.                 *)
Halt == queue' = <<>> /\ flag' = (flag \/ worker # Idle)

ShutdownExecutors ==
  /\ session = "shutdown"
  /\ Halt
  /\ poolShut' = TRUE
  /\ session' = "complete"
  /\ UNCHANGED <<closed, rxVars, active, cancelled, worker, lock, wire>>

(* markDisconnected, then the request stream is completed and the channel  *)
(* shut down.                                                              *)
Complete ==
  /\ session = "complete"
  /\ closed' = TRUE /\ session' = "ended"
  /\ UNCHANGED <<rxVars, taskVars>>

-----------------------------------------------------------------------------
(* The callback thread                                                     *)

Receiving == session \notin {"open", "ended"} /\ rx = Idle

(* Fault: the map entry of an earlier task is overwritten.                 *)
AdmitsAll(t) == TRUE

(* putIfAbsent finds the command ID free.                                  *)
Admits(t) == active[IdOf[t]] = NoTask

(* startCommand: an ID in use is answered with an error frame, a free one  *)
(* is taken.                                                               *)
StartCommand(t) ==
  /\ Receiving /\ t \notin sent
  /\ sent' = sent \cup {t}
  /\ IF Admits(t)
       THEN /\ active' = [active EXCEPT ![IdOf[t]] = t]
            /\ rx' = [at |-> "accept", task |-> t]
            /\ UNCHANGED wire
       ELSE /\ Send(t, "duplicate")
            /\ UNCHANGED <<active, rx>>
  /\ UNCHANGED <<session, closed, cancelled, queue, poolShut, worker, flag, lock>>

(* The accepted frame goes out before the task is handed to the worker.    *)
SendAccepted ==
  /\ rx.at = "accept"
  /\ Send(rx.task, "accepted")
  /\ rx' = [rx EXCEPT !.at = "execute"]
  /\ UNCHANGED <<session, closed, sent, active, cancelled, queue, poolShut, worker,
                 flag, lock>>

(* commandExecutor.execute, which throws once the pool is shut.            *)
ExecuteTask ==
  /\ rx.at = "execute"
  /\ queue' = IF poolShut THEN queue ELSE Append(queue, rx.task)
  /\ rx' = Idle
  /\ UNCHANGED <<session, closed, sent, active, cancelled, poolShut, worker, flag,
                 lock, wire>>

(* cancelCommand: the entry is removed; then its future is cancelled.  A   *)
(* cancel frame may come early, late and again.                            *)
CancelCommand(i) ==
  /\ Receiving /\ i \in Cancels
  /\ active' = [active EXCEPT ![i] = NoTask]
  /\ rx' = IF active[i] = NoTask THEN Idle ELSE [at |-> "cancel", task |-> active[i]]
  /\ UNCHANGED <<session, closed, sent, cancelled, queue, poolShut, worker, flag, lock, wire>>

CancelFuture ==
  /\ rx.at = "cancel"
  /\ CancelTasks({rx.task})
  /\ rx' = Idle
  /\ UNCHANGED <<session, closed, sent, active, queue, poolShut, worker, lock, wire>>

-----------------------------------------------------------------------------
(* The command worker                                                      *)

(* The executor takes the next task; a cancelled FutureTask does not run.  *)
(* A running one begins with a log frame.                                  *)
Take ==
  LET t == Head(queue) IN
  /\ worker = Idle /\ queue # <<>>
  /\ queue' = Tail(queue) /\ flag' = poolShut
  /\ IF t \in cancelled
       THEN UNCHANGED <<worker, wire>>
       ELSE worker' = [at |-> "lock", task |-> t] /\ Send(t, "log")
  /\ UNCHANGED <<session, closed, rxVars, active, cancelled, poolShut, lock>>

(* AgentCommandLock.run: lockInterruptibly, then throwIfInterrupted.       *)
Acquire ==
  /\ worker.at = "lock" /\ ~flag /\ lock = "free"
  /\ lock' = "worker" /\ worker' = [worker EXCEPT !.at = "body"]
  /\ UNCHANGED <<session, closed, rxVars, active, cancelled, queue, poolShut, flag, wire>>

Interrupted ==
  /\ worker.at = "lock" /\ flag
  /\ worker' = [worker EXCEPT !.at = "canceled"]
  /\ UNCHANGED <<session, closed, rxVars, active, cancelled, queue, poolShut, flag, lock, wire>>

(* CommandExecutor.execute ends: with a result, even if an interrupt came  *)
(* too late to be noticed, with an exception, or interrupted; the lock is  *)
(* released in every case.                                                 *)
Execute ==
  /\ worker.at = "body"
  /\ \E k \in Answer : (k = "canceled" => flag) /\ worker' = [worker EXCEPT !.at = k]
  /\ lock' = "free"
  /\ UNCHANGED <<session, closed, rxVars, active, cancelled, queue, poolShut, flag, wire>>

SendAnswer ==
  /\ worker.at \in Answer
  /\ Send(worker.task, worker.at)
  /\ worker' = [worker EXCEPT !.at = "finally"]
  /\ UNCHANGED <<session, closed, rxVars, active, cancelled, queue, poolShut, flag, lock>>

(* finally: whatever is registered under the command ID is removed.        *)
Finally ==
  /\ worker.at = "finally"
  /\ active' = [active EXCEPT ![IdOf[worker.task]] = NoTask]
  /\ worker' = Idle
  /\ UNCHANGED <<session, closed, rxVars, cancelled, queue, poolShut, flag, lock, wire>>

(* A command of the on-device shell takes the lock and releases it.        *)
ShellLock ==
  /\ lock # "worker"
  /\ lock' = IF lock = "free" THEN "shell" ELSE "free"
  /\ UNCHANGED <<session, closed, rxVars, active, cancelled, queue, poolShut, worker, flag, wire>>

Finished == session = "ended" /\ worker = Idle /\ rx = Idle /\ UNCHANGED vars

SessionThread == Open \/ CancelActive \/ ClearActive \/ ShutdownExecutors \/ Complete
Callback == SendAccepted \/ ExecuteTask \/ CancelFuture
Worker   == Take \/ Acquire \/ Interrupted \/ Execute \/ SendAnswer \/ Finally

Next ==
  \/ SessionThread \/ StreamEnds \/ Callback \/ Worker
  \/ (\E t \in Tasks : StartCommand(t)) \/ (\E i \in Ids : CancelCommand(i))
  \/ ShellLock \/ Finished

(* Threads run; commands and shell commands end (their own timeouts), and  *)
(* the worker is not starved of a lock that becomes free again and again.  *)
Fairness ==
  /\ WF_vars(SessionThread) /\ WF_vars(Callback)
  /\ WF_vars(Worker) /\ SF_vars(Acquire) /\ WF_vars(lock = "shell" /\ ShellLock)

Spec == Init /\ [][Next]_vars /\ Fairness

-----------------------------------------------------------------------------
(* What the controller sees of a command is a prefix of: accepted, log,    *)
(* one answer.  No log overtakes the acceptance, nothing follows the       *)
(* answer, and a rejected duplicate causes one error frame and no work.    *)
FramesInOrder ==
  \A t \in Tasks :
    \/ wire[t] = <<"duplicate">>
    \/ \E a \in Answer : \E n \in 0..3 : wire[t] = SubSeq(<<"accepted", "log", a>>, 1, n)

(* Queued, with the worker, or on its way to the queue.                    *)
Live(t) == \/ t \in {queue[i] : i \in 1..Len(queue)} \/ t = worker.task
           \/ rx.task = t /\ rx.at \in {"accept", "execute"}

(* A cancelled command of the same ID had begun and is over: its finally   *)
(* has removed whatever it found under the ID.                             *)
Begun(t) == \E i \in DOMAIN wire[t] : wire[t][i] = "log"
Overtaken(t) == \E u \in cancelled : IdOf[u] = IdOf[t] /\ Begun(u) /\ ~Live(u)

(* As long as the session lives, a command that was accepted, has not      *)
(* ended and was not cancelled is registered under its ID, so that a       *)
(* cancel frame and the shutdown reach it, however often IDs are sent and  *)
(* cancelled.  What can take its entry away is the end of a cancelled      *)
(* command of its ID (GrpcSessionClient.kt:232), and nothing else.         *)
Reachable ==
  session \in {"await", "cancel"} =>
    \A t \in Tasks \ cancelled : Live(t) /\ ~(rx.at = "cancel" /\ rx.task = t) =>
      active[IdOf[t]] = t \/ Overtaken(t)

(* "Only one task may own a command ID at a time; duplicate IDs are        *)
(* rejected before any local side effect runs" (GrpcSessionClient.kt:149). *)
OneOwner ==
  session = "await" =>
    \A t, u \in Tasks \ cancelled : Live(t) /\ Live(u) /\ IdOf[t] = IdOf[u] => t = u

(* A session that has ended leaves no command behind: nothing is queued,   *)
(* nothing can be queued, and what still runs has been interrupted.  This  *)
(* includes a command accepted while the shutdown was under way.           *)
NoWorkLeft ==
  session = "ended" => queue = <<>> /\ poolShut /\ (worker # Idle => flag)

(* Every accepted command is answered, unless it was cancelled or the      *)
(* session ends; the shell's use of the command lock only delays it.       *)
AcceptedAnswered ==
  \A t \in Tasks :
    wire[t] = <<"accepted">> ~> (Len(wire[t]) = 3 \/ t \in cancelled \/ session = "ended")
=============================================================================

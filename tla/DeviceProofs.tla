----------------------------- MODULE DeviceProofs ----------------------------
(***************************************************************************)
(* AgentSession, for every set of commands and cancels: a cancel frame and *)
(* the shutdown of a session reach every command it has accepted, a        *)
(* session that ended leaves no work, and what the controller sees of a    *)
(* command is a prefix of accepted, log, answer.                           *)
(*                                                                         *)
(* The other parts of MCDevice: every behaviour of one of them is a        *)
(* behaviour that AgentProofs or WifiCommandsProofs speak about, so their  *)
(* theorems give the properties of the instance.                           *)
(***************************************************************************)
EXTENDS MCDevice, SequenceTheorems, TLAPS

Kinds == {"accepted", "log", "duplicate"} \cup Answer

TypeOK ==
  /\ session \in {"open", "await", "cancel", "clear", "shutdown", "complete", "ended"}
  /\ closed \in BOOLEAN /\ poolShut \in BOOLEAN /\ flag \in BOOLEAN
  /\ sent \subseteq Tasks /\ cancelled \subseteq Tasks
  /\ rx \in {Idle} \cup [at : {"accept", "execute", "cancel"}, task : Tasks]
  /\ worker \in {Idle} \cup [at : {"lock", "body", "finally"} \cup Answer, task : Tasks]
  /\ active \in [Ids -> Tasks \cup {NoTask}]
  /\ queue \in Seq(Tasks)
  /\ wire \in [Tasks -> Seq(Kinds)]

(* The executor is shut with the session and runs nothing after it.        *)
Shut ==
  /\ poolShut <=> session \in {"complete", "ended"}
  /\ poolShut => queue = <<>> /\ (worker # Idle => flag)
  /\ closed <=> session = "ended"

Queued(t)  == \E i \in 1 .. Len(queue) : queue[i] = t
Arrives(t) == rx.task = t /\ rx.at \in {"accept", "execute"}
Runs(t)    == worker.task = t

(* A task is at one place: with the callback thread, queued once, or with  *)
(* the worker; and only if its frame has come.                             *)
OnePlace ==
  /\ \A t \in Tasks : Arrives(t) => t \in sent /\ ~Queued(t) /\ ~Runs(t)
  /\ \A t \in Tasks : Queued(t) => t \in sent /\ ~Runs(t)
  /\ \A t \in Tasks : Runs(t) => t \in sent
  /\ \A i, j \in 1 .. Len(queue) : queue[i] = queue[j] => i = j

(* What the worker has begun was logged, as long as the stream is open;    *)
(* only a command whose frame came is logged.                              *)
BegunOnce ==
  /\ \A t \in Tasks : Begun(t) => t \in sent
  /\ \A t \in Tasks : Runs(t) /\ ~closed => Begun(t)

(* Until the session cancels its commands, a live one is registered, or a  *)
(* cancel frame came for it, and its future is cancelled or about to be,   *)
(* or a cancelled command of its ID took its entry away.                   *)
Here(t)   == Queued(t) \/ Arrives(t) \/ Runs(t)
Caught(t) == t \in cancelled \/ (rx.at = "cancel" /\ rx.task = t)
Gone(t)   == \E u \in cancelled : IdOf[u] = IdOf[t] /\ Begun(u) /\ ~Here(u)

Registered ==
  /\ \A i \in Ids : active[i] # NoTask => IdOf[active[i]] = i
  /\ rx.at = "cancel" => active[IdOf[rx.task]] = NoTask
  /\ session \in {"open", "await", "cancel"} =>
       \A t \in Tasks : Here(t) => active[IdOf[t]] = t \/ Caught(t) \/ Gone(t)

IInv == TypeOK /\ Shut /\ OnePlace /\ BegunOnce /\ Registered

LEMMA InitIInv == Init => IInv
<1> SUFFICES ASSUME Init PROVE IInv
  OBVIOUS
<1>1. TypeOK
  <2>1. active \in [Ids -> Tasks \cup {NoTask}]
    BY DEF Init
  <2>2. queue \in Seq(Tasks)
    BY DEF Init
  <2>3. wire \in [Tasks -> Seq(Kinds)]
    <3>1. <<>> \in Seq(Kinds)
      OBVIOUS
    <3>. QED BY <3>1 DEF Init
  <2>. QED BY <2>1, <2>2, <2>3 DEF Init, TypeOK
<1>2. Shut
  BY DEF Init, Shut
<1>3. \A t \in Tasks : ~Queued(t) /\ ~Arrives(t) /\ ~Runs(t)
  BY SessionAssumption DEF Init, Queued, Arrives, Runs, Idle
<1>4. OnePlace
  BY <1>3 DEF OnePlace, Init
<1>5. Registered
  BY <1>3 DEF Registered, Here, Init, Idle
<1>6. BegunOnce
  BY <1>3 DEF BegunOnce, Begun, Init
<1>. QED BY <1>1, <1>2, <1>4, <1>5, <1>6 DEF IInv

LEMMA TypeStep == TypeOK /\ Shut /\ [Next]_vars => TypeOK'
<1> SUFFICES ASSUME TypeOK, Shut, [Next]_vars PROVE TypeOK'
  OBVIOUS
<1>1. ASSUME NEW t \in Tasks, NEW k \in Kinds, Send(t, k)
      PROVE  wire' \in [Tasks -> Seq(Kinds)]
  BY <1>1 DEF Send, TypeOK
<1>2. rx # Idle => rx \in [at : {"accept", "execute", "cancel"}, task : Tasks]
  BY DEF TypeOK
<1>3. worker # Idle => worker \in [at : {"lock", "body", "finally"} \cup Answer, task : Tasks]
  BY DEF TypeOK
<1>4. CASE Open
  BY <1>4 DEF Open, TypeOK, rxVars, taskVars
<1>5. CASE StreamEnds
  BY <1>5 DEF StreamEnds, TypeOK, rxVars, taskVars
<1>6. CASE CancelActive
  <2>1. {active[i] : i \in Ids} \ {NoTask} \subseteq Tasks
    BY DEF TypeOK
  <2>. QED BY <1>6, <2>1 DEF CancelActive, CancelTasks, TypeOK, rxVars
<1>7. CASE ClearActive
  BY <1>7 DEF ClearActive, TypeOK, rxVars
<1>8. CASE ShutdownExecutors
  BY <1>8 DEF ShutdownExecutors, Halt, TypeOK, rxVars
<1>9. CASE Complete
  BY <1>9 DEF Complete, TypeOK, rxVars, taskVars
<1>10. ASSUME NEW t \in Tasks, StartCommand(t)
       PROVE  TypeOK'
  <2>1. IdOf[t] \in Ids
    BY DEF Ids
  <2>2. wire' \in [Tasks -> Seq(Kinds)]
    BY <1>1, <1>10 DEF StartCommand, Kinds, TypeOK
  <2>3. active' \in [Ids -> Tasks \cup {NoTask}]
    BY <1>10, <2>1 DEF StartCommand, TypeOK
  <2>4. rx' \in {Idle} \cup [at : {"accept", "execute", "cancel"}, task : Tasks]
    BY <1>10 DEF StartCommand, TypeOK
  <2>. QED BY <1>10, <2>2, <2>3, <2>4 DEF StartCommand, TypeOK
<1>11. CASE SendAccepted
  <2>1. rx \in [at : {"accept", "execute", "cancel"}, task : Tasks]
    BY <1>2, <1>11 DEF SendAccepted, Idle
  <2>2. wire' \in [Tasks -> Seq(Kinds)]
    BY <1>1, <1>11, <2>1 DEF SendAccepted, Kinds
  <2>3. rx' \in [at : {"accept", "execute", "cancel"}, task : Tasks]
    BY <1>11, <2>1 DEF SendAccepted
  <2>. QED BY <1>11, <2>2, <2>3 DEF SendAccepted, TypeOK
<1>12. CASE ExecuteTask
  <2>1. rx.task \in Tasks
    BY <1>2, <1>12 DEF ExecuteTask, Idle
  <2>2. queue' \in Seq(Tasks)
    BY <1>12, <2>1 DEF ExecuteTask, TypeOK
  <2>. QED BY <1>12, <2>2 DEF ExecuteTask, TypeOK
<1>13. ASSUME NEW i \in Ids, CancelCommand(i)
       PROVE  TypeOK'
  <2>1. active[i] # NoTask => active[i] \in Tasks
    BY DEF TypeOK
  <2>. QED BY <1>13, <2>1 DEF CancelCommand, TypeOK
<1>14. CASE CancelFuture
  <2>1. rx.task \in Tasks
    BY <1>2, <1>14 DEF CancelFuture, Idle
  <2>. QED BY <1>14, <2>1 DEF CancelFuture, CancelTasks, TypeOK
<1>15. CASE Take
  <2>1. Head(queue) \in Tasks /\ Tail(queue) \in Seq(Tasks)
    BY <1>15 DEF Take, TypeOK
  <2>2. wire' \in [Tasks -> Seq(Kinds)]
    BY <1>1, <1>15, <2>1 DEF Take, Kinds, TypeOK
  <2>. QED BY <1>15, <2>1, <2>2 DEF Take, TypeOK, rxVars
<1>16. CASE Acquire
  <2>1. worker' \in [at : {"lock", "body", "finally"} \cup Answer, task : Tasks]
    BY <1>3, <1>16 DEF Acquire, Idle
  <2>. QED BY <1>16, <2>1 DEF Acquire, TypeOK, rxVars
<1>17. CASE Interrupted
  <2>1. worker' \in [at : {"lock", "body", "finally"} \cup Answer, task : Tasks]
    BY <1>3, <1>17 DEF Interrupted, Idle, Answer
  <2>. QED BY <1>17, <2>1 DEF Interrupted, TypeOK, rxVars
<1>18. CASE Execute
  <2>1. worker' \in [at : {"lock", "body", "finally"} \cup Answer, task : Tasks]
    BY <1>3, <1>18 DEF Execute, Idle
  <2>. QED BY <1>18, <2>1 DEF Execute, TypeOK, rxVars
<1>19. CASE SendAnswer
  <2>1. worker \in [at : {"lock", "body", "finally"} \cup Answer, task : Tasks]
    BY <1>3, <1>19 DEF SendAnswer, Idle, Answer
  <2>2. wire' \in [Tasks -> Seq(Kinds)]
    BY <1>1, <1>19, <2>1 DEF SendAnswer, Kinds
  <2>3. worker' \in [at : {"lock", "body", "finally"} \cup Answer, task : Tasks]
    BY <1>19, <2>1 DEF SendAnswer
  <2>. QED BY <1>19, <2>2, <2>3 DEF SendAnswer, TypeOK, rxVars
<1>20. CASE Finally
  BY <1>20 DEF Finally, TypeOK, rxVars
<1>21. CASE ShellLock
  BY <1>21 DEF ShellLock, TypeOK, rxVars
<1>22. CASE UNCHANGED vars
  BY <1>22 DEF TypeOK, vars, rxVars, taskVars
<1>. QED BY <1>4, <1>5, <1>6, <1>7, <1>8, <1>9, <1>10, <1>11, <1>12, <1>13, <1>14, <1>15, <1>16,
     <1>17, <1>18, <1>19, <1>20, <1>21, <1>22
     DEF Next, SessionThread, Callback, Worker, Finished

LEMMA ShutStep == TypeOK /\ Shut /\ [Next]_vars => Shut'
<1> SUFFICES ASSUME TypeOK, Shut, [Next]_vars PROVE Shut'
  OBVIOUS
<1>1. CASE SessionThread
  <2>1. CASE Open \/ CancelActive \/ ClearActive
    BY <2>1 DEF Open, CancelActive, ClearActive, Shut, rxVars, taskVars
  <2>2. CASE ShutdownExecutors
    BY <2>2 DEF ShutdownExecutors, Halt, Shut, TypeOK
  <2>3. CASE Complete
    BY <2>3 DEF Complete, Shut, taskVars
  <2>. QED BY <1>1, <2>1, <2>2, <2>3 DEF SessionThread
<1>2. CASE StreamEnds
  BY <1>2 DEF StreamEnds, Shut, rxVars, taskVars
<1>3. CASE Callback
  BY <1>3 DEF Callback, SendAccepted, ExecuteTask, CancelFuture, CancelTasks, Shut, TypeOK
<1>4. CASE Worker
  BY <1>4 DEF Worker, Take, Acquire, Interrupted, Execute, SendAnswer, Finally, Shut, TypeOK, rxVars,
     Idle, Answer
<1>5. ASSUME NEW t \in Tasks, StartCommand(t) PROVE Shut'
  BY <1>5 DEF StartCommand, Shut
<1>6. ASSUME NEW i \in Ids, CancelCommand(i) PROVE Shut'
  BY <1>6 DEF CancelCommand, Shut
<1>7. CASE ShellLock
  BY <1>7 DEF ShellLock, Shut, rxVars
<1>8. CASE UNCHANGED vars
  BY <1>8 DEF Shut, vars, rxVars, taskVars
<1>. QED BY <1>1, <1>2, <1>3, <1>4, <1>5, <1>6, <1>7, <1>8 DEF Next, Finished

(* What a step does to the places of the tasks.                            *)
LEMMA QueueAppended ==
  ASSUME queue \in Seq(Tasks), NEW t \in Tasks, queue' = Append(queue, t)
  PROVE  /\ \A u : Queued(u)' <=> Queued(u) \/ u = t
         /\ ~Queued(t) /\ (\A i, j \in 1 .. Len(queue) : queue[i] = queue[j] => i = j) =>
              \A i, j \in 1 .. Len(queue') : queue'[i] = queue'[j] => i = j
<1>1. Len(queue') = Len(queue) + 1 /\ Len(queue) \in Nat /\ queue'[Len(queue')] = t
      /\ \A i \in 1 .. Len(queue) : queue'[i] = queue[i]
  OBVIOUS
<1>2. 1 .. Len(queue') = 1 .. Len(queue) \cup {Len(queue')}
  BY <1>1
<1>. QED BY <1>1, <1>2 DEF Queued

LEMMA QueueTaken ==
  ASSUME queue \in Seq(Tasks), queue # <<>>, queue' = Tail(queue),
         \A i, j \in 1 .. Len(queue) : queue[i] = queue[j] => i = j
  PROVE  /\ Head(queue) \in Tasks /\ Queued(Head(queue))
         /\ \A u : Queued(u)' <=> Queued(u) /\ u # Head(queue)
         /\ \A i, j \in 1 .. Len(queue') : queue'[i] = queue'[j] => i = j
<1>1. Len(queue) \in Nat \ {0} /\ Len(queue') = Len(queue) - 1 /\ Head(queue) = queue[1]
      /\ \A i \in 1 .. Len(queue') : queue'[i] = queue[i + 1]
  OBVIOUS
<1>2. Head(queue) \in Tasks /\ Queued(Head(queue))
  BY <1>1 DEF Queued
<1>3. ASSUME NEW u, Queued(u)' PROVE Queued(u) /\ u # Head(queue)
  BY <1>1, <1>3 DEF Queued
<1>4. ASSUME NEW u, Queued(u), u # Head(queue) PROVE Queued(u)'
  <2>1. PICK i \in 1 .. Len(queue) : queue[i] = u
    BY <1>4 DEF Queued
  <2>2. i # 1 /\ i - 1 \in 1 .. Len(queue') /\ (i - 1) + 1 = i
    BY <1>1, <1>4, <2>1
  <2>3. queue'[i - 1] = u
    BY <1>1, <2>1, <2>2
  <2>. QED BY <2>2, <2>3 DEF Queued
<1>5. ASSUME NEW i \in 1 .. Len(queue'), NEW j \in 1 .. Len(queue'), queue'[i] = queue'[j]
      PROVE  i = j
  BY <1>1, <1>5
<1>. QED BY <1>2, <1>3, <1>4, <1>5

LEMMA PlaceStep == TypeOK /\ OnePlace /\ [Next]_vars => OnePlace'
<1> SUFFICES ASSUME TypeOK, OnePlace, [Next]_vars PROVE OnePlace'
  OBVIOUS
<1>1. rx = Idle => \A t \in Tasks : ~Arrives(t)
  BY DEF Arrives, Idle
<1>2. worker = Idle => \A t \in Tasks : ~Runs(t)
  BY SessionAssumption DEF Runs, Idle
<1>3. ASSUME UNCHANGED <<queue, sent>>, \A t \in Tasks : Arrives(t)' => Arrives(t),
             \A t \in Tasks : Runs(t)' => Runs(t)
      PROVE  OnePlace'
  <2>1. \A t : Queued(t)' <=> Queued(t)
    BY <1>3 DEF Queued
  <2>. QED BY <1>3, <2>1 DEF OnePlace
<1>4. ASSUME UNCHANGED <<queue, sent, worker>>, \A t \in Tasks : Arrives(t)' => Arrives(t)
      PROVE  OnePlace'
  BY <1>3, <1>4 DEF Runs
<1>5. ASSUME UNCHANGED <<queue, sent, rx>>, worker'.task = worker.task
      PROVE  OnePlace'
  BY <1>3, <1>5 DEF Runs, Arrives
<1>6. CASE Open \/ StreamEnds \/ CancelActive \/ ClearActive \/ Complete \/ ShellLock
  BY <1>5, <1>6 DEF Open, StreamEnds, CancelActive, ClearActive, Complete, ShellLock, rxVars, taskVars
<1>7. CASE ShutdownExecutors
  <2>1. queue' = <<>> /\ UNCHANGED <<rx, sent, worker>>
    BY <1>7 DEF ShutdownExecutors, Halt, rxVars
  <2>2. \A t \in Tasks : ~Queued(t)'
    BY <2>1 DEF Queued
  <2>. QED BY <2>1, <2>2 DEF OnePlace, Arrives, Runs
<1>8. ASSUME NEW t \in Tasks, StartCommand(t)
      PROVE  OnePlace'
  <2>1. rx = Idle /\ t \notin sent /\ sent' = sent \cup {t} /\ UNCHANGED <<queue, worker>>
        /\ (rx' = rx \/ rx'.task = t)
    BY <1>8 DEF StartCommand, Receiving
  <2>2. \A u \in Tasks : Arrives(u)' => u = t
    BY <2>1 DEF Arrives, Idle
  <2>3. ~Queued(t) /\ ~Runs(t) /\ \A u : (Queued(u)' <=> Queued(u)) /\ (Runs(u)' <=> Runs(u))
    BY <2>1 DEF OnePlace, Queued, Runs
  <2>. QED BY <2>1, <2>2, <2>3 DEF OnePlace
<1>9. CASE SendAccepted
  BY <1>4, <1>9 DEF SendAccepted, Arrives, TypeOK
<1>10. CASE ExecuteTask
  <2>1. rx.task \in Tasks /\ Arrives(rx.task) /\ rx' = Idle /\ UNCHANGED <<sent, worker>>
        /\ (queue' = queue \/ queue' = Append(queue, rx.task))
    BY <1>10 DEF ExecuteTask, Arrives, TypeOK, Idle
  <2>2. \A u \in Tasks : ~Arrives(u)'
    BY <2>1 DEF Arrives, Idle
  <2>3. CASE queue' = queue
    BY <1>4, <2>1, <2>2, <2>3
  <2>4. CASE queue' = Append(queue, rx.task)
    <3>1. \A u : Queued(u)' <=> Queued(u) \/ u = rx.task
      BY <2>1, <2>4, QueueAppended DEF TypeOK
    <3>2. \A i, j \in 1 .. Len(queue') : queue'[i] = queue'[j] => i = j
      BY <2>1, <2>4, QueueAppended DEF TypeOK, OnePlace
    <3>3. rx.task \in sent /\ ~Runs(rx.task) /\ \A u \in Tasks : Runs(u)' <=> Runs(u)
      BY <2>1 DEF OnePlace, Runs
    <3>. QED BY <2>1, <2>2, <3>1, <3>2, <3>3 DEF OnePlace
  <2>. QED BY <2>1, <2>3, <2>4
<1>11. ASSUME NEW i \in Ids, CancelCommand(i)
       PROVE  OnePlace'
  BY <1>1, <1>4, <1>11 DEF CancelCommand, Receiving, Arrives, Idle
<1>12. CASE CancelFuture
  BY <1>4, <1>12 DEF CancelFuture, Arrives, Idle
<1>13. CASE Take
  <2>1. worker = Idle /\ queue # <<>> /\ queue' = Tail(queue) /\ UNCHANGED <<rx, sent>>
        /\ (worker' = worker \/ worker'.task = Head(queue))
    BY <1>13 DEF Take, rxVars
  <2>2. /\ Head(queue) \in Tasks /\ Queued(Head(queue))
        /\ \A u : Queued(u)' <=> Queued(u) /\ u # Head(queue)
        /\ \A i, j \in 1 .. Len(queue') : queue'[i] = queue'[j] => i = j
    BY <2>1, QueueTaken DEF TypeOK, OnePlace
  <2>3. \A u \in Tasks : (Arrives(u)' <=> Arrives(u)) /\ (Runs(u)' => u = Head(queue))
    BY <1>2, <2>1 DEF Arrives, Runs
  <2>. QED BY <2>1, <2>2, <2>3 DEF OnePlace
<1>14. CASE Acquire \/ Interrupted \/ Execute \/ SendAnswer
  BY <1>5, <1>14 DEF Acquire, Interrupted, Execute, SendAnswer, TypeOK, Idle, rxVars, Answer
<1>15. CASE Finally
  <2>1. worker' = Idle /\ UNCHANGED <<queue, sent, rx>>
    BY <1>15 DEF Finally, rxVars
  <2>. QED BY <1>3, <2>1, SessionAssumption DEF Runs, Idle, Arrives
<1>16. CASE UNCHANGED vars
  BY <1>5, <1>16 DEF vars, rxVars, taskVars
<1>. QED BY <1>6, <1>7, <1>8, <1>9, <1>10, <1>11, <1>12, <1>13, <1>14, <1>15, <1>16
     DEF Next, SessionThread, Callback, Worker, Finished

(* What was logged stays logged, and a step logs only the command that the *)
(* worker takes.                                                           *)
LEMMA BegunSent ==
  ASSUME TypeOK, NEW t \in Tasks, NEW k, Send(t, k)
  PROVE  /\ \A u \in Tasks : Begun(u) => Begun(u)'
         /\ \A u \in Tasks : Begun(u)' => Begun(u) \/ (u = t /\ k = "log")
         /\ k = "log" /\ ~closed => Begun(t)'
<1>1. wire[t] \in Seq(Kinds) /\ (wire' = wire \/ wire' = [wire EXCEPT ![t] = Append(@, k)])
      /\ (~closed => wire' = [wire EXCEPT ![t] = Append(@, k)])
  BY DEF TypeOK, Send
<1>2. CASE wire' = wire /\ closed
  BY <1>2 DEF Begun
<1>3. CASE wire' = [wire EXCEPT ![t] = Append(@, k)]
  <2>1. \A u \in Tasks \ {t} : wire'[u] = wire[u]
    BY <1>3 DEF TypeOK
  <2>2. wire'[t] = Append(wire[t], k)
    BY <1>3 DEF TypeOK
  <2>3. /\ Len(wire[t]) \in Nat /\ DOMAIN wire[t] = 1 .. Len(wire[t])
        /\ DOMAIN wire'[t] = 1 .. (Len(wire[t]) + 1) /\ wire'[t][Len(wire[t]) + 1] = k
        /\ \A i \in 1 .. Len(wire[t]) : wire'[t][i] = wire[t][i]
    BY <1>1, <2>2
  <2>4. \A i \in DOMAIN wire[t] : i \in DOMAIN wire'[t] /\ wire'[t][i] = wire[t][i]
    BY <2>3
  <2>5. \A i \in DOMAIN wire'[t] : (i \in DOMAIN wire[t] /\ wire'[t][i] = wire[t][i]) \/ wire'[t][i] = k
    BY <2>3
  <2>6. ASSUME NEW u \in Tasks, Begun(u) PROVE Begun(u)'
    BY <2>1, <2>4, <2>6 DEF Begun
  <2>7. ASSUME NEW u \in Tasks, Begun(u)' PROVE Begun(u) \/ (u = t /\ k = "log")
    BY <2>1, <2>5, <2>7 DEF Begun
  <2>8. ASSUME k = "log" PROVE Begun(t)'
    BY <2>3, <2>8 DEF Begun
  <2>. QED BY <2>6, <2>7, <2>8
<1>. QED BY <1>1, <1>2, <1>3

LEMMA BegunStep ==
  TypeOK /\ Shut /\ OnePlace /\ BegunOnce /\ [Next]_vars =>
    BegunOnce' /\ \A t \in Tasks : Begun(t) => Begun(t)'
<1> SUFFICES ASSUME TypeOK, Shut, OnePlace, BegunOnce, [Next]_vars
             PROVE  BegunOnce' /\ \A t \in Tasks : Begun(t) => Begun(t)'
  OBVIOUS
<1>1. NoTask \notin Tasks
  BY SessionAssumption
<1>2. ASSUME UNCHANGED wire, sent \subseteq sent', closed => closed',
             \A t \in Tasks : Runs(t)' => Runs(t)
      PROVE  BegunOnce' /\ \A t \in Tasks : Begun(t) => Begun(t)'
  <2>1. \A t : Begun(t)' <=> Begun(t)
    BY <1>2 DEF Begun
  <2>. QED BY <1>2, <2>1 DEF BegunOnce, Shut
<1>3. ASSUME NEW t \in Tasks, NEW k, k # "log", Send(t, k), UNCHANGED closed, sent \subseteq sent',
             \A u \in Tasks : Runs(u)' => Runs(u)
      PROVE  BegunOnce' /\ \A u \in Tasks : Begun(u) => Begun(u)'
  <2>1. \A u \in Tasks : Begun(u)' <=> Begun(u)
    BY <1>3, BegunSent
  <2>. QED BY <1>3, <2>1 DEF BegunOnce
<1>4. CASE Open \/ StreamEnds \/ CancelActive \/ ClearActive \/ ShutdownExecutors \/ ShellLock
           \/ UNCHANGED vars
  BY <1>2, <1>4 DEF Open, StreamEnds, CancelActive, ClearActive, ShutdownExecutors, ShellLock, Runs, vars,
     rxVars, taskVars
<1>5. CASE Complete
  BY <1>2, <1>5 DEF Complete, Runs, rxVars, taskVars
<1>6. ASSUME NEW t \in Tasks, StartCommand(t)
      PROVE  BegunOnce' /\ \A u \in Tasks : Begun(u) => Begun(u)'
  <2>1. UNCHANGED <<closed, worker>> /\ sent \subseteq sent' /\ \A u \in Tasks : Runs(u)' => Runs(u)
    BY <1>6 DEF StartCommand, Runs
  <2>2. UNCHANGED wire \/ Send(t, "duplicate")
    BY <1>6 DEF StartCommand
  <2>. QED BY <1>2, <1>3, <2>1, <2>2
<1>7. CASE SendAccepted
  <2>1. rx.task \in Tasks /\ Send(rx.task, "accepted") /\ UNCHANGED <<closed, sent, worker>>
    BY <1>7 DEF SendAccepted, TypeOK, Idle
  <2>. QED BY <1>3, <2>1 DEF Runs
<1>8. CASE ExecuteTask \/ CancelFuture \/ Acquire \/ Interrupted \/ Execute
  <2>1. UNCHANGED <<wire, closed, sent>>
    BY <1>8 DEF ExecuteTask, CancelFuture, Acquire, Interrupted, Execute, rxVars
  <2>2. worker'.task = worker.task
    BY <1>8 DEF ExecuteTask, CancelFuture, Acquire, Interrupted, Execute, TypeOK, Idle
  <2>. QED BY <1>2, <2>1, <2>2 DEF Runs
<1>9. ASSUME NEW i \in Ids, CancelCommand(i)
      PROVE  BegunOnce' /\ \A u \in Tasks : Begun(u) => Begun(u)'
  BY <1>2, <1>9 DEF CancelCommand, Runs
<1>10. CASE Take
  <2>1. worker = Idle /\ queue # <<>> /\ UNCHANGED <<closed, sent>>
        /\ (UNCHANGED <<worker, wire>> \/ (worker'.task = Head(queue) /\ Send(Head(queue), "log")))
    <3>1. worker = Idle /\ queue # <<>> /\ closed' = closed /\ sent' = sent
      BY <1>10 DEF Take, rxVars
    <3>2. CASE Head(queue) \in cancelled
      <4>1. UNCHANGED <<worker, wire>>
        BY <1>10, <3>2, Zenon DEF Take
      <4>. QED BY <3>1, <4>1
    <3>3. CASE Head(queue) \notin cancelled
      <4>1. worker' = [at |-> "lock", task |-> Head(queue)] /\ Send(Head(queue), "log")
        BY <1>10, <3>3, Zenon DEF Take
      <4>2. worker'.task = Head(queue)
        BY <4>1
      <4>. QED BY <3>1, <4>1, <4>2, Zenon
    <3>. QED BY <3>2, <3>3
  <2>2. PICK h \in Tasks : h = Head(queue) /\ h \in sent
    <3>1. Head(queue) \in Tasks /\ Queued(Head(queue))
      BY <1>1, <1>10, QueueTaken DEF Take, TypeOK, OnePlace
    <3>. QED BY <3>1 DEF OnePlace
  <2>3. CASE UNCHANGED <<worker, wire>>
    BY <1>2, <2>1, <2>3 DEF Runs
  <2>4. CASE worker'.task = h /\ Send(h, "log")
    <3>1. /\ \A u \in Tasks : Begun(u) => Begun(u)'
          /\ \A u \in Tasks : Begun(u)' => Begun(u) \/ u = h
          /\ ~closed => Begun(h)'
      BY <2>2, <2>4, BegunSent
    <3>2. \A u \in Tasks : Runs(u)' => u = h
      BY <2>4 DEF Runs
    <3>3. \A u \in Tasks : Begun(u)' => u \in sent'
      BY <2>1, <2>2, <3>1 DEF BegunOnce
    <3>4. \A u \in Tasks : Runs(u)' /\ ~closed' => Begun(u)'
      BY <2>1, <3>1, <3>2
    <3>. QED BY <3>1, <3>3, <3>4 DEF BegunOnce
  <2>. QED BY <2>1, <2>2, <2>3, <2>4
<1>11. CASE SendAnswer
  <2>1. worker.task \in Tasks /\ Send(worker.task, worker.at) /\ worker.at # "log"
        /\ UNCHANGED <<closed, sent>> /\ worker'.task = worker.task
    BY <1>11 DEF SendAnswer, TypeOK, Idle, Answer, rxVars
  <2>. QED BY <1>3, <2>1 DEF Runs
<1>12. CASE Finally
  BY <1>1, <1>2, <1>12 DEF Finally, Runs, Idle, rxVars
<1>. QED BY <1>4, <1>5, <1>6, <1>7, <1>8, <1>9, <1>10, <1>11, <1>12
     DEF Next, SessionThread, Callback, Worker, Finished

LEMMA RegisteredStep == IInv /\ TypeOK' /\ BegunOnce' /\ OnePlace' /\ [Next]_vars => Registered'
<1> SUFFICES ASSUME IInv, TypeOK', BegunOnce', OnePlace', [Next]_vars PROVE Registered'
  OBVIOUS
<1>1. /\ TypeOK /\ Shut /\ OnePlace /\ BegunOnce
      /\ \A i \in Ids : active[i] # NoTask => active[i] \in Tasks /\ IdOf[active[i]] = i
      /\ rx.at = "cancel" => rx.task \in Tasks /\ active[IdOf[rx.task]] = NoTask
      /\ \A t \in Tasks : IdOf[t] \in Ids
      /\ NoTask \notin Tasks
  BY SessionAssumption DEF IInv, Registered, TypeOK, Ids, Idle
<1>2. session \in {"open", "await", "cancel"} =>
        \A t \in Tasks : Here(t) => active[IdOf[t]] = t \/ Caught(t) \/ Gone(t)
  BY DEF IInv, Registered
<1>3. ASSUME session' \in {"open", "await", "cancel"} PROVE session \in {"open", "await", "cancel"}
  BY <1>3 DEF Next, SessionThread, Open, StreamEnds, CancelActive, ClearActive, ShutdownExecutors, Complete,
     Callback, SendAccepted, ExecuteTask, CancelFuture, Worker, Take, Acquire, Interrupted, Execute,
     SendAnswer, Finally, StartCommand, CancelCommand, ShellLock, Finished, vars
<1>4. \A t \in Tasks : Begun(t) => Begun(t)'
  BY <1>1, BegunStep
(* An entry that was taken away does not come back: its successor is over. *)
<1>5. ASSUME cancelled \subseteq cancelled', \A t \in Tasks : Here(t)' => Here(t) \/ t \notin sent
      PROVE  \A t \in Tasks : Gone(t) => Gone(t)'
  BY <1>1, <1>4, <1>5 DEF Gone, TypeOK, BegunOnce
(* A step that registers nothing else and brings no task in.               *)
<1>6. ASSUME UNCHANGED active, rx'.at = "cancel" => rx' = rx,
             \A t \in Tasks : Here(t)' => Here(t),
             cancelled \subseteq cancelled',
             rx.at = "cancel" => rx' = rx \/ rx.task \in cancelled'
      PROVE  Registered'
  BY <1>1, <1>2, <1>3, <1>5, <1>6 DEF Registered, Caught
<1>7. CASE Open \/ StreamEnds \/ Complete \/ ShellLock \/ UNCHANGED vars
  <2>1. UNCHANGED <<rx, active, queue, worker, cancelled>>
    BY <1>7 DEF Open, StreamEnds, Complete, ShellLock, vars, rxVars, taskVars
  <2>. QED BY <1>6, <2>1 DEF Here, Queued, Arrives, Runs
<1>8. CASE CancelActive
  <2>1. UNCHANGED <<rx, active, queue, worker>> /\ cancelled \subseteq cancelled'
    BY <1>8 DEF CancelActive, CancelTasks, rxVars
  <2>. QED BY <1>6, <2>1 DEF Here, Queued, Arrives, Runs
<1>9. CASE ClearActive
  <2>1. session' = "shutdown" /\ rx' = rx /\ active' = [i \in Ids |-> NoTask]
    BY <1>9 DEF ClearActive, rxVars
  <2>. QED BY <1>1, <2>1 DEF Registered
<1>10. CASE ShutdownExecutors
  <2>1. session' = "complete" /\ UNCHANGED <<rx, active>>
    BY <1>10 DEF ShutdownExecutors, rxVars
  <2>. QED BY <1>1, <2>1 DEF Registered
<1>11. ASSUME NEW t \in Tasks, StartCommand(t)
       PROVE  Registered'
  <2>1. rx = Idle /\ t \notin sent /\ UNCHANGED <<queue, worker, cancelled>>
    BY <1>11 DEF StartCommand, Receiving
  <2>2. CASE ~Admits(t)
    <3>1. UNCHANGED <<rx, active>>
      BY <1>11, <2>2 DEF StartCommand
    <3>. QED BY <1>6, <2>1, <3>1 DEF Here, Queued, Arrives, Runs
  <2>3. CASE Admits(t)
    <3>1. /\ active[IdOf[t]] = NoTask /\ active' = [active EXCEPT ![IdOf[t]] = t]
          /\ rx' = [at |-> "accept", task |-> t]
      BY <1>11, <2>3 DEF StartCommand, Admits
    <3>2. active'[IdOf[t]] = t /\ \A i \in Ids \ {IdOf[t]} : active'[i] = active[i]
      BY <1>1, <3>1 DEF TypeOK
    <3>3. \A u \in Tasks : Here(u)' => Here(u) \/ u = t
      BY <2>1, <3>1 DEF Here, Queued, Arrives, Runs
    <3>4. \A u \in Tasks : Gone(u) => Gone(u)'
      BY <1>5, <2>1, <3>3
    <3>5. ASSUME NEW u \in Tasks, Here(u)', session' \in {"open", "await", "cancel"}
          PROVE  active'[IdOf[u]] = u \/ Caught(u)' \/ Gone(u)'
      <4>1. CASE u = t
        BY <3>2, <4>1
      <4>2. CASE u # t
        <5>1. active[IdOf[u]] = u \/ Caught(u) \/ Gone(u)
          BY <1>2, <1>3, <3>3, <3>5, <4>2
        <5>2. active[IdOf[u]] = u => IdOf[u] # IdOf[t]
          BY <1>1, <3>1
        <5>3. Caught(u) => Caught(u)'
          BY <2>1 DEF Caught, Idle
        <5>. QED BY <1>1, <3>2, <3>4, <5>1, <5>2, <5>3
      <4>. QED BY <4>1, <4>2
    <3>6. \A i \in Ids : active'[i] # NoTask => IdOf[active'[i]] = i
      BY <1>1, <3>2
    <3>. QED BY <3>1, <3>5, <3>6 DEF Registered
  <2>. QED BY <2>2, <2>3
<1>12. CASE SendAccepted
  <2>1. rx.at = "accept" /\ rx' = [rx EXCEPT !.at = "execute"] /\ UNCHANGED <<active, queue, worker, cancelled>>
    BY <1>12 DEF SendAccepted
  <2>2. rx'.at = "execute" /\ rx'.task = rx.task
    BY <1>1, <2>1 DEF TypeOK
  <2>. QED BY <1>6, <2>1, <2>2 DEF Here, Queued, Arrives, Runs
<1>13. CASE ExecuteTask
  <2>1. rx.at = "execute" /\ rx' = Idle /\ rx.task \in Tasks /\ UNCHANGED <<active, worker, cancelled>>
        /\ (queue' = queue \/ queue' = Append(queue, rx.task))
    BY <1>1, <1>13 DEF ExecuteTask, TypeOK, Idle
  <2>2. \A u : Queued(u)' => Queued(u) \/ u = rx.task
    <3>1. CASE queue' = queue
      BY <3>1 DEF Queued
    <3>2. CASE queue' = Append(queue, rx.task)
      BY <1>1, <2>1, <3>2, QueueAppended DEF TypeOK
    <3>. QED BY <2>1, <3>1, <3>2
  <2>3. \A u \in Tasks : Here(u)' => Here(u)
    BY <2>1, <2>2 DEF Here, Arrives, Runs, Idle
  <2>. QED BY <1>6, <2>1, <2>3 DEF Idle
<1>14. ASSUME NEW i \in Ids, CancelCommand(i)
       PROVE  Registered'
  <2>1. /\ rx = Idle /\ UNCHANGED <<queue, worker, cancelled>>
        /\ active' = [active EXCEPT ![i] = NoTask]
        /\ rx' = IF active[i] = NoTask THEN Idle ELSE [at |-> "cancel", task |-> active[i]]
    BY <1>14 DEF CancelCommand, Receiving
  <2>2. active'[i] = NoTask /\ \A j \in Ids \ {i} : active'[j] = active[j]
    BY <1>1, <2>1 DEF TypeOK
  <2>3. rx'.at = "cancel" => active[i] # NoTask /\ rx'.task = active[i]
    BY <2>1 DEF Idle
  <2>4. \A u \in Tasks : Here(u)' => Here(u)
    BY <2>1 DEF Here, Queued, Arrives, Runs, Idle
  <2>5. \A u \in Tasks : Gone(u) => Gone(u)'
    BY <1>5, <2>1, <2>4
  <2>6. ASSUME NEW u \in Tasks, Here(u)', session' \in {"open", "await", "cancel"}
        PROVE  active'[IdOf[u]] = u \/ Caught(u)' \/ Gone(u)'
    <3>1. active[IdOf[u]] = u \/ Caught(u) \/ Gone(u)
      BY <1>2, <1>3, <2>4, <2>6
    <3>2. CASE active[IdOf[u]] = u /\ IdOf[u] = i
      BY <1>1, <2>1, <3>2 DEF Caught
    <3>3. CASE active[IdOf[u]] = u /\ IdOf[u] # i
      BY <1>1, <2>2, <3>3
    <3>4. Caught(u) => Caught(u)'
      BY <2>1 DEF Caught, Idle
    <3>. QED BY <2>5, <3>1, <3>2, <3>3, <3>4
  <2>7. \A j \in Ids : active'[j] # NoTask => IdOf[active'[j]] = j
    BY <1>1, <2>2
  <2>8. rx'.at = "cancel" => active'[IdOf[rx'.task]] = NoTask
    BY <1>1, <2>2, <2>3
  <2>. QED BY <2>6, <2>7, <2>8 DEF Registered
<1>15. CASE CancelFuture
  <2>1. rx.at = "cancel" /\ rx' = Idle /\ cancelled' = cancelled \cup {rx.task}
        /\ UNCHANGED <<active, queue, worker>>
    BY <1>15 DEF CancelFuture, CancelTasks
  <2>. QED BY <1>6, <2>1 DEF Here, Queued, Arrives, Runs, Idle
<1>16. CASE Take
  <2>1. worker = Idle /\ queue # <<>> /\ queue' = Tail(queue) /\ UNCHANGED <<rx, active, cancelled>>
        /\ (worker' = worker \/ worker'.task = Head(queue))
    BY <1>16 DEF Take, rxVars
  <2>2. /\ Queued(Head(queue)) /\ \A u : Queued(u)' => Queued(u)
    BY <1>1, <2>1, QueueTaken DEF TypeOK, OnePlace
  <2>3. \A u \in Tasks : Here(u)' => Here(u)
    BY <2>1, <2>2 DEF Here, Arrives, Runs
  <2>. QED BY <1>6, <2>1, <2>3
<1>17. CASE Acquire \/ Interrupted \/ Execute \/ SendAnswer
  <2>1. UNCHANGED <<rx, active, queue, cancelled>> /\ worker'.task = worker.task
    BY <1>1, <1>17 DEF Acquire, Interrupted, Execute, SendAnswer, TypeOK, Idle, rxVars, Answer
  <2>. QED BY <1>6, <2>1 DEF Here, Queued, Arrives, Runs
<1>18. CASE Finally
  <2>1. PICK w \in Tasks :
        /\ w = worker.task
        /\ active' = [active EXCEPT ![IdOf[w]] = NoTask] /\ worker' = Idle
        /\ UNCHANGED <<session, closed, rx, queue, cancelled>>
    <3>1. worker.task \in Tasks
      BY <1>1, <1>18 DEF Finally, TypeOK, Idle
    <3>2. /\ active' = [active EXCEPT ![IdOf[worker.task]] = NoTask] /\ worker' = Idle
          /\ UNCHANGED <<session, closed, rx, queue, cancelled>>
      BY <1>18 DEF Finally, rxVars
    <3>. QED BY <3>1, <3>2, Zenon
  <2>2. active'[IdOf[w]] = NoTask /\ \A j \in Ids \ {IdOf[w]} : active'[j] = active[j]
    BY <1>1, <2>1 DEF TypeOK
  <2>3. Runs(w) /\ ~Here(w)' /\ \A u \in Tasks : Here(u)' => Here(u) /\ u # w
    <3>1. Runs(w) /\ ~Queued(w) /\ ~Arrives(w)
      BY <1>1, <2>1 DEF Runs, OnePlace
    <3>2. \A u \in Tasks : ~Runs(u)'
      BY <1>1, <2>1 DEF Runs, Idle
    <3>3. \A u \in Tasks : Here(u)' => Queued(u) \/ Arrives(u)
      BY <1>1, <2>1 DEF Here, Queued, Arrives, Runs, Idle
    <3>4. ~Here(w)'
      BY <3>1, <3>3
    <3>5. ASSUME NEW u \in Tasks, Here(u)' PROVE Here(u) /\ u # w
      BY <3>1, <3>3, <3>5 DEF Here
    <3>. QED BY <3>1, <3>4, <3>5
  <2>4. \A u \in Tasks : Gone(u) => Gone(u)'
    BY <1>5, <2>1, <2>3
  <2>5. ASSUME NEW u \in Tasks, Here(u)', session' \in {"open", "await", "cancel"}
        PROVE  active'[IdOf[u]] = u \/ Caught(u)' \/ Gone(u)'
    <3>1. active[IdOf[u]] = u \/ Caught(u) \/ Gone(u)
      BY <1>2, <1>3, <2>3, <2>5
    <3>2. active[IdOf[w]] = w \/ Caught(w) \/ Gone(w)
      BY <1>2, <1>3, <2>1, <2>3, <2>5 DEF Here
    <3>3. CASE active[IdOf[u]] = u /\ IdOf[u] = IdOf[w]
      <4>1. u # w /\ active[IdOf[w]] # NoTask /\ active[IdOf[w]] # w
        BY <1>1, <2>3, <2>5, <3>3
      <4>2. CASE Gone(w)
        BY <2>4, <3>3, <4>2 DEF Gone
      <4>3. CASE w \in cancelled
        <5>1. ~closed
          BY <1>1, <2>1, <2>5 DEF Shut
        <5>2. Begun(w)
          BY <1>1, <2>1, <2>3, <5>1 DEF BegunOnce
        <5>. QED BY <1>4, <2>1, <2>3, <3>3, <4>3, <5>2 DEF Gone
      <4>4. CASE rx.at = "cancel" /\ rx.task = w
        BY <1>1, <4>1, <4>4
      <4>. QED BY <3>2, <4>1, <4>2, <4>3, <4>4 DEF Caught
    <3>4. CASE active[IdOf[u]] = u /\ IdOf[u] # IdOf[w]
      BY <1>1, <2>2, <3>4
    <3>5. Caught(u) => Caught(u)'
      BY <2>1 DEF Caught
    <3>. QED BY <2>4, <3>1, <3>3, <3>4, <3>5
  <2>6. \A j \in Ids : active'[j] # NoTask => IdOf[active'[j]] = j
    BY <1>1, <2>2
  <2>7. rx'.at = "cancel" => active'[IdOf[rx'.task]] = NoTask
    BY <1>1, <2>1, <2>2
  <2>. QED BY <2>5, <2>6, <2>7 DEF Registered
<1>. QED BY <1>7, <1>8, <1>9, <1>10, <1>11, <1>12, <1>13, <1>14, <1>15, <1>16, <1>17, <1>18
     DEF Next, SessionThread, Callback, Worker, Finished

LEMMA StepIInv == IInv /\ [Next]_vars => IInv'
BY TypeStep, ShutStep, PlaceStep, BegunStep, RegisteredStep DEF IInv

(* The places, the registrations and the shutdown fit together, whatever   *)
(* frames come and however the threads of the session interleave.          *)
THEOREM Invariance == Spec => []IInv
BY InitIInv, StepIInv, PTL DEF Spec

LEMMA IInvImplies == IInv => Reachable /\ NoWorkLeft
<1>1. IInv => Reachable
  <2> SUFFICES ASSUME IInv, session \in {"await", "cancel"},
                      NEW t \in Tasks \ cancelled, Live(t), ~(rx.at = "cancel" /\ rx.task = t)
               PROVE  active[IdOf[t]] = t \/ Overtaken(t)
    BY DEF Reachable
  <2>1. \A u : Live(u) <=> Here(u)
    BY DEF Live, Here, Queued, Runs, Arrives
  <2>2. active[IdOf[t]] = t \/ Caught(t) \/ Gone(t)
    BY <2>1 DEF IInv, Registered
  <2>. QED BY <2>1, <2>2 DEF Caught, Gone, Overtaken
<1>2. IInv => NoWorkLeft
  BY DEF IInv, Shut, NoWorkLeft
<1>. QED BY <1>1, <1>2

(* A cancel frame and the shutdown reach every command the session has     *)
(* accepted and not answered, however often command IDs are sent again and *)
(* cancelled: it is registered under its ID, unless a cancelled command of *)
(* that ID has run to its end.                                             *)
THEOREM CancelReaches == Spec => []Reachable
BY Invariance, IInvImplies, PTL

(* A session that has ended leaves no command behind.                      *)
THEOREM SessionEmpties == Spec => []NoWorkLeft
BY Invariance, IInvImplies, PTL

-----------------------------------------------------------------------------
(* The frames of a command                                                 *)

(* Short sequences of frames, written out.                                 *)
LEMMA Single ==
  ASSUME NEW s \in Seq(Kinds), NEW a \in Kinds, Len(s) = 1, s[1] = a
  PROVE  s = <<a>>
<1>1. <<a>> \in Seq(Kinds) /\ Len(<<a>>) = 1 /\ <<a>>[1] = a
  OBVIOUS
<1>. DEFINE v == <<a>>
<1>2. v \in Seq(Kinds) /\ Len(v) = 1 /\ v[1] = a
  BY <1>1
<1>. HIDE DEF v
<1>3. \A i \in 1 .. Len(s) : s[i] = v[i]
  BY <1>2
<1>4. s = v
  BY <1>2, <1>3, SeqEqual
<1>. QED BY <1>4 DEF v

LEMMA Pair ==
  ASSUME NEW s \in Seq(Kinds), NEW a \in Kinds, NEW b \in Kinds, Len(s) = 2, s[1] = a, s[2] = b
  PROVE  s = <<a, b>>
<1>1. <<a, b>> \in Seq(Kinds) /\ Len(<<a, b>>) = 2 /\ <<a, b>>[1] = a /\ <<a, b>>[2] = b
  OBVIOUS
<1>. DEFINE v == <<a, b>>
<1>2. v \in Seq(Kinds) /\ Len(v) = 2 /\ v[1] = a /\ v[2] = b
  BY <1>1
<1>. HIDE DEF v
<1>3. \A i \in 1 .. Len(s) : s[i] = v[i]
  BY <1>2
<1>4. s = v
  BY <1>2, <1>3, SeqEqual
<1>. QED BY <1>4 DEF v

LEMMA Triple ==
  ASSUME NEW s \in Seq(Kinds), NEW a \in Kinds, NEW b \in Kinds, NEW c \in Kinds, Len(s) = 3, s[1] = a, s[2] = b, s[3] = c
  PROVE  s = <<a, b, c>>
<1>1. <<a, b, c>> \in Seq(Kinds) /\ Len(<<a, b, c>>) = 3 /\ <<a, b, c>>[1] = a /\ <<a, b, c>>[2] = b /\ <<a, b, c>>[3] = c
  OBVIOUS
<1>. DEFINE v == <<a, b, c>>
<1>2. v \in Seq(Kinds) /\ Len(v) = 3 /\ v[1] = a /\ v[2] = b /\ v[3] = c
  BY <1>1
<1>. HIDE DEF v
<1>3. \A i \in 1 .. Len(s) : s[i] = v[i]
  BY <1>2
<1>4. s = v
  BY <1>2, <1>3, SeqEqual
<1>. QED BY <1>4 DEF v

LEMMA AppendOne ==
  ASSUME NEW a \in Kinds
  PROVE Append(<<>>, a) = <<a>>
<1>1. <<>> \in Seq(Kinds) /\ Len(<<>>) = 0
  OBVIOUS
<1>2. Append(<<>>, a) \in Seq(Kinds) /\ Len(Append(<<>>, a)) = 1 /\ Append(<<>>, a)[1] = a
  BY <1>1, AppendProperties
<1>. QED BY <1>2, Single

LEMMA Extended ==
  ASSUME NEW s \in Seq(Kinds), NEW b \in Kinds
  PROVE  /\ Append(s, b) \in Seq(Kinds)
         /\ Len(Append(s, b)) = Len(s) + 1
         /\ \A i \in 1 .. Len(s) : Append(s, b)[i] = s[i]
         /\ Append(s, b)[Len(s) + 1] = b
BY AppendProperties

LEMMA AppendTwo ==
  ASSUME NEW a \in Kinds, NEW b \in Kinds
  PROVE Append(<<a>>, b) = <<a, b>>
<1>1. ASSUME NEW s \in Seq(Kinds), NEW q \in Seq(Kinds), Len(s) = 1, s[1] = a,
             Len(q) = Len(s) + 1, \A i \in 1 .. Len(s) : q[i] = s[i], q[Len(s) + 1] = b
      PROVE  q = <<a, b>>
  <2>1. Len(q) = 2 /\ q[1] = a /\ q[2] = b
    BY <1>1
  <2>. QED BY <2>1, Pair
<1>2. <<a>> \in Seq(Kinds) /\ Len(<<a>>) = 1 /\ <<a>>[1] = a
  OBVIOUS
<1>3. Append(<<a>>, b) \in Seq(Kinds) /\ Len(Append(<<a>>, b)) = Len(<<a>>) + 1
  BY <1>2, Extended
<1>4. /\ \A i \in 1 .. Len(<<a>>) : Append(<<a>>, b)[i] = <<a>>[i]
      /\ Append(<<a>>, b)[Len(<<a>>) + 1] = b
  BY <1>2, Extended
<1>. QED BY <1>1, <1>2, <1>3, <1>4

LEMMA AppendThree ==
  ASSUME NEW a \in Kinds, NEW b \in Kinds, NEW c \in Kinds
  PROVE Append(<<a, b>>, c) = <<a, b, c>>
<1>1. ASSUME NEW s \in Seq(Kinds), NEW q \in Seq(Kinds), Len(s) = 2, s[1] = a, s[2] = b,
             Len(q) = Len(s) + 1, \A i \in 1 .. Len(s) : q[i] = s[i], q[Len(s) + 1] = c
      PROVE  q = <<a, b, c>>
  <2>1. Len(q) = 3 /\ q[1] = a /\ q[2] = b /\ q[3] = c
    BY <1>1
  <2>. QED BY <2>1, Triple
<1>2. <<a, b>> \in Seq(Kinds) /\ Len(<<a, b>>) = 2 /\ <<a, b>>[1] = a /\ <<a, b>>[2] = b
  OBVIOUS
<1>3. Append(<<a, b>>, c) \in Seq(Kinds) /\ Len(Append(<<a, b>>, c)) = Len(<<a, b>>) + 1
  BY <1>2, Extended
<1>4. /\ \A i \in 1 .. Len(<<a, b>>) : Append(<<a, b>>, c)[i] = <<a, b>>[i]
      /\ Append(<<a, b>>, c)[Len(<<a, b>>) + 1] = c
  BY <1>2, Extended
<1>. QED BY <1>1, <1>2, <1>3, <1>4

LEMMA Prefixes ==
  ASSUME NEW a \in Kinds, NEW b \in Kinds, NEW c \in Kinds
  PROVE /\ SubSeq(<<a, b, c>>, 1, 0) = <<>>
        /\ SubSeq(<<a, b, c>>, 1, 1) = <<a>>
        /\ SubSeq(<<a, b, c>>, 1, 2) = <<a, b>>
        /\ SubSeq(<<a, b, c>>, 1, 3) = <<a, b, c>>
<1>1. <<a, b, c>> \in Seq(Kinds) /\ Len(<<a, b, c>>) = 3 /\ <<a, b, c>>[1] = a /\ <<a, b, c>>[2] = b /\ <<a, b, c>>[3] = c
  OBVIOUS
<1>. DEFINE v == <<a, b, c>>
<1>2. v \in Seq(Kinds) /\ Len(v) = 3 /\ v[1] = a /\ v[2] = b /\ v[3] = c
  BY <1>1
<1>. HIDE DEF v
<1>3. ASSUME NEW n \in 0 .. 3
      PROVE  SubSeq(v, 1, n) \in Seq(Kinds) /\ Len(SubSeq(v, 1, n)) = n /\ \A i \in 1 .. n : SubSeq(v, 1, n)[i] = v[i]
  <2>1. \A i \in 1 .. n : v[i] \in Kinds
    BY <1>2
  <2>. QED BY <1>2, <2>1, SubSeqProperties
<1>4. SubSeq(v, 1, 0) = <<>>
  BY <1>3, EmptySeq
<1>5. SubSeq(v, 1, 1) = <<a>>
  <2>1. SubSeq(v, 1, 1) \in Seq(Kinds) /\ Len(SubSeq(v, 1, 1)) = 1 /\ SubSeq(v, 1, 1)[1] = a
    BY <1>2, <1>3
  <2>. QED BY <2>1, Single
<1>6. SubSeq(v, 1, 2) = <<a, b>>
  <2>1. SubSeq(v, 1, 2) \in Seq(Kinds) /\ Len(SubSeq(v, 1, 2)) = 2 /\ SubSeq(v, 1, 2)[1] = a /\ SubSeq(v, 1, 2)[2] = b
    BY <1>2, <1>3
  <2>. QED BY <2>1, Pair
<1>7. SubSeq(v, 1, 3) = <<a, b, c>>
  <2>1. SubSeq(v, 1, 3) \in Seq(Kinds) /\ Len(SubSeq(v, 1, 3)) = 3
        /\ SubSeq(v, 1, 3)[1] = a /\ SubSeq(v, 1, 3)[2] = b /\ SubSeq(v, 1, 3)[3] = c
    BY <1>2, <1>3
  <2>. QED BY <2>1, Triple
<1>. QED BY <1>4, <1>5, <1>6, <1>7 DEF v

(* A frame is lost only when the request stream is completed, and then     *)
(* every later one is.                                                     *)
Told0(t) == wire[t] = <<>>
Told1(t) == wire[t] = <<"accepted">> \/ (closed /\ Told0(t))
Told2(t) == wire[t] = <<"accepted", "log">> \/ (closed /\ Told1(t))
Told3(t) == \E a \in Answer : wire[t] = <<"accepted", "log", a>>
Ordered(t) == wire[t] \in {<<>>, <<"duplicate">>, <<"accepted">>, <<"accepted", "log">>} \/ Told3(t)

Frames == \A t \in Tasks :
  /\ Ordered(t)
  /\ t \notin sent => Told0(t)
  /\ rx.at = "accept" /\ rx.task = t => Told0(t)
  /\ Queued(t) \/ (rx.at = "execute" /\ rx.task = t) => Told1(t)
  /\ Runs(t) /\ worker.at # "finally" => Told2(t)

LEMMA FramesStep == IInv /\ Frames /\ [Next]_vars => Frames'
<1> SUFFICES ASSUME IInv, Frames, [Next]_vars PROVE Frames'
  OBVIOUS
<1>1. TypeOK /\ OnePlace /\ NoTask \notin Tasks
  BY SessionAssumption DEF IInv
<1>2. ASSUME UNCHANGED wire, closed => closed',
             \A t \in Tasks :
               /\ t \notin sent' => t \notin sent
               /\ rx'.at = "accept" /\ rx'.task = t => Told0(t)
               /\ Queued(t)' \/ (rx'.at = "execute" /\ rx'.task = t) => Told1(t)
               /\ Runs(t)' /\ worker'.at # "finally" => Told2(t)
      PROVE  Frames'
  BY <1>2 DEF Frames, Ordered, Told0, Told1, Told2, Told3
<1>3. ASSUME UNCHANGED <<wire, rx, sent, worker, queue>>, closed => closed'
      PROVE  Frames'
  BY <1>2, <1>3 DEF Frames, Queued, Runs
<1>4. CASE Open \/ StreamEnds \/ CancelActive \/ ClearActive \/ Complete \/ ShellLock \/ UNCHANGED vars
  BY <1>3, <1>4 DEF Open, StreamEnds, CancelActive, ClearActive, Complete, ShellLock, vars, rxVars, taskVars
<1>5. CASE ShutdownExecutors
  <2>1. queue' = <<>> /\ UNCHANGED <<wire, rx, sent, worker, closed>>
    BY <1>5 DEF ShutdownExecutors, Halt, rxVars
  <2>. QED BY <1>2, <2>1 DEF Frames, Queued, Runs
<1>17. {"accepted", "log", "duplicate"} \subseteq Kinds /\ Answer \subseteq Kinds
  BY DEF Kinds
(* Only the frames of one task change.                                     *)
<1>6. ASSUME NEW t \in Tasks, NEW k \in Kinds, Send(t, k)
      PROVE  /\ \A u \in Tasks \ {t} : wire'[u] = wire[u]
             /\ closed => wire' = wire
             /\ ~closed => wire'[t] = Append(wire[t], k)
  BY <1>1, <1>6 DEF Send, TypeOK
<1>7. ASSUME NEW t \in Tasks, NEW k \in Kinds, Send(t, k), UNCHANGED closed,
             Ordered(t)',
             t \notin sent' => Told0(t)',
             rx'.at = "accept" /\ rx'.task = t => Told0(t)',
             Queued(t)' \/ (rx'.at = "execute" /\ rx'.task = t) => Told1(t)',
             Runs(t)' /\ worker'.at # "finally" => Told2(t)',
             \A u \in Tasks \ {t} :
               /\ u \notin sent' => u \notin sent
               /\ rx'.at = "accept" /\ rx'.task = u => Told0(u)
               /\ Queued(u)' \/ (rx'.at = "execute" /\ rx'.task = u) => Told1(u)
               /\ Runs(u)' /\ worker'.at # "finally" => Told2(u)
      PROVE  Frames'
  <2>1. \A u \in Tasks \ {t} : wire'[u] = wire[u]
    BY <1>6, <1>7
  <2>2. ASSUME NEW u \in Tasks \ {t}
        PROVE  /\ Ordered(u)' <=> Ordered(u)
               /\ Told0(u)' <=> Told0(u)
               /\ Told1(u)' <=> Told1(u)
               /\ Told2(u)' <=> Told2(u)
    BY <1>7, <2>1 DEF Ordered, Told0, Told1, Told2, Told3
  <2>3. ASSUME NEW u \in Tasks \ {t}
        PROVE  /\ Ordered(u)'
               /\ u \notin sent' => Told0(u)'
               /\ rx'.at = "accept" /\ rx'.task = u => Told0(u)'
               /\ Queued(u)' \/ (rx'.at = "execute" /\ rx'.task = u) => Told1(u)'
               /\ Runs(u)' /\ worker'.at # "finally" => Told2(u)'
    BY <1>7, <2>2 DEF Frames
  <2>. QED BY <1>7, <2>3 DEF Frames
<1>8. ASSUME NEW t \in Tasks, StartCommand(t)
      PROVE  Frames'
  <2>1. /\ rx = Idle /\ t \notin sent /\ sent' = sent \cup {t} /\ UNCHANGED <<queue, worker, closed>>
        /\ Told0(t) /\ ~Queued(t) /\ ~Runs(t)
    BY <1>1, <1>8 DEF StartCommand, Receiving, Frames, OnePlace
  <2>2. CASE Admits(t)
    <3>1. rx' = [at |-> "accept", task |-> t] /\ UNCHANGED wire
      BY <1>8, <2>2 DEF StartCommand
    <3>. QED BY <1>2, <2>1, <3>1 DEF Frames, Queued, Runs
  <2>3. CASE ~Admits(t)
    <3>1. Send(t, "duplicate") /\ rx' = rx
      BY <1>8, <2>3 DEF StartCommand
    <3>2. wire'[t] \in {<<>>, <<"duplicate">>}
      BY <1>6, <1>17, <2>1, <3>1, AppendOne DEF Told0
    <3>3. Ordered(t)'
      BY <3>2 DEF Ordered
    <3>4. ~Queued(t)' /\ ~Runs(t)' /\ t \in sent' /\ rx'.at = "idle"
      BY <2>1, <3>1 DEF Queued, Runs, Idle
    <3>5. \A u \in Tasks \ {t} : (Queued(u)' <=> Queued(u)) /\ (Runs(u)' <=> Runs(u))
      BY <2>1 DEF Queued, Runs
    <3>. QED BY <1>7, <1>17, <2>1, <3>1, <3>3, <3>4, <3>5 DEF Frames
  <2>. QED BY <2>2, <2>3
<1>9. CASE SendAccepted
  <2>0. PICK t \in Tasks : t = rx.task
    BY <1>1, <1>9 DEF SendAccepted, TypeOK, Idle
  <2>1. /\ rx.at = "accept" /\ Send(t, "accepted") /\ rx' = [rx EXCEPT !.at = "execute"]
        /\ UNCHANGED <<sent, queue, worker, closed>>
    BY <1>9, <2>0 DEF SendAccepted
  <2>2. Told0(t) /\ t \in sent /\ ~Runs(t) /\ ~Queued(t)
    BY <1>1, <2>0, <2>1 DEF Frames, OnePlace, Arrives
  <2>3. rx'.at = "execute" /\ rx'.task = t
    BY <1>1, <2>0, <2>1 DEF TypeOK
  <2>4. wire'[t] = <<"accepted">> \/ (closed' /\ wire'[t] = <<>>)
    BY <1>6, <1>17, <2>1, <2>2, AppendOne DEF Told0
  <2>5. Told1(t)' /\ Ordered(t)'
    BY <2>4 DEF Told0, Told1, Ordered
  <2>6. \A u \in Tasks \ {t} : (Queued(u)' <=> Queued(u)) /\ (Runs(u)' <=> Runs(u))
    BY <2>1 DEF Queued, Runs
  <2>7. ~Runs(t)'
    BY <2>1, <2>2 DEF Runs
  <2>. QED BY <1>7, <1>17, <2>1, <2>2, <2>3, <2>5, <2>6, <2>7 DEF Frames
<1>10. CASE ExecuteTask
  <2>1. rx.at = "execute" /\ rx' = Idle /\ rx.task \in Tasks /\ UNCHANGED <<wire, sent, worker, closed>>
        /\ (queue' = queue \/ queue' = Append(queue, rx.task))
    BY <1>1, <1>10 DEF ExecuteTask, TypeOK, Idle
  <2>2. \A u : Queued(u)' => Queued(u) \/ u = rx.task
    <3>1. CASE queue' = queue
      BY <3>1 DEF Queued
    <3>2. CASE queue' = Append(queue, rx.task)
      BY <1>1, <2>1, <3>2, QueueAppended DEF TypeOK
    <3>. QED BY <2>1, <3>1, <3>2
  <2>. QED BY <1>2, <2>1, <2>2 DEF Frames, Runs, Idle
<1>11. ASSUME NEW i \in Ids, CancelCommand(i)
       PROVE  Frames'
  <2>1. UNCHANGED <<wire, sent, worker, queue, closed>> /\ rx'.at \in {"idle", "cancel"}
    BY <1>11 DEF CancelCommand, Idle
  <2>. QED BY <1>2, <2>1 DEF Frames, Queued, Runs
<1>12. CASE CancelFuture
  <2>1. UNCHANGED <<wire, sent, worker, queue, closed>> /\ rx'.at = "idle"
    BY <1>12 DEF CancelFuture, Idle
  <2>. QED BY <1>2, <2>1 DEF Frames, Queued, Runs
<1>13. CASE Take
  <2>1. worker = Idle /\ queue # <<>> /\ queue' = Tail(queue) /\ UNCHANGED <<rx, sent, closed>>
    BY <1>13 DEF Take, rxVars
  <2>0. PICK t \in Tasks : t = Head(queue)
    BY <1>1, <2>1, QueueTaken DEF TypeOK, OnePlace
  <2>2. Queued(t) /\ \A u : Queued(u)' <=> Queued(u) /\ u # t
    BY <1>1, <2>0, <2>1, QueueTaken DEF TypeOK, OnePlace
  <2>3. t \in sent /\ ~Arrives(t) /\ Told1(t) /\ \A u \in Tasks : ~Runs(u)
    BY <1>1, <2>1, <2>2 DEF OnePlace, Frames, Runs, Idle
  <2>4. CASE t \in cancelled
    <3>1. UNCHANGED <<worker, wire>>
      BY <1>13, <2>0, <2>4 DEF Take
    <3>. QED BY <1>2, <2>1, <2>2, <2>3, <3>1 DEF Frames, Runs
  <2>5. CASE t \notin cancelled
    <3>1. worker' = [at |-> "lock", task |-> t] /\ Send(t, "log")
      BY <1>13, <2>0, <2>5 DEF Take
    <3>2. wire'[t] = <<"accepted", "log">> \/ (closed' /\ wire'[t] \in {<<>>, <<"accepted">>})
      <4>1. CASE closed
        BY <1>6, <1>17, <2>1, <2>3, <3>1, <4>1 DEF Told0, Told1
      <4>2. CASE ~closed
        <5>1. wire[t] = <<"accepted">> /\ wire'[t] = Append(wire[t], "log")
          BY <1>6, <1>17, <2>3, <3>1, <4>2 DEF Told1
        <5>. QED BY <1>17, <5>1, AppendTwo
      <4>. QED BY <4>1, <4>2
    <3>3. Ordered(t)' /\ Told2(t)'
      BY <3>2 DEF Told2, Told1, Told0, Ordered
    <3>4. ~Queued(t)' /\ t \in sent' /\ ~(rx'.task = t /\ rx'.at \in {"accept", "execute"})
          /\ \A u \in Tasks \ {t} : ~Runs(u)'
      BY <2>1, <2>2, <2>3, <3>1 DEF Arrives, Runs
    <3>. QED BY <1>7, <1>17, <2>1, <2>2, <3>1, <3>3, <3>4 DEF Frames
  <2>. QED BY <2>4, <2>5
<1>14. CASE Acquire \/ Interrupted \/ Execute
  <2>1. UNCHANGED <<wire, rx, sent, queue, closed>> /\ worker'.task = worker.task /\ worker.at # "finally"
    BY <1>1, <1>14 DEF Acquire, Interrupted, Execute, TypeOK, Idle, rxVars
  <2>. QED BY <1>2, <2>1 DEF Frames, Queued, Runs
<1>15. CASE SendAnswer
  <2>0. PICK t \in Tasks, a \in Answer : t = worker.task /\ a = worker.at
    BY <1>1, <1>15 DEF SendAnswer, TypeOK, Idle, Answer
  <2>1. /\ Send(t, a) /\ worker' = [worker EXCEPT !.at = "finally"] /\ UNCHANGED <<rx, sent, queue, closed>>
    BY <1>15, <2>0 DEF SendAnswer, rxVars
  <2>2. Told2(t) /\ t \in sent /\ ~Queued(t) /\ ~Arrives(t)
    BY <1>1, <2>0 DEF Frames, OnePlace, Runs, Answer
  <2>3. worker'.at = "finally" /\ worker'.task = t
    BY <1>1, <2>0, <2>1 DEF TypeOK, Idle, Answer
  <2>4. Ordered(t)'
    <3>1. CASE closed
      <4>1. wire' = wire
        BY <1>6, <1>17, <2>0, <2>1, <3>1
      <4>. QED BY <2>2, <4>1 DEF Told0, Told1, Told2, Ordered
    <3>2. CASE ~closed
      <4>1. wire[t] = <<"accepted", "log">> /\ wire'[t] = Append(wire[t], a)
        BY <1>6, <1>17, <2>0, <2>1, <2>2, <3>2 DEF Told2
      <4>2. wire'[t] = <<"accepted", "log", a>>
        BY <1>17, <2>0, <4>1, AppendThree
      <4>. QED BY <2>0, <4>2 DEF Ordered, Told3
    <3>. QED BY <3>1, <3>2
  <2>5. ~Queued(t)' /\ ~(rx'.task = t /\ rx'.at \in {"accept", "execute"}) /\ t \in sent'
    BY <2>1, <2>2 DEF Queued, Arrives
  <2>6. \A u \in Tasks \ {t} : ~Runs(u)' /\ (Queued(u)' <=> Queued(u))
    BY <2>1, <2>3 DEF Runs, Queued
  <2>. QED BY <1>7, <1>17, <2>0, <2>1, <2>3, <2>4, <2>5, <2>6 DEF Frames
<1>16. CASE Finally
  <2>1. worker' = Idle /\ UNCHANGED <<wire, queue, sent, rx, closed>>
    BY <1>16 DEF Finally, rxVars
  <2>. QED BY <1>1, <1>2, <2>1 DEF Frames, Queued, Runs, Idle
<1>. QED BY <1>4, <1>5, <1>8, <1>9, <1>10, <1>11, <1>12, <1>13, <1>14, <1>15, <1>16
     DEF Next, SessionThread, Callback, Worker, Finished

(* What the controller sees of a command is a prefix of accepted, log and  *)
(* one answer, or the one error frame of a duplicate.                      *)
THEOREM FramesOrdered == Spec => []FramesInOrder
<1>1. Init => Frames
  <2> SUFFICES ASSUME Init PROVE Frames
    OBVIOUS
  <2>1. \A t \in Tasks : Told0(t)
    BY DEF Init, Told0
  <2>2. \A t \in Tasks : ~Queued(t) /\ ~Runs(t)
    BY SessionAssumption DEF Init, Queued, Runs, Idle
  <2>. QED BY <2>1, <2>2 DEF Init, Frames, Told0, Ordered, Idle
<1>3. {"accepted", "log"} \subseteq Kinds /\ Answer \subseteq Kinds
  BY DEF Kinds
<1>2. Frames => FramesInOrder
  <2> SUFFICES ASSUME Frames, NEW t \in Tasks
               PROVE  \/ wire[t] = <<"duplicate">>
                      \/ \E a \in Answer : \E n \in 0..3 : wire[t] = SubSeq(<<"accepted", "log", a>>, 1, n)
    BY DEF FramesInOrder
  <2>1. "result" \in Answer
    BY DEF Answer
  <2>2. ASSUME NEW a \in Kinds
        PROVE  /\ SubSeq(<<"accepted", "log", a>>, 1, 0) = <<>>
               /\ SubSeq(<<"accepted", "log", a>>, 1, 1) = <<"accepted">>
               /\ SubSeq(<<"accepted", "log", a>>, 1, 2) = <<"accepted", "log">>
               /\ SubSeq(<<"accepted", "log", a>>, 1, 3) = <<"accepted", "log", a>>
    BY <1>3, <2>2, Prefixes
  <2>3. ASSUME NEW a \in Answer, NEW n \in 0 .. 3, wire[t] = SubSeq(<<"accepted", "log", a>>, 1, n)
        PROVE  \E b \in Answer : \E m \in 0..3 : wire[t] = SubSeq(<<"accepted", "log", b>>, 1, m)
    BY <2>3
  <2>4. CASE Told3(t)
    <3>1. PICK a \in Answer : wire[t] = <<"accepted", "log", a>>
      BY <2>4 DEF Told3
    <3>. QED BY <1>3, <2>2, <2>3, <3>1
  <2>5. CASE wire[t] \in {<<>>, <<"accepted">>, <<"accepted", "log">>}
    <3>1. "result" \in Kinds /\ 0 \in 0 .. 3 /\ 1 \in 0 .. 3 /\ 2 \in 0 .. 3
      BY <1>3, <2>1
    <3>2. CASE wire[t] = <<>>
      BY <2>1, <2>2, <2>3, <3>1, <3>2
    <3>3. CASE wire[t] = <<"accepted">>
      BY <2>1, <2>2, <2>3, <3>1, <3>3
    <3>4. CASE wire[t] = <<"accepted", "log">>
      BY <2>1, <2>2, <2>3, <3>1, <3>4
    <3>. QED BY <2>5, <3>2, <3>3, <3>4
  <2>. QED BY <2>4, <2>5 DEF Frames, Ordered
<1>. QED BY <1>1, <1>2, FramesStep, Invariance, PTL DEF Spec

-----------------------------------------------------------------------------
(* The parts of the instance                                               *)

(* The theorems about the service and the screens, for this instance.      *)
A ==
  INSTANCE AgentProofs
  WITH MaxStarts <- 3, worker <- stages,
       Networks <- {"n1", "n2"}, command <- v1, stages <- v2, network <- v3, shown <- v4,
       report <- v5,
       MaxBlocks <- 3, MaxChars <- 4, Sizes <- {1, 3, 9}, MaxActions <- 4, MaxScreens <- 3,
       screen <- v1, screens <- v2, retained <- v3, thread <- v4, result <- v5,
       listener <- v6, posted <- v7, started <- v8, delivered <- v9, blocks <- v10,
       disk <- v11, writes <- v12,
       MaxLines <- 6, FileLines <- 5, KeepLines <- 3, TailLines <- 2, DisplayLines <- 4,
       logged <- v1, direct <- v2, file <- v3, listening <- v4, looper <- v5, phase <- v6,
       generation <- v7, lastLogLine <- v8, view <- v9

(* The theorems about Wi-Fi commands, for this instance.                   *)
W ==
  INSTANCE WifiCommandsProofs
  WITH Aps <- <<Ap("a", "5", {"PSK"}), Ap("b", "5", {"SAE"}), Ap("c", "2", {"PSK"})>>,
       Ssid <- "s", MaxPolls <- 1, MaxCount <- 2,
       Commands <- {Cmd("connect", "5", "wpa3", TRUE, FALSE)}
                     \cup {Cmd("cycle", "5", "auto", TRUE, TRUE)}
                     \cup {Cmd(k, "blank", "auto", FALSE, FALSE) :
                             k \in {"wait", "assert", "disconnect", "forget", "reconnect"}},
       saved <- v1, link <- v2, auto <- v3, cmd <- v4, pc <- v5, scan <- v6, pin <- v7,
       clean <- v8, polls <- v9, step <- v10, good <- v11, stepOk <- v12, dirty <- v13,
       interrupt <- v14, result <- v15, listed <- v16

(* The same module with the same values is the same: Service, Link, Shell, *)
(* Log and Wifi of MCDevice are those of AgentProofs and                   *)
(* WifiCommandsProofs.                                                     *)
LEMMA LinkAsProved ==
  /\ Link!Init => A!Link!Init
  /\ Link!Next => A!Link!Next
  /\ A!Link!LinkPassEarned => Link!LinkPassEarned
BY Zenon DEF Link!Commands, Link!Failure, Link!Finish, Link!Init, Link!Lab, Link!LinkPassEarned,
             Link!Next, Link!NoNetwork, Link!NoReport, Link!ProbeOutcome, Link!Quality,
             Link!Reads, Link!Refusal, Link!Refuse, Link!SnapshotOutcome, Link!Stage,
             Link!StageNames, A!Link!Commands, A!Link!Failure, A!Link!Finish, A!Link!Init,
             A!Link!Lab, A!Link!LinkPassEarned, A!Link!Next, A!Link!NoNetwork, A!Link!NoReport,
             A!Link!ProbeOutcome, A!Link!Quality, A!Link!Reads, A!Link!Refusal, A!Link!Refuse,
             A!Link!SnapshotOutcome, A!Link!Stage, A!Link!StageNames

LEMMA ShellAsProved ==
  /\ Shell!Init => A!Shell!Init
  /\ Shell!Next => A!Shell!Next
  /\ A!Shell!ResultReachesScreen => Shell!ResultReachesScreen
BY Zenon DEF Shell!AppendShellBlock, Shell!Appends, Shell!Attach, Shell!Block, Shell!Busy,
             Shell!Cancel, Shell!Chars, Shell!Complete, Shell!Deliver, Shell!Evicted,
             Shell!Files, Shell!Fits, Shell!FoldFunction, Shell!FoldFunctionOnSet,
             Shell!FoldSeq, Shell!Init, Shell!LocalCommand, Shell!MapThenFoldSet, Shell!Min,
             Shell!Next, Shell!NoFile, Shell!None, Shell!OnCreateFresh, Shell!OnCreateRetained,
             Shell!OnDestroyChanging, Shell!OnDestroyFinishing, Shell!ResultReachesScreen,
             Shell!Start, Shell!WithoutFiles, Shell!history, Shell!owner,
             A!Shell!AppendShellBlock, A!Shell!Appends, A!Shell!Attach, A!Shell!Block,
             A!Shell!Busy, A!Shell!Cancel, A!Shell!Chars, A!Shell!Complete, A!Shell!Deliver,
             A!Shell!Evicted, A!Shell!Files, A!Shell!Fits, A!Shell!FoldFunction,
             A!Shell!FoldFunctionOnSet, A!Shell!FoldSeq, A!Shell!Init, A!Shell!LocalCommand,
             A!Shell!MapThenFoldSet, A!Shell!Min, A!Shell!Next, A!Shell!NoFile, A!Shell!None,
             A!Shell!OnCreateFresh, A!Shell!OnCreateRetained, A!Shell!OnDestroyChanging,
             A!Shell!OnDestroyFinishing, A!Shell!ResultReachesScreen, A!Shell!Start,
             A!Shell!WithoutFiles, A!Shell!history, A!Shell!owner

LEMMA LogAsProved ==
  /\ Log!Init => A!Log!Init
  /\ Log!Next => A!Log!Next
  /\ A!Log!NoSilentGap => Log!NoSilentGap
BY Zenon DEF Log!AppendLogLines, Log!Appended, Log!CompactIfNeeded, Log!Idle, Log!Init,
             Log!LogInBackground, Log!LogOnMain, Log!Max, Log!Next, Log!NoSilentGap, Log!Null,
             Log!Omitted, Log!OnCreate, Log!OnDestroy, Log!OnStart, Log!OnStop, Log!RunPosted,
             Log!SelectLastInSeq, Log!Shown, Log!TailOf, Log!TakeLast, Log!TerminalCatchUp,
             Log!TrimDisplay, A!Log!AppendLogLines, A!Log!Appended, A!Log!CompactIfNeeded,
             A!Log!Idle, A!Log!Init, A!Log!LogInBackground, A!Log!LogOnMain, A!Log!Max,
             A!Log!Next, A!Log!NoSilentGap, A!Log!Null, A!Log!Omitted, A!Log!OnCreate,
             A!Log!OnDestroy, A!Log!OnStart, A!Log!OnStop, A!Log!RunPosted,
             A!Log!SelectLastInSeq, A!Log!Shown, A!Log!TailOf, A!Log!TakeLast,
             A!Log!TerminalCatchUp, A!Log!TrimDisplay

LEMMA WifiAsProved ==
  /\ Wifi!Init => W!Init
  /\ Wifi!Next => W!Next
  /\ W!PinHolds => Wifi!PinHolds
  /\ W!CycleCleansUp => Wifi!CycleCleansUp
BY Zenon DEF Wifi!AddNetwork, Wifi!Admits, Wifi!Associate, Wifi!Blank, Wifi!Cleanup,
             Wifi!CleanupConflicting, Wifi!Configuration, Wifi!Conflicting,
             Wifi!Connect, Wifi!CycleCleansUp, Wifi!Disconnect, Wifi!Disconnects,
             Wifi!Drop, Wifi!EnableNetwork, Wifi!End, Wifi!Evaluate, Wifi!Execute,
             Wifi!FirstOr, Wifi!Forget, Wifi!Forgets, Wifi!Framework, Wifi!GetAddress,
             Wifi!InBand, Wifi!Init, Wifi!Interrupt, Wifi!Join, Wifi!Min, Wifi!Next,
             Wifi!NextStep, Wifi!NoAp, Wifi!NoCommand, Wifi!NoLink, Wifi!PinHolds,
             Wifi!Poll, Wifi!Probe, Wifi!Reconnect, Wifi!RemoveNetworks,
             Wifi!RemoveSome, Wifi!ResolveConnectBssid, Wifi!ResolveConnectSecurity,
             Wifi!Satisfies, Wifi!SecurityTypes, Wifi!SelectInSeq, Wifi!SetupFails,
             Wifi!Sleep, Wifi!Supports, Wifi!ToSet, Wifi!Worker, Wifi!cycle,
             Wifi!staged, Wifi!world, W!AddNetwork, W!Admits, W!Associate, W!Blank,
             W!Cleanup, W!CleanupConflicting, W!Configuration, W!Conflicting, W!Connect,
             W!CycleCleansUp, W!Disconnect, W!Disconnects, W!Drop, W!EnableNetwork,
             W!End, W!Evaluate, W!Execute, W!FirstOr, W!Forget, W!Forgets, W!Framework,
             W!GetAddress, W!InBand, W!Init, W!Interrupt, W!Join, W!Min, W!Next,
             W!NextStep, W!NoAp, W!NoCommand, W!NoLink, W!PinHolds, W!Poll, W!Probe,
             W!Reconnect, W!RemoveNetworks, W!RemoveSome, W!ResolveConnectBssid,
             W!ResolveConnectSecurity, W!Satisfies, W!SecurityTypes, W!SelectInSeq,
             W!SetupFails, W!Sleep, W!Supports, W!ToSet, W!Worker, W!cycle, W!staged,
             W!world

LEMMA ServiceAsProved ==
  /\ Service!Init => A!Init
  /\ Service!Next => A!Next
BY Zenon DEF Service!AfterGrpcSessionFinished, Service!Canceled, Service!Deliver,
             Service!EnsureWifiEvents, Service!Idle, Service!Ids, Service!Init, Service!Kinds,
             Service!Main, Service!Move, Service!Next, Service!OnDestroy, Service!OnWorker,
             Service!Pending, Service!Request, Service!SessionEnds, Service!StartGrpcSession,
             Service!StopForeground, Service!StopSelf, Service!StopWifiEvents,
             Service!WidgetsChange, Service!Worker, Service!WorkerStart, Service!WorkerStopSelf,
             Service!vars, A!AfterGrpcSessionFinished, A!Canceled, A!Deliver,
             A!EnsureWifiEvents, A!Idle, A!Ids, A!Init, A!Kinds, A!Main, A!Move, A!Next,
             A!OnDestroy, A!OnWorker, A!Pending, A!Request, A!SessionEnds, A!StartGrpcSession,
             A!StopForeground, A!StopSelf, A!StopWifiEvents, A!WidgetsChange, A!Worker,
             A!WorkerStart, A!WorkerStopSelf, A!vars

-----------------------------------------------------------------------------
(* The properties of the instance                                          *)

(* A behaviour is of one part for ever.                                    *)
Of(p) == part = p

(* The session of the instance reaches its commands and leaves none.       *)
THEOREM DeviceSessionHolds == DeviceSpec => [](Reachable /\ NoWorkLeft)
<1>1. DeviceInit => Init
  BY DEF DeviceInit
<1>2. [DeviceNext]_allVars => [Next]_vars
  <2>1. DeviceNext => Next \/ UNCHANGED vars
    BY Zenon DEF DeviceNext
  <2>2. UNCHANGED allVars => UNCHANGED vars
    BY Zenon DEF allVars
  <2>. QED BY <2>1, <2>2
<1>. QED BY <1>1, <1>2, InitIInv, StepIInv, IInvImplies, PTL DEF DeviceSpec

(* Lines missing on the screen of the instance leave a mark.               *)
THEOREM DeviceTellsGaps == DeviceSpec => []NoSilentGap
<1>1. DeviceInit /\ Of("log") => A!Log!Init
  BY LogAsProved DEF DeviceInit, Of
<1>2. Of("log") /\ [DeviceNext]_allVars => Of("log")' /\ [A!Log!Next]_(A!Log!vars)
  <2>1. Of("log") /\ DeviceNext => Of("log")' /\ A!Log!Next
    BY LogAsProved DEF DeviceNext, PartNext, Of
  <2>2. UNCHANGED allVars => UNCHANGED part /\ UNCHANGED A!Log!vars
    BY DEF allVars, slots, A!Log!vars
  <2>. QED BY <2>1, <2>2 DEF Of
<1>3. ~Of("log") /\ [DeviceNext]_allVars => ~Of("log")'
  BY DEF DeviceNext, allVars, Of
<1>4. (A!Log!NoSilentGap => NoSilentGap) /\ (~Of("log") => NoSilentGap)
  BY LogAsProved DEF NoSilentGap, Of
<1>5. A!LogAssumption
  BY DEF A!LogAssumption
<1>. QED BY <1>1, <1>2, <1>3, <1>4, <1>5, A!GapsAreTold, PTL DEF DeviceSpec, A!Log!Spec

(* No result of a shell action of the instance is lost.                    *)
THEOREM DeviceDeliversResults == DeviceSpec => []ResultReachesScreen
<1>1. DeviceInit /\ Of("shell") => A!Shell!Init
  BY ShellAsProved DEF DeviceInit, Of
<1>2. Of("shell") /\ [DeviceNext]_allVars => Of("shell")' /\ [A!Shell!Next]_(A!Shell!vars)
  <2>1. Of("shell") /\ DeviceNext => Of("shell")' /\ A!Shell!Next
    BY ShellAsProved DEF DeviceNext, PartNext, Of
  <2>2. UNCHANGED allVars => UNCHANGED part /\ UNCHANGED A!Shell!vars
    BY DEF allVars, slots, A!Shell!vars, A!Shell!owner, A!Shell!history
  <2>. QED BY <2>1, <2>2 DEF Of
<1>3. ~Of("shell") /\ [DeviceNext]_allVars => ~Of("shell")'
  BY DEF DeviceNext, allVars, Of
<1>4. (A!Shell!ResultReachesScreen => ResultReachesScreen) /\ (~Of("shell") => ResultReachesScreen)
  BY ShellAsProved DEF ResultReachesScreen, Of
<1>5. A!ShellAssumption
  BY DEF A!ShellAssumption
<1>. QED BY <1>1, <1>2, <1>3, <1>4, <1>5, A!ResultsReachScreen, PTL DEF DeviceSpec, A!Shell!Spec

(* A link check of the instance that passes saw every stage pass on one    *)
(* network.                                                                *)
THEOREM DeviceEarnsLinkPass == DeviceSpec => []LinkPassEarned
<1>1. DeviceInit /\ Of("link") => A!Link!Init
  BY LinkAsProved DEF DeviceInit, Of
<1>2. Of("link") /\ [DeviceNext]_allVars => Of("link")' /\ [A!Link!Next]_(A!Link!vars)
  <2>1. Of("link") /\ DeviceNext => Of("link")' /\ A!Link!Next
    BY LinkAsProved DEF DeviceNext, PartNext, Of
  <2>2. UNCHANGED allVars => UNCHANGED part /\ UNCHANGED A!Link!vars
    BY DEF allVars, slots, A!Link!vars
  <2>. QED BY <2>1, <2>2 DEF Of
<1>3. ~Of("link") /\ [DeviceNext]_allVars => ~Of("link")'
  BY DEF DeviceNext, allVars, Of
<1>4. (A!Link!LinkPassEarned => LinkPassEarned) /\ (~Of("link") => LinkPassEarned)
  BY LinkAsProved DEF LinkPassEarned, Of
<1>. QED BY <1>1, <1>2, <1>3, <1>4, A!LinkPasses, PTL DEF DeviceSpec, A!Link!Spec

(* A pinned connect of the instance is served by no other access point.    *)
THEOREM DeviceKeepsPin == DeviceSpec => []PinHolds
<1>1. DeviceInit /\ Of("wifi") => W!Init
  BY WifiAsProved DEF DeviceInit, Of
<1>2. Of("wifi") /\ [DeviceNext]_allVars => Of("wifi")' /\ [W!Next]_(W!vars)
  <2>1. Of("wifi") /\ DeviceNext => Of("wifi")' /\ W!Next
    BY WifiAsProved DEF DeviceNext, PartNext, Of
  <2>2. UNCHANGED allVars => UNCHANGED part /\ UNCHANGED W!vars
    BY DEF allVars, slots, W!vars, W!world, W!cycle, W!staged
  <2>. QED BY <2>1, <2>2 DEF Of
<1>3. ~Of("wifi") /\ [DeviceNext]_allVars => ~Of("wifi")'
  BY DEF DeviceNext, allVars, Of
<1>4. (W!PinHolds => PinHolds) /\ (~Of("wifi") => PinHolds)
  BY WifiAsProved DEF PinHolds, Of
<1>5. W!WifiAssumption
  BY DEF W!WifiAssumption, W!Kinds, Cmd
<1>. QED BY <1>1, <1>2, <1>3, <1>4, <1>5, W!PinIsKept, PTL DEF DeviceSpec, W!Spec

(* A cycle of the instance leaves no step without cleanup.                 *)
THEOREM DeviceCleansUp == DeviceSpec => []CycleCleansUp
<1>1. DeviceInit /\ Of("wifi") => W!Init
  BY WifiAsProved DEF DeviceInit, Of
<1>2. Of("wifi") /\ [DeviceNext]_allVars => Of("wifi")' /\ [W!Next]_(W!vars)
  <2>1. Of("wifi") /\ DeviceNext => Of("wifi")' /\ W!Next
    BY WifiAsProved DEF DeviceNext, PartNext, Of
  <2>2. UNCHANGED allVars => UNCHANGED part /\ UNCHANGED W!vars
    BY DEF allVars, slots, W!vars, W!world, W!cycle, W!staged
  <2>. QED BY <2>1, <2>2 DEF Of
<1>3. ~Of("wifi") /\ [DeviceNext]_allVars => ~Of("wifi")'
  BY DEF DeviceNext, allVars, Of
<1>4. (W!CycleCleansUp => CycleCleansUp) /\ (~Of("wifi") => CycleCleansUp)
  BY WifiAsProved DEF CycleCleansUp, Of
<1>5. W!WifiAssumption
  BY DEF W!WifiAssumption, W!Kinds, Cmd
<1>. QED BY <1>1, <1>2, <1>3, <1>4, <1>5, W!CyclesCleanUp, PTL DEF DeviceSpec, W!Spec

(* A cleanup of the instance that stops the service takes no newer start   *)
(* down with it.                                                           *)
THEOREM DeviceSparesNewer == DeviceSpec => CleanupSparesNewer
<1>1. DeviceInit => A!Init
  BY ServiceAsProved DEF DeviceInit
<1>2. [DeviceNext]_allVars => [A!Next]_(A!vars)
  BY ServiceAsProved DEF DeviceNext, PartNext, allVars, serviceVars, A!vars
<1>3. A!CleanupSparesNewer => CleanupSparesNewer
  BY Zenon DEF A!CleanupSparesNewer, CleanupSparesNewer, Service!CleanupSparesNewer, A!Ids, Service!Ids,
               A!Idle, Service!Idle, A!vars, Service!vars
<1>4. 3 \in Nat
  OBVIOUS
<1>. QED BY <1>1, <1>2, <1>3, <1>4, A!SparesNewer, PTL DEF DeviceSpec, A!Spec
==============================================================================

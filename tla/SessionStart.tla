---------------------------- MODULE SessionStart -----------------------------
(***************************************************************************)
(* How the controller starts a control session: session.Start, which tries *)
(* startOnce on a new local port as long as adb reports a port collision,  *)
(* Session.Close, and Server.WaitAgents, woken through Server.ready by     *)
(* the agents that register.  One goroutine runs Start, WaitAgents and     *)
(* Close; every agent registers, announces itself and disconnects by its   *)
(* own.  The port of an attempt stands for the attempt.                    *)
(***************************************************************************)
EXTENDS Integers, Sequences, FiniteSets

CONSTANTS
  Targets,      (* the selected adb devices, a sequence of serials         *)
  MaxAttempts,  (* adbReversePortCollisionAttempts, 1 for a fixed port     *)
  ReadyCap,     (* capacity of Server.ready (32 in the code)               *)
  MaxJoins      (* bound on the registrations of agents in a behaviour     *)

VARIABLES
  step,         (* where the goroutine stands                              *)
  attempt,      (* the number of the attempt, and its port                 *)
  started,      (* the targets of this attempt whose agent is launched     *)
  reversed,     (* Session.reversed                                        *)
  err,          (* the error startOnce returns with                        *)
  serving,      (* the gRPC server of the attempt serves                   *)
  rules,        (* the reverse rules on the devices: <<serial, port>>      *)
  leaked,       (* the rules adb made or kept while it reported an error   *)
  infos,        (* Server.infos                                            *)
  announcing,   (* agents registered whose send on ready is yet to come    *)
  ready,        (* Server.ready                                            *)
  joins         (* registrations so far                                    *)

net  == <<infos, announcing, ready, joins>>
vars == <<step, attempt, started, reversed, err, serving, rules, leaked, net>>

Serials == {Targets[i] : i \in 1..Len(Targets)}
Rule(t) == <<t, attempt>>

Init ==
  /\ step = "listen" /\ attempt = 1 /\ started = 0 /\ reversed = {}
  /\ err = "none" /\ serving = FALSE /\ rules = {} /\ leaked = {}
  /\ infos = {} /\ announcing = {} /\ ready = <<>> /\ joins = 0

(* net.Listen gives the attempt its port and the server begins to serve.   *)
Listen ==
  /\ step = "listen"
  /\ \/ step' = "reverse" /\ serving' = TRUE /\ err' = "none"
     \/ step' = "failed" /\ serving' = FALSE /\ err' = "other"
  /\ started' = 0 /\ reversed' = {}
  /\ UNCHANGED <<attempt, rules, leaked, net>>

(* An adb command fails: with the message of a taken port or another one.  *)
Fail == /\ step' = "stop"
        /\ err' \in {"collision", "other"}

(* adb reverse for the next target.  A command killed by its timeout may   *)
(* have made the rule; Start learns only of the error.                     *)
Reverse ==
  LET t == Targets[started + 1] IN
  /\ step = "reverse"
  /\ started < Len(Targets)
  /\ \/ /\ step' = "launch" /\ rules' = rules \cup {Rule(t)}
        /\ reversed' = reversed \cup {t} /\ UNCHANGED <<err, leaked>>
     \/ Fail /\ UNCHANGED <<reversed, rules, leaked>>
     \/ /\ Fail /\ rules' = rules \cup {Rule(t)} /\ leaked' = leaked \cup {Rule(t)}
        /\ UNCHANGED reversed
  /\ UNCHANGED <<attempt, started, serving, net>>

(* am start-foreground-service on the target the rule was made for.        *)
StartAgentSession ==
  /\ step = "launch"
  /\ \/ step' = "reverse" /\ started' = started + 1 /\ UNCHANGED err
     \/ Fail /\ UNCHANGED started
  /\ UNCHANGED <<attempt, reversed, serving, rules, leaked, net>>

(* WaitAgents under the lock: enough agents, or wait for the next one once *)
(* the lock is released.                                                   *)
WaitCheck ==
  /\ \/ step = "reverse" /\ started = Len(Targets)
     \/ step = "check"
  /\ step' = IF Cardinality(infos) >= Len(Targets) THEN "running" ELSE "unlocked"
  /\ UNCHANGED <<attempt, started, reversed, err, serving, rules, leaked, net>>

WaitSelect ==
  /\ step = "unlocked"
  /\ step' = "select"
  /\ UNCHANGED <<attempt, started, reversed, err, serving, rules, leaked, net>>

(* A receive from ready: what is received only says that it is time to     *)
(* look again.                                                             *)
WaitWake ==
  /\ step = "select" /\ ready # <<>>
  /\ ready' = Tail(ready) /\ step' = "check"
  /\ UNCHANGED <<attempt, started, reversed, err, serving, rules, leaked,
                 infos, announcing, joins>>

(* The 25 seconds, or the caller's context, have ended.                    *)
WaitTimeout ==
  /\ step = "select"
  /\ step' = "stop" /\ err' = "other"
  /\ UNCHANGED <<attempt, started, reversed, serving, rules, leaked, net>>

(* The application is done with a running session and closes it.           *)
CloseRunning ==
  /\ step = "running"
  /\ step' = "stop"
  /\ UNCHANGED <<attempt, started, reversed, err, serving, rules, leaked, net>>

(* Close, first half: grpcServer.Stop ends every stream.                   *)
StopServer ==
  /\ step = "stop"
  /\ serving' = FALSE /\ infos' = {} /\ announcing' = {} /\ ready' = <<>>
  /\ step' = "remove"
  /\ UNCHANGED <<attempt, started, reversed, err, rules, leaked, joins>>

(* Fault: only the rule that was made last is removed.                     *)
DueLast == reversed \cap {Targets[i] : i \in {started + 1} \cap 1..Len(Targets)}

(* The targets Close asks adb to remove the rule of.                       *)
Due == reversed

(* Close, second half: each removal may fail (they share five seconds) and *)
(* its error is dropped.                                                   *)
RemoveReverses ==
  /\ step = "remove"
  /\ \E kept \in SUBSET Due :
       /\ rules' = rules \ {Rule(t) : t \in Due \ kept}
       /\ leaked' = leaked \cup {Rule(t) : t \in kept}
  /\ step' = IF err = "none" THEN "closed" ELSE "retry"
  /\ UNCHANGED <<attempt, started, reversed, err, serving, net>>

(* Fault: every error is worth another attempt.                            *)
RetriesAlways(e) == TRUE

(* Only a collision of ports is worth another attempt.                     *)
Retries(e) == e = "collision"

(* Start decides on the error of startOnce.                                *)
Retry ==
  /\ step = "retry"
  /\ IF attempt < MaxAttempts /\ Retries(err)
       THEN step' = "listen" /\ attempt' = attempt + 1
       ELSE step' = "failed" /\ UNCHANGED attempt
  /\ UNCHANGED <<started, reversed, err, serving, rules, leaked, net>>

-----------------------------------------------------------------------------
(* The agents                                                              *)

(* A launched agent reaches the port through its rule and registers; a     *)
(* second stream of the same agent supersedes the first.                   *)
Register(t) ==
  /\ serving /\ Rule(t) \in rules
  /\ \E i \in 1..started : Targets[i] = t
  /\ t \notin announcing /\ joins < MaxJoins
  /\ infos' = infos \cup {t} /\ announcing' = announcing \cup {t}
  /\ joins' = joins + 1
  /\ UNCHANGED <<step, attempt, started, reversed, err, serving, rules, leaked, ready>>

(* Fault: the channel has no buffer, so a send reaches only a receiver.    *)
PushUnbuffered(t) == IF step = "select" THEN Append(ready, t) ELSE ready

(* The send on ready, dropped when the channel is full.                    *)
Push(t) == IF Len(ready) < ReadyCap THEN Append(ready, t) ELSE ready

(* The session handler announces its agent outside of the lock.            *)
Announce(t) ==
  /\ t \in announcing
  /\ announcing' = announcing \ {t}
  /\ ready' = Push(t)
  /\ UNCHANGED <<step, attempt, started, reversed, err, serving, rules, leaked, infos, joins>>

(* The stream of an agent ends and its handler unregisters it.             *)
Disconnect(t) ==
  /\ t \in infos \ announcing
  /\ infos' = infos \ {t}
  /\ UNCHANGED <<step, attempt, started, reversed, err, serving, rules, leaked,
                 announcing, ready, joins>>

Finished == step \in {"failed", "closed"} /\ UNCHANGED vars

Start == Listen \/ Reverse \/ StartAgentSession \/ WaitCheck \/ WaitSelect \/ WaitWake \/ WaitTimeout
         \/ StopServer \/ RemoveReverses \/ Retry

Next ==
  \/ Start \/ CloseRunning \/ Finished
  \/ \E t \in Serials : Register(t) \/ Announce(t) \/ Disconnect(t)

Spec == Init /\ [][Next]_vars /\ WF_vars(Start)

-----------------------------------------------------------------------------
(* A rule on a device is the current attempt's own and will be removed by  *)
(* its Close, or adb reported an error for it: no attempt, no failed Start *)
(* and no closed session leaves a reverse rule that adb would have removed.*)
RulesReleased ==
  rules \ leaked \subseteq
    IF step \in {"listen", "retry", "failed", "closed"} THEN {}
    ELSE {Rule(t) : t \in reversed}

(* WaitAgents never sleeps past the moment at which the last agent is      *)
(* there: while it waits with enough agents registered, a wake-up is in  *)
(* the channel or on its way, although sends on a full channel are dropped.*)
NoMissedAgent ==
  step \in {"unlocked", "select"} /\ Cardinality(infos) >= Len(Targets) =>
    ready # <<>> \/ announcing # {}

(* Only a port collision is retried, and Start always returns: it fails or *)
(* hands out a session.                                                    *)
StartReturns ==
  /\ <>(step \in {"running", "failed"})
  /\ [][attempt' # attempt => err = "collision" /\ ~serving]_vars
=============================================================================

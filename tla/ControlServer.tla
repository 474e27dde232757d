---------------------------- MODULE ControlServer ----------------------------
(***************************************************************************)
(* The controller's gRPC control server (controller/internal/control).     *)
(*                                                                         *)
(* A stream is one invocation of Server.Session: one agentConn, with the   *)
(* agent's random session ID, so a stream stands for its session ID too.   *)
(* A call is one invocation of Server.Run or Server.RunPinned.  Streams    *)
(* and calls run concurrently; every critical section of Server.mu is one  *)
(* action, every select of the code is one disjunct per ready case.        *)
(*                                                                         *)
(* A commandWaiter holds the connection and the response channel that its  *)
(* call made, so waiters maps a command ID to the call that registered it. *)
(***************************************************************************)
EXTENDS Integers, Sequences

CONSTANTS
  Agents,       (* agent IDs: the keys of Server.conns                     *)
  Streams,      (* invocations of Session, each with its own session ID    *)
  Calls,        (* invocations of run                                      *)
  CommandIDs,   (* the keys of Server.waiters                              *)
  CmdOf,        (* the command ID each call is made with                   *)
  CancelCalls,  (* the calls whose command Server.Cancel is invoked for    *)
  SendCap,      (* capacity of agentConn.sendCh (16 in the code)           *)
  None          (* a nil pointer, an absent map entry, an empty string     *)

ASSUME CallAssumption == CmdOf \in [Calls -> CommandIDs]
ASSUME SendCapAssumption == SendCap \in Nat \ {0}
ASSUME NoneAssumption == None \notin Agents \cup Streams \cup Calls

VARIABLES
  conns,        (* Server.conns: agent ID -> current stream                *)
  infos,        (* Server.infos: agent ID -> session ID of its AgentInfo   *)
  waiters,      (* Server.waiters: command ID -> the call that waits       *)
  owner,        (* agentConn.id, None until the hello frame is accepted    *)
  phase,        (* where the Session handler of a stream stands            *)
  done,         (* the streams whose agentConn.done is closed              *)
  sendCh,       (* agentConn.sendCh                                        *)
  sendDone,     (* the streams whose sender goroutine has reported and gone *)
  broken,       (* the streams whose transport has ended                   *)
  received,     (* the calls whose command the agent has received          *)
  pc,           (* where a call stands in run                              *)
  ctxEnded,     (* the calls whose context is canceled or past its deadline *)
  target,       (* the agentID argument of run                             *)
  pin,          (* the expectedSession argument of run                     *)
  callConn,     (* the conn variable of run                                *)
  resp,         (* the buffered respCh of run                              *)
  outcome       (* what run returned                                       *)

registry   == <<conns, infos>>
streamVars == <<owner, phase, done, sendCh, sendDone, broken, received>>
callVars   == <<pc, ctxEnded, target, pin, callConn, resp, outcome>>
vars       == <<registry, waiters, streamVars, callVars>>

Phases == {"hello", "loop", "recv", "cleanup", "close", "ended"}
PCs    == {"idle", "enter", "enqueue", "await", "cancel", "return", "done"}

Frames == [kind : {"run", "cancel"}, call : Calls]

(* A response names the stream that carried it and the call whose command  *)
(* it answers; the code's envelope has neither, they serve the properties. *)
(* Result and Error frames take the same way and are both an answer.       *)
NoResponse   == [kind |-> "none", from |-> None, of |-> None]
Disconnected == [kind |-> "disconnected", from |-> None, of |-> None]
Failure(k)   == [kind |-> k, from |-> None, of |-> None]
AnswerKinds  == {"answer"}
Answers      == [kind : AnswerKinds, from : Streams, of : Calls]
Failures     == {Failure(k) : k \in {"not connected", "replaced", "running",
                                     "context", "disconnected"}}

Init ==
  /\ conns    = [a \in Agents |-> None]
  /\ infos    = [a \in Agents |-> None]
  /\ waiters  = [k \in CommandIDs |-> None]
  /\ owner    = [s \in Streams |-> None]
  /\ phase    = [s \in Streams |-> "hello"]
  /\ done     = {}
  /\ sendCh   = [s \in Streams |-> <<>>]
  /\ sendDone = {}
  /\ broken   = {}
  /\ received = [s \in Streams |-> {}]
  /\ pc       = [c \in Calls |-> "idle"]
  /\ ctxEnded = {}
  /\ target   = [c \in Calls |-> None]
  /\ pin      = [c \in Calls |-> None]
  /\ callConn = [c \in Calls |-> None]
  /\ resp     = [c \in Calls |-> NoResponse]
  /\ outcome  = [c \in Calls |-> NoResponse]

-----------------------------------------------------------------------------
(* The Session handler of a stream                                         *)

(* The first frame is no hello, or its token is not the server's, or the   *)
(* stream ends before it: Session returns and nothing is registered.       *)
RejectHello(s) ==
  /\ phase[s] = "hello"
  /\ phase' = [phase EXCEPT ![s] = "ended"]
  /\ UNCHANGED <<registry, waiters, owner, done, sendCh, sendDone,
                 broken, received, callVars>>

(* The streams a registration for agent a closes: the registered one.      *)
Previous(a) == {conns[a]} \ {None}

(* An authenticated hello registers the stream under its agent ID and      *)
(* closes the stream that was registered there.                            *)
AcceptHello(s, a) ==
  /\ phase[s] = "hello"
  /\ owner' = [owner EXCEPT ![s] = a]
  /\ done'  = done \cup Previous(a)
  /\ conns' = [conns EXCEPT ![a] = s]
  /\ infos' = [infos EXCEPT ![a] = s]
  /\ phase' = [phase EXCEPT ![s] = "loop"]
  /\ UNCHANGED <<waiters, sendCh, sendDone, broken, received, callVars>>

(* The sender goroutine lives from the registration of the stream until it *)
(* reports on sendDone.                                                    *)
SenderRunning(s) == owner[s] # None /\ s \notin sendDone

(* The sender takes a frame and stream.Send succeeds: the agent has it.    *)
SenderSend(s) ==
  /\ SenderRunning(s)
  /\ sendCh[s] # <<>>
  /\ s \notin broken
  /\ received' = [received EXCEPT ![s] = @ \cup
                    {c \in Calls : Head(sendCh[s]) = [kind |-> "run", call |-> c]}]
  /\ sendCh' = [sendCh EXCEPT ![s] = Tail(@)]
  /\ UNCHANGED <<registry, waiters, owner, phase, done, sendDone,
                 broken, callVars>>

(* stream.Send of a queued frame or of a heartbeat fails: the frame is     *)
(* lost and the sender returns, leaving the error in sendDone.             *)
SenderFail(s) ==
  /\ SenderRunning(s)
  /\ s \in broken \/ phase[s] = "ended"
  /\ sendDone' = sendDone \cup {s}
  /\ \/ UNCHANGED sendCh
     \/ sendCh[s] # <<>> /\ sendCh' = [sendCh EXCEPT ![s] = Tail(@)]
  /\ UNCHANGED <<registry, waiters, owner, phase, done, broken,
                 received, callVars>>

(* The sender sees conn.done closed and returns, leaving nil in sendDone.  *)
SenderStop(s) ==
  /\ SenderRunning(s)
  /\ s \in done
  /\ sendDone' = sendDone \cup {s}
  /\ UNCHANGED <<registry, waiters, owner, phase, done, sendCh,
                 broken, received, callVars>>

(* Fault: the loop never looks at sendDone.                                *)
LoopHeadBlind(s) ==
  /\ phase[s] = "loop"
  /\ phase' = [phase EXCEPT ![s] = "recv"]
  /\ UNCHANGED <<registry, waiters, owner, done, sendCh, sendDone, broken, received, callVars>>

(* The head of the receive loop: a sender that has returned ends it, an    *)
(* empty sendDone lets it block in stream.Recv.                            *)
LoopHead(s) ==
  /\ phase[s] = "loop"
  /\ phase' = [phase EXCEPT ![s] = IF s \in sendDone THEN "cleanup" ELSE "recv"]
  /\ UNCHANGED <<registry, waiters, owner, done, sendCh, sendDone,
                 broken, received, callVars>>

(* stream.Recv returns io.EOF or an error.                                 *)
RecvFail(s) ==
  /\ phase[s] = "recv"
  /\ s \in broken
  /\ phase' = [phase EXCEPT ![s] = "cleanup"]
  /\ UNCHANGED <<registry, waiters, owner, done, sendCh, sendDone,
                 broken, received, callVars>>

(* The stream is the one the registry holds for its agent.                 *)
IsCurrent(s) == conns[owner[s]] = s

(* A heartbeat, a log or an Accepted frame: the loop only stamps the times *)
(* it was seen at, which nothing but the status display reads.             *)
RecvHeartbeat(s) ==
  /\ phase[s] = "recv"
  /\ phase' = [phase EXCEPT ![s] = "loop"]
  /\ UNCHANGED <<registry, waiters, owner, done, sendCh, sendDone,
                 broken, received, callVars>>

(* The calls whose waiter was registered on stream s.                      *)
Waiting(s) == {c \in Calls : waiters[CmdOf[c]] = c /\ callConn[c] = s}

(* Fault: the registry check is missing.                                   *)
AddresseeStale(s, k) == {c \in Waiting(s) : CmdOf[c] = k}

(* Fault: the waiter's connection is not compared with the frame's.        *)
AddresseeUnowned(s, k) == {waiters[k]} \ {None}

(* Fault: the frame's command ID is ignored.                               *)
AddresseeAnyCommand(s, k) == {c \in Waiting(s) : IsCurrent(s)}

(* The call that deliver hands a frame of stream s for command ID k to, if *)
(* any: its waiter was registered on this stream, which is still current.  *)
Addressee(s, k) == {c \in Waiting(s) : CmdOf[c] = k /\ IsCurrent(s)}

(* Fault: the response channel has no buffer, so nothing is queued.        *)
OfferUnbuffered(cs, r) == resp

(* The non-blocking send of a response to calls: it is dropped when one is *)
(* queued already.                                                         *)
Offer(cs, r) ==
  [c \in Calls |-> IF c \in cs /\ resp[c] = NoResponse THEN r ELSE resp[c]]

(* A Result or Error frame that answers call c, whose command the agent    *)
(* received on this stream: late, repeated and stale answers included.     *)
RecvAnswer(s, c) ==
  /\ phase[s] = "recv"
  /\ c \in received[s]
  /\ resp' = Offer(Addressee(s, CmdOf[c]), [kind |-> "answer", from |-> s, of |-> c])
  /\ phase' = [phase EXCEPT ![s] = "loop"]
  /\ UNCHANGED <<registry, waiters, owner, done, sendCh, sendDone, broken, received,
                 pc, ctxEnded, target, pin, callConn, outcome>>

(* Fault: the cleanup of a superseded stream unregisters its successor.    *)
UnregisterAlways(m, s) == [m EXCEPT ![owner[s]] = None]

(* A registry map without the entry of stream s, if that is still its own. *)
Unregister(m, s) == [a \in Agents |-> IF a = owner[s] /\ IsCurrent(s) THEN None ELSE m[a]]

(* Fault: the cleanup removes every waiter, of whatever stream.            *)
ForgetAll(s) == [k \in CommandIDs |-> None]

(* Fault: the cleanup leaves the waiters behind.                           *)
ForgetNone(s) == waiters

(* The waiters that are left when those of stream s are removed.           *)
Forget(s) == [k \in CommandIDs |-> IF waiters[k] \in Waiting(s) THEN None ELSE waiters[k]]

(* The deferred cleanup under the lock: the registry entry goes only if it *)
(* is still this stream's, every waiter of the stream is removed and gets  *)
(* a disconnect error unless a terminal response is queued already.        *)
Cleanup(s) ==
  /\ phase[s] = "cleanup"
  /\ conns' = Unregister(conns, s)
  /\ infos' = Unregister(infos, s)
  /\ waiters' = Forget(s)
  /\ resp' = Offer(Waiting(s), Disconnected)
  /\ phase' = [phase EXCEPT ![s] = "close"]
  /\ UNCHANGED <<owner, done, sendCh, sendDone, broken, received,
                 pc, ctxEnded, target, pin, callConn, outcome>>

(* conn.close(), after the lock is released; closing twice is harmless.    *)
CloseConn(s) ==
  /\ phase[s] = "close"
  /\ done' = done \cup {s}
  /\ phase' = [phase EXCEPT ![s] = "ended"]
  /\ UNCHANGED <<registry, waiters, owner, sendCh, sendDone, broken, received, callVars>>

(* The transport of a registered stream ends: the agent completed it, or   *)
(* the adb reverse tunnel or the agent process is gone.                    *)
Break(s) ==
  /\ owner[s] # None
  /\ s \notin broken
  /\ broken' = broken \cup {s}
  /\ UNCHANGED <<registry, waiters, owner, phase, done, sendCh, sendDone,
                 received, callVars>>

-----------------------------------------------------------------------------
(* Server.run on behalf of a call                                          *)

(* run is entered: by Run with no expected session (p = None), or by       *)
(* RunPinned with the session of an AgentInfo that was current once.       *)
RunBegin(c, a, p) ==
  /\ pc[c] = "idle"
  /\ p \in {None} \cup {s \in Streams : owner[s] = a}
  /\ target' = [target EXCEPT ![c] = a]
  /\ pin' = [pin EXCEPT ![c] = p]
  /\ pc' = [pc EXCEPT ![c] = "enter"]
  /\ UNCHANGED <<registry, waiters, streamVars, ctxEnded, callConn, resp, outcome>>

(* run is entered with a context that has ended already.                   *)
RunPreCanceled(c) ==
  /\ pc[c] = "idle"
  /\ outcome' = [outcome EXCEPT ![c] = Failure("context")]
  /\ pc' = [pc EXCEPT ![c] = "done"]
  /\ ctxEnded' = ctxEnded \cup {c}
  /\ UNCHANGED <<registry, waiters, streamVars, target, pin, callConn, resp>>

(* Why the critical section of run refuses the call, "" when it does not.  *)
Refusal(c) ==
  LET s == conns[target[c]] IN
  IF s = None THEN "not connected"
  ELSE IF pin[c] \notin {None, s} THEN "replaced"
  ELSE IF waiters[CmdOf[c]] # None THEN "running"
  ELSE IF c \in ctxEnded THEN "context"
  ELSE ""

RunRefused(c) ==
  /\ pc[c] = "enter"
  /\ Refusal(c) # ""
  /\ outcome' = [outcome EXCEPT ![c] = Failure(Refusal(c))]
  /\ pc' = [pc EXCEPT ![c] = "done"]
  /\ UNCHANGED <<registry, waiters, streamVars, ctxEnded, target, pin, callConn, resp>>

(* The waiter is registered under the lock that selected the connection,   *)
(* before the frame is enqueued.                                           *)
RunRegister(c) ==
  /\ pc[c] = "enter"
  /\ Refusal(c) = ""
  /\ callConn' = [callConn EXCEPT ![c] = conns[target[c]]]
  /\ waiters' = [waiters EXCEPT ![CmdOf[c]] = c]
  /\ pc' = [pc EXCEPT ![c] = "enqueue"]
  /\ UNCHANGED <<registry, streamVars, ctxEnded, target, pin, resp, outcome>>

(* Leaving a select of run for the deferred removal of the waiter.         *)
Leave(c, result) ==
  /\ outcome' = [outcome EXCEPT ![c] = result]
  /\ pc' = [pc EXCEPT ![c] = "return"]

(* Fault: the queue has no bound.                                          *)
EnqueueUnbounded(s, kind, c) ==
  sendCh' = [sendCh EXCEPT ![s] = Append(@, [kind |-> kind, call |-> c])]

(* A frame for the command of call c finds room in the queue of stream s.  *)
Enqueue(s, kind, c) ==
  /\ Len(sendCh[s]) < SendCap
  /\ sendCh' = [sendCh EXCEPT ![s] = Append(@, [kind |-> kind, call |-> c])]

RunEnqueue(c) ==
  /\ pc[c] = "enqueue"
  /\ Enqueue(callConn[c], "run", c)
  /\ pc' = [pc EXCEPT ![c] = "await"]
  /\ UNCHANGED <<registry, waiters, owner, phase, done, sendDone, broken,
                 received, ctxEnded, target, pin, callConn, resp, outcome>>

(* conn.done is closed while the call waits for room or for its response.  *)
RunDisconnected(c) ==
  /\ pc[c] \in {"enqueue", "await"}
  /\ callConn[c] \in done
  /\ Leave(c, Failure("disconnected"))
  /\ UNCHANGED <<registry, waiters, streamVars, ctxEnded, target, pin, callConn, resp>>

(* The context ends before the frame is enqueued: nothing to cancel.       *)
RunAbandoned(c) ==
  /\ pc[c] = "enqueue"
  /\ c \in ctxEnded
  /\ Leave(c, Failure("context"))
  /\ UNCHANGED <<registry, waiters, streamVars, ctxEnded, target, pin, callConn, resp>>

RunAnswered(c) ==
  /\ pc[c] = "await"
  /\ resp[c] # NoResponse
  /\ Leave(c, resp[c])
  /\ resp' = [resp EXCEPT ![c] = NoResponse]
  /\ UNCHANGED <<registry, waiters, streamVars, ctxEnded, target, pin, callConn>>

(* The context ends while the command runs: the best-effort cancel frame.  *)
RunCanceled(c) ==
  /\ pc[c] = "await"
  /\ c \in ctxEnded
  /\ pc' = [pc EXCEPT ![c] = "cancel"]
  /\ UNCHANGED <<registry, waiters, streamVars, ctxEnded, target, pin, callConn,
                 resp, outcome>>

CancelEnqueue(c) ==
  /\ pc[c] = "cancel"
  /\ Enqueue(callConn[c], "cancel", c)
  /\ Leave(c, Failure("context"))
  /\ UNCHANGED <<registry, waiters, owner, phase, done, sendDone, broken,
                 received, ctxEnded, target, pin, callConn, resp>>

(* Fault: the cancel frame is not bounded in time.                         *)
CancelGiveUpClosed(c) ==
  /\ pc[c] = "cancel"
  /\ callConn[c] \in done
  /\ Leave(c, Failure("context"))
  /\ UNCHANGED <<registry, waiters, streamVars, ctxEnded, target, pin, callConn, resp>>

(* cancelConn gives up: conn.done is closed, or its 100 ms have passed.    *)
CancelGiveUp(c) ==
  /\ pc[c] = "cancel"
  /\ Leave(c, Failure("context"))
  /\ UNCHANGED <<registry, waiters, streamVars, ctxEnded, target, pin, callConn, resp>>

(* The deferred function removes the waiter only if it is this call's own; *)
(* the channel goes with the call.                                         *)
RunReturn(c) ==
  /\ pc[c] = "return"
  /\ waiters' = [waiters EXCEPT ![CmdOf[c]] = IF @ = c THEN None ELSE @]
  /\ resp' = [resp EXCEPT ![c] = NoResponse]
  /\ pc' = [pc EXCEPT ![c] = "done"]
  /\ UNCHANGED <<registry, streamVars, ctxEnded, target, pin, callConn, outcome>>

(* Server.Cancel looks the stream up under the lock and enqueues after it, *)
(* so the stream may be superseded or gone when the frame is queued; when  *)
(* there is no room it waits, and gives up without a trace.                *)
Cancel(s, c) ==
  /\ c \in CancelCalls
  /\ owner[s] # None
  /\ Enqueue(s, "cancel", c)
  /\ UNCHANGED <<registry, waiters, owner, phase, done, sendDone, broken,
                 received, callVars>>

(* The caller cancels the context, or its deadline passes, while run may   *)
(* still look at it.                                                       *)
CtxEnd(c) ==
  /\ pc[c] \in {"enter", "enqueue", "await"}
  /\ c \notin ctxEnded
  /\ ctxEnded' = ctxEnded \cup {c}
  /\ UNCHANGED <<registry, waiters, streamVars, pc, target, pin, callConn, resp, outcome>>

-----------------------------------------------------------------------------
StreamStep(s) ==
  \/ RejectHello(s)
  \/ \E a \in Agents : AcceptHello(s, a)
  \/ SenderSend(s)
  \/ SenderFail(s)
  \/ SenderStop(s)
  \/ LoopHead(s)
  \/ RecvFail(s)
  \/ RecvHeartbeat(s)
  \/ \E c \in Calls : RecvAnswer(s, c)
  \/ Cleanup(s)
  \/ CloseConn(s)
  \/ Break(s)

CallStep(c) ==
  \/ \E a \in Agents, p \in Streams \cup {None} : RunBegin(c, a, p)
  \/ RunPreCanceled(c)
  \/ RunRefused(c)
  \/ RunRegister(c)
  \/ RunEnqueue(c)
  \/ RunDisconnected(c)
  \/ RunAbandoned(c)
  \/ RunAnswered(c)
  \/ RunCanceled(c)
  \/ CancelEnqueue(c)
  \/ CancelGiveUp(c)
  \/ RunReturn(c)
  \/ \E s \in Streams : Cancel(s, c)
  \/ CtxEnd(c)

Next ==
  \/ \E s \in Streams : StreamStep(s)
  \/ \E c \in Calls : CallStep(c)

Spec == Init /\ [][Next]_vars

(* Goroutines that can run do run, and the sender is not held up in Send   *)
(* once its stream is closed or broken; but no agent is obliged to take    *)
(* frames off a full queue.  A transport that has ended holds only         *)
(* finitely many buffered frames, so Recv fails in the end, whatever it    *)
(* returns first; an agent sends a heartbeat every second.  Nothing        *)
(* obliges a caller to call, a context to end or a transport to break.     *)
StreamFairness(s) ==
  /\ WF_vars(SenderFail(s) \/ SenderStop(s))
  /\ WF_vars(LoopHead(s))
  /\ SF_vars(RecvFail(s))
  /\ WF_vars(RecvHeartbeat(s))
  /\ WF_vars(Cleanup(s))
  /\ WF_vars(CloseConn(s))

CallFairness(c) ==
  /\ WF_vars(RunRefused(c) \/ RunRegister(c))
  /\ WF_vars(RunEnqueue(c) \/ RunDisconnected(c) \/ RunAbandoned(c))
  /\ WF_vars(RunAnswered(c) \/ RunCanceled(c))
  /\ WF_vars(CancelEnqueue(c) \/ CancelGiveUp(c))
  /\ WF_vars(RunReturn(c))

Fairness == (\A s \in Streams : StreamFairness(s)) /\ (\A c \in Calls : CallFairness(c))

FairSpec == Spec /\ Fairness

-----------------------------------------------------------------------------
(* Properties                                                              *)

InFlight(c) == pc[c] \in {"enqueue", "await", "cancel", "return"}

(* Every variable stays in its type; send queues respect their capacity.   *)
TypeOK ==
  /\ conns \in [Agents -> Streams \cup {None}]
  /\ infos \in [Agents -> Streams \cup {None}]
  /\ waiters \in [CommandIDs -> Calls \cup {None}]
  /\ owner \in [Streams -> Agents \cup {None}]
  /\ phase \in [Streams -> Phases]
  /\ done \subseteq Streams
  /\ sendCh \in [Streams -> Seq(Frames)]
  /\ \A s \in Streams : Len(sendCh[s]) <= SendCap
  /\ sendDone \subseteq Streams
  /\ broken \subseteq Streams
  /\ received \in [Streams -> SUBSET Calls]
  /\ pc \in [Calls -> PCs]
  /\ ctxEnded \subseteq Calls
  /\ target \in [Calls -> Agents \cup {None}]
  /\ pin \in [Calls -> Streams \cup {None}]
  /\ callConn \in [Calls -> Streams \cup {None}]
  /\ resp \in [Calls -> {NoResponse, Disconnected} \cup Answers]
  /\ outcome \in [Calls -> {NoResponse} \cup Failures \cup Answers]

(* The registry names exactly the live streams: a registered stream        *)
(* belongs to that agent, its connection is not closed and its handler has *)
(* not cleaned up; a stream that is none of this is registered, so that    *)
(* commands reach it; conns and infos name the same stream.  A late        *)
(* cleanup of a superseded stream must not break this (session.go:105).    *)
RegistryLive ==
  /\ \A a \in Agents :
       /\ infos[a] = conns[a]
       /\ conns[a] # None =>
            /\ owner[conns[a]] = a
            /\ conns[a] \notin done
            /\ phase[conns[a]] \in {"loop", "recv", "cleanup"}
  /\ \A s \in Streams :
       phase[s] \in {"loop", "recv", "cleanup"} /\ s \notin done => conns[owner[s]] = s

(* No waiter outlives what it waits for: it belongs to a call that is in   *)
(* flight, on a stream whose handler has not cleaned up yet.  A leaked     *)
(* waiter would refuse its command ID for ever (command.go:45).            *)
WaitersOwned ==
  \A k \in CommandIDs : waiters[k] # None =>
    LET c == waiters[k] IN
    /\ CmdOf[c] = k
    /\ InFlight(c)
    /\ callConn[c] # None
    /\ phase[callConn[c]] \in {"loop", "recv", "cleanup"}

(* No call is stranded (session.go:111): while run waits for a response,   *)
(* either its waiter is registered, so that an answer or the cleanup of    *)
(* its stream will find it, or a response is queued for it already.        *)
NeverStranded ==
  \A c \in Calls : pc[c] \in {"enqueue", "await"} =>
    waiters[CmdOf[c]] = c \/ resp[c] # NoResponse

(* Response r of call c, if it is an answer of the agent at all, came over *)
(* the very stream the call was bound to, the pinned one if there is a     *)
(* pin, and answers a command with the call's ID that the agent had        *)
(* received on that stream.                                                *)
FromBoundStream(c, r) == r.kind \in AnswerKinds =>
  /\ r.from = callConn[c]
  /\ pin[c] \in {None, r.from}
  /\ r.of \in received[r.from]
  /\ CmdOf[r.of] = CmdOf[c]

(* What run hands out was said by the agent to this call.  A reconnect or  *)
(* an old stream's late frame must not break this (command.go:20, 135).    *)
AnswersFromBoundStream ==
  \A c \in Calls : FromBoundStream(c, resp[c]) /\ FromBoundStream(c, outcome[c])

(* With command IDs that are never reused, as runner.go draws them, the    *)
(* answer is to this call's own command, however late it is.               *)
AnswersOwnCommand ==
  \A c \in Calls : \A r \in {resp[c], outcome[c]} :
    r.kind \in AnswerKinds => r.of = c

(* The calls of the server keep the contract of Run and RunPinned.  A      *)
(* waiting call is open, one that has left its last select is closed.      *)
StageOf(p) == CASE p \in {"idle", "enter"}              -> "new"
                [] p \in {"enqueue", "await", "cancel"} -> "open"
                [] p \in {"return", "done"}             -> "closed"

VerdictOf(r) ==
  IF r.kind \in AnswerKinds THEN [kind |-> "answered", of |-> r.of]
  ELSE [kind |-> IF r = NoResponse THEN "none" ELSE "failed", of |-> None]

Stage   == [c \in Calls |-> StageOf(pc[c])]
Verdict == [c \in Calls |-> VerdictOf(outcome[c])]

Contract == INSTANCE CallContract WITH
  stage <- Stage, bound <- callConn, heard <- received, verdict <- Verdict

(* Every call is bound to one stream at most, ends exactly once, and ends  *)
(* with a failure or with an answer its own stream's agent gave to it      *)
(* (command.go:11, session.go:111).                                        *)
KeepsContract == Contract!Spec

(* Phase and owner of a stream go together.                                *)
StreamsConsistent ==
  \A s \in Streams :
    /\ phase[s] = "hello" => owner[s] = None /\ s \notin done
    /\ phase[s] \in {"loop", "recv", "cleanup", "close"} => owner[s] # None

(* The locals of run: no connection, response or outcome before the call   *)
(* is registered, and a connection the pin allows from then on.            *)
CallsConsistent ==
  \A c \in Calls :
    /\ pc[c] \in {"idle", "enter"} =>
         callConn[c] = None /\ resp[c] = NoResponse /\ outcome[c] = NoResponse
    /\ pc[c] = "enter" => target[c] # None
    /\ InFlight(c) => callConn[c] # None
    /\ callConn[c] # None => pin[c] \in {None, callConn[c]}

(* The inductive invariant.                                                *)
IInv ==
  /\ TypeOK
  /\ RegistryLive
  /\ WaitersOwned
  /\ NeverStranded
  /\ AnswersFromBoundStream
  /\ StreamsConsistent
  /\ CallsConsistent

(* A waiter goes away only because its own call returns or because its own *)
(* stream cleans up, and then with a response left for the call: the       *)
(* cleanup of a superseded stream preserves the replacement's commands.    *)
WaitersKept ==
  [][\A k \in CommandIDs : \A c \in Calls :
       waiters[k] = c /\ waiters'[k] # c =>
         \/ pc[c] = "return"
         \/ phase[callConn[c]] = "cleanup" /\ resp'[c] # NoResponse]_vars

(* An answer enters a response channel only from the stream that is the    *)
(* agent's current one at that moment: once superseded, a stream is mute.  *)
SupersededMute ==
  [][\A c \in Calls : resp'[c] # resp[c] /\ resp'[c].kind \in AnswerKinds =>
       /\ conns[owner[resp'[c].from]] = resp'[c].from
       /\ resp'[c].from \notin done]_vars

(* No call waits for what cannot come: one whose stream is superseded or   *)
(* broken returns without waiting for its own deadline (session.go:112),   *)
(* and one whose context ends returns whatever the agent does, even with a *)
(* full send queue (command.go:113).                                       *)
CallsReturn ==
  /\ \A c \in Calls, s \in Streams :
       (callConn[c] = s /\ (s \in done \/ s \in broken) /\ InFlight(c)) ~> (pc[c] = "done")
  /\ \A c \in Calls : (c \in ctxEnded /\ pc[c] # "idle") ~> (pc[c] = "done")

(* A stream that is closed, superseded or broken is retired for good: its  *)
(* handler returns and its sender goroutine does not leak.                 *)
StreamsRetire ==
  \A s \in Streams : (s \in done \/ s \in broken) ~> (phase[s] = "ended" /\ s \in sendDone)
=============================================================================

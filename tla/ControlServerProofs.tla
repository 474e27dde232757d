------------------------- MODULE ControlServerProofs -------------------------
(***************************************************************************)
(* Safety of the control server, for any number of agents, streams, calls  *)
(* and command IDs, and any capacity of the send queues.                   *)
(*                                                                         *)
(* One lemma per action shows that it preserves IInv, conjunct by conjunct *)
(* for those it can disturb.  The theorems follow from Spec => []IInv.     *)
(***************************************************************************)
EXTENDS ControlServer, TLAPS

(* What Head, Tail and Append do to a send queue.                          *)
LEMMA QueueFacts ==
  ASSUME NEW S, NEW q \in Seq(S)
  PROVE  /\ q # <<>> => Tail(q) \in Seq(S) /\ Len(Tail(q)) = Len(q) - 1 /\ Head(q) \in S
         /\ Len(q) \in Nat
         /\ \A e \in S : Append(q, e) \in Seq(S) /\ Len(Append(q, e)) = Len(q) + 1
OBVIOUS

(* Errors that the controller makes up are no answers of an agent.         *)
LEMMA ResponseFacts ==
  /\ NoResponse.kind \notin AnswerKinds
  /\ Disconnected.kind \notin AnswerKinds
  /\ Disconnected # NoResponse
  /\ \A k \in {"context", "disconnected"} :
       Failure(k) \in Failures /\ Failure(k).kind \notin AnswerKinds
BY DEF NoResponse, AnswerKinds, Disconnected, Failure, Failures

(* The fields of an answer.                                                *)
LEMMA AnswerFacts ==
  ASSUME NEW s \in Streams, NEW c \in Calls, NEW r,
         r = [kind |-> "answer", from |-> s, of |-> c]
  PROVE  r \in Answers /\ r # NoResponse /\ r.from = s /\ r.of = c
BY DEF Answers, NoResponse, AnswerKinds

(* A response with the kind of an answer is an answer.                     *)
LEMMA AnsweredFacts ==
  ASSUME NEW r \in {NoResponse} \cup Failures \cup Answers, r.kind \in AnswerKinds
  PROVE  r \in Answers /\ r.from \in Streams /\ r.of \in Calls
<1>1. \A k \in {"not connected", "replaced", "running", "context", "disconnected"} :
        Failure(k).kind \notin AnswerKinds
  BY DEF Failure, AnswerKinds
<1>2. r # NoResponse
  BY DEF NoResponse, AnswerKinds
<1>3. QED
  BY <1>1, <1>2 DEF Answers, Failures

(* The errors of run's critical section are no answers.                    *)
LEMMA RefusalFacts ==
  ASSUME NEW c \in Calls, Refusal(c) # ""
  PROVE  Failure(Refusal(c)) \in Failures /\ Failure(Refusal(c)).kind \notin AnswerKinds
BY DEF Refusal, Failure, Failures, AnswerKinds

(* RejectHello preserves the inductive invariant.                          *)
LEMMA RejectHelloInv ==
  ASSUME IInv, NEW s \in Streams, RejectHello(s)
  PROVE  IInv'
<1> USE CallAssumption, SendCapAssumption, NoneAssumption, ResponseFacts
       DEF IInv, TypeOK, RejectHello, registry, streamVars, callVars
<1>1. TypeOK'
  BY DEF Phases, PCs, Frames, CallsConsistent, InFlight
<1>2. RegistryLive'
  BY DEF RegistryLive, StreamsConsistent
<1>3. WaitersOwned'
  BY DEF WaitersOwned, RegistryLive, StreamsConsistent, CallsConsistent, InFlight
<1>4. StreamsConsistent'
  BY DEF StreamsConsistent, RegistryLive
<1>5. NeverStranded' /\ AnswersFromBoundStream' /\ CallsConsistent'
  BY DEF NeverStranded, AnswersFromBoundStream, CallsConsistent, FromBoundStream,
     InFlight
<1>6. QED
  BY <1>1, <1>2, <1>3, <1>4, <1>5

(* AcceptHello preserves the inductive invariant.                          *)
LEMMA AcceptHelloInv ==
  ASSUME IInv, NEW s \in Streams, NEW a \in Agents, AcceptHello(s, a)
  PROVE  IInv'
<1> USE CallAssumption, SendCapAssumption, NoneAssumption, ResponseFacts
       DEF IInv, TypeOK, AcceptHello, Previous, registry, streamVars, callVars
<1>1. TypeOK'
  BY DEF Phases, PCs, Frames, CallsConsistent, InFlight
<1>2. RegistryLive'
  BY DEF RegistryLive, StreamsConsistent
<1>3. WaitersOwned'
  BY DEF WaitersOwned, RegistryLive, StreamsConsistent, CallsConsistent, InFlight
<1>4. StreamsConsistent'
  BY DEF StreamsConsistent, RegistryLive
<1>5. NeverStranded' /\ AnswersFromBoundStream' /\ CallsConsistent'
  BY DEF NeverStranded, AnswersFromBoundStream, CallsConsistent, FromBoundStream,
     InFlight
<1>6. QED
  BY <1>1, <1>2, <1>3, <1>4, <1>5

(* SenderSend preserves the inductive invariant.                           *)
LEMMA SenderSendInv ==
  ASSUME IInv, NEW s \in Streams, SenderSend(s)
  PROVE  IInv'
<1> USE CallAssumption, SendCapAssumption, NoneAssumption, ResponseFacts
       DEF IInv, TypeOK, SenderSend, SenderRunning, registry, streamVars, callVars
<1>1. TypeOK'
  <2>1. Tail(sendCh[s]) \in Seq(Frames) /\ Len(Tail(sendCh[s])) <= SendCap
    BY QueueFacts
  <2>2. QED
    BY <2>1
<1>2. AnswersFromBoundStream'
  <2>1. \A t \in Streams : received[t] \subseteq received'[t]
    OBVIOUS
  <2>2. ASSUME NEW c \in Calls, NEW r \in {NoResponse} \cup Failures \cup Answers,
               FromBoundStream(c, r)
        PROVE  FromBoundStream(c, r)'
    <3>1. r.kind \in AnswerKinds => r.from \in Streams
      BY AnsweredFacts
    <3>2. callConn' = callConn /\ pin' = pin
      OBVIOUS
    <3>3. QED
      BY <2>1, <2>2, <3>1, <3>2 DEF FromBoundStream
  <2>3. Disconnected \in Failures
    BY DEF Disconnected, Failures, Failure
  <2>4. QED
    BY <2>2, <2>3 DEF AnswersFromBoundStream
<1>3. /\ RegistryLive'
      /\ WaitersOwned'
      /\ NeverStranded'
      /\ StreamsConsistent'
      /\ CallsConsistent'
  BY DEF RegistryLive, WaitersOwned, NeverStranded, StreamsConsistent, CallsConsistent,
     InFlight
<1>4. QED
  BY <1>1, <1>2, <1>3

(* SenderFail preserves the inductive invariant.                           *)
LEMMA SenderFailInv ==
  ASSUME IInv, NEW s \in Streams, SenderFail(s)
  PROVE  IInv'
<1> USE CallAssumption, SendCapAssumption, NoneAssumption, ResponseFacts
       DEF IInv, TypeOK, SenderFail, SenderRunning, registry, streamVars, callVars
<1>1. TypeOK'
  <2>1. CASE UNCHANGED sendCh
    BY <2>1
  <2>2. CASE sendCh[s] # <<>> /\ sendCh' = [sendCh EXCEPT ![s] = Tail(@)]
    <3>1. Tail(sendCh[s]) \in Seq(Frames) /\ Len(Tail(sendCh[s])) <= SendCap
      BY <2>2, QueueFacts
    <3>2. QED
      BY <2>2, <3>1
  <2>3. QED
    BY <2>1, <2>2
<1>2. /\ RegistryLive'
      /\ WaitersOwned'
      /\ NeverStranded'
      /\ AnswersFromBoundStream'
      /\ StreamsConsistent'
      /\ CallsConsistent'
  BY DEF RegistryLive, WaitersOwned, NeverStranded, AnswersFromBoundStream,
     StreamsConsistent, CallsConsistent, FromBoundStream, InFlight
<1>3. QED
  BY <1>1, <1>2

(* SenderStop preserves the inductive invariant.                           *)
LEMMA SenderStopInv ==
  ASSUME IInv, NEW s \in Streams, SenderStop(s)
  PROVE  IInv'
<1> USE CallAssumption, SendCapAssumption, NoneAssumption, ResponseFacts
       DEF IInv, TypeOK, SenderStop, SenderRunning, registry, streamVars, callVars
<1>1. TypeOK'
  BY DEF Phases, PCs, Frames, CallsConsistent, InFlight
<1>2. /\ RegistryLive'
      /\ WaitersOwned'
      /\ NeverStranded'
      /\ AnswersFromBoundStream'
      /\ StreamsConsistent'
      /\ CallsConsistent'
  BY DEF RegistryLive, WaitersOwned, NeverStranded, AnswersFromBoundStream,
     StreamsConsistent, CallsConsistent, FromBoundStream, InFlight
<1>3. QED
  BY <1>1, <1>2

(* LoopHead preserves the inductive invariant.                             *)
LEMMA LoopHeadInv ==
  ASSUME IInv, NEW s \in Streams, LoopHead(s)
  PROVE  IInv'
<1> USE CallAssumption, SendCapAssumption, NoneAssumption, ResponseFacts
       DEF IInv, TypeOK, LoopHead, registry, streamVars, callVars
<1>1. TypeOK'
  BY DEF Phases, PCs, Frames, CallsConsistent, InFlight
<1>2. RegistryLive'
  BY DEF RegistryLive, StreamsConsistent
<1>3. WaitersOwned'
  BY DEF WaitersOwned, RegistryLive, StreamsConsistent, CallsConsistent, InFlight
<1>4. StreamsConsistent'
  BY DEF StreamsConsistent, RegistryLive
<1>5. NeverStranded' /\ AnswersFromBoundStream' /\ CallsConsistent'
  BY DEF NeverStranded, AnswersFromBoundStream, CallsConsistent, FromBoundStream,
     InFlight
<1>6. QED
  BY <1>1, <1>2, <1>3, <1>4, <1>5

(* RecvFail preserves the inductive invariant.                             *)
LEMMA RecvFailInv ==
  ASSUME IInv, NEW s \in Streams, RecvFail(s)
  PROVE  IInv'
<1> USE CallAssumption, SendCapAssumption, NoneAssumption, ResponseFacts
       DEF IInv, TypeOK, RecvFail, registry, streamVars, callVars
<1>1. TypeOK'
  BY DEF Phases, PCs, Frames, CallsConsistent, InFlight
<1>2. RegistryLive'
  BY DEF RegistryLive, StreamsConsistent
<1>3. WaitersOwned'
  BY DEF WaitersOwned, RegistryLive, StreamsConsistent, CallsConsistent, InFlight
<1>4. StreamsConsistent'
  BY DEF StreamsConsistent, RegistryLive
<1>5. NeverStranded' /\ AnswersFromBoundStream' /\ CallsConsistent'
  BY DEF NeverStranded, AnswersFromBoundStream, CallsConsistent, FromBoundStream,
     InFlight
<1>6. QED
  BY <1>1, <1>2, <1>3, <1>4, <1>5

(* RecvHeartbeat preserves the inductive invariant.                        *)
LEMMA RecvHeartbeatInv ==
  ASSUME IInv, NEW s \in Streams, RecvHeartbeat(s)
  PROVE  IInv'
<1> USE CallAssumption, SendCapAssumption, NoneAssumption, ResponseFacts
       DEF IInv, TypeOK, RecvHeartbeat, registry, streamVars, callVars
<1>1. TypeOK'
  BY DEF Phases, PCs, Frames, CallsConsistent, InFlight
<1>2. RegistryLive'
  BY DEF RegistryLive, StreamsConsistent
<1>3. WaitersOwned'
  BY DEF WaitersOwned, RegistryLive, StreamsConsistent, CallsConsistent, InFlight
<1>4. StreamsConsistent'
  BY DEF StreamsConsistent, RegistryLive
<1>5. NeverStranded' /\ AnswersFromBoundStream' /\ CallsConsistent'
  BY DEF NeverStranded, AnswersFromBoundStream, CallsConsistent, FromBoundStream,
     InFlight
<1>6. QED
  BY <1>1, <1>2, <1>3, <1>4, <1>5

(* RecvAnswer preserves the inductive invariant.                           *)
LEMMA RecvAnswerInv ==
  ASSUME IInv, NEW s \in Streams, NEW c \in Calls, RecvAnswer(s, c)
  PROVE  IInv'
<1> USE CallAssumption, SendCapAssumption, NoneAssumption, ResponseFacts
       DEF IInv, TypeOK, RecvAnswer, Offer, Addressee, IsCurrent, Waiting, registry,
          streamVars, callVars
<1>1. TypeOK'
  <2>1. [kind |-> "answer", from |-> s, of |-> c] \in Answers
    BY AnswerFacts
  <2>2. resp' \in [Calls -> {NoResponse, Disconnected} \cup Answers]
    BY <2>1
  <2>3. QED
    BY <2>2 DEF Phases
<1>2. RegistryLive'
  BY DEF RegistryLive, StreamsConsistent
<1>3. WaitersOwned'
  BY DEF WaitersOwned, RegistryLive, StreamsConsistent, CallsConsistent, InFlight
<1>4. NeverStranded'
  BY DEF NeverStranded, CallsConsistent, WaitersOwned, InFlight
<1>5. AnswersFromBoundStream'
  BY DEF AnswersFromBoundStream, FromBoundStream, WaitersOwned, CallsConsistent,
     InFlight
<1>6. StreamsConsistent'
  BY DEF StreamsConsistent, RegistryLive
<1>7. CallsConsistent'
  BY DEF CallsConsistent, InFlight, WaitersOwned
<1>8. QED
  BY <1>1, <1>2, <1>3, <1>4, <1>5, <1>6, <1>7

(* Cleanup preserves the inductive invariant.                              *)
LEMMA CleanupInv ==
  ASSUME IInv, NEW s \in Streams, Cleanup(s)
  PROVE  IInv'
<1> USE CallAssumption, SendCapAssumption, NoneAssumption, ResponseFacts
       DEF IInv, TypeOK, Cleanup, Unregister, IsCurrent, Offer, Forget, Waiting,
          registry, streamVars, callVars
<1>1. TypeOK'
  BY DEF Phases, PCs, Frames, CallsConsistent, InFlight
<1>2. RegistryLive'
  BY DEF RegistryLive, StreamsConsistent
<1>3. WaitersOwned'
  BY DEF WaitersOwned, RegistryLive, StreamsConsistent, CallsConsistent, InFlight
<1>4. NeverStranded'
  BY DEF NeverStranded, CallsConsistent, WaitersOwned, InFlight
<1>5. AnswersFromBoundStream'
  BY DEF AnswersFromBoundStream, FromBoundStream, WaitersOwned, CallsConsistent,
     InFlight
<1>6. StreamsConsistent'
  BY DEF StreamsConsistent, RegistryLive
<1>7. CallsConsistent'
  BY DEF CallsConsistent, InFlight, WaitersOwned
<1>8. QED
  BY <1>1, <1>2, <1>3, <1>4, <1>5, <1>6, <1>7

(* CloseConn preserves the inductive invariant.                            *)
LEMMA CloseConnInv ==
  ASSUME IInv, NEW s \in Streams, CloseConn(s)
  PROVE  IInv'
<1> USE CallAssumption, SendCapAssumption, NoneAssumption, ResponseFacts
       DEF IInv, TypeOK, CloseConn, registry, streamVars, callVars
<1>1. TypeOK'
  BY DEF Phases, PCs, Frames, CallsConsistent, InFlight
<1>2. RegistryLive'
  BY DEF RegistryLive, StreamsConsistent
<1>3. WaitersOwned'
  BY DEF WaitersOwned, RegistryLive, StreamsConsistent, CallsConsistent, InFlight
<1>4. StreamsConsistent'
  BY DEF StreamsConsistent, RegistryLive
<1>5. NeverStranded' /\ AnswersFromBoundStream' /\ CallsConsistent'
  BY DEF NeverStranded, AnswersFromBoundStream, CallsConsistent, FromBoundStream,
     InFlight
<1>6. QED
  BY <1>1, <1>2, <1>3, <1>4, <1>5

(* Break preserves the inductive invariant.                                *)
LEMMA BreakInv ==
  ASSUME IInv, NEW s \in Streams, Break(s)
  PROVE  IInv'
<1> USE CallAssumption, SendCapAssumption, NoneAssumption, ResponseFacts
       DEF IInv, TypeOK, Break, registry, streamVars, callVars
<1>1. TypeOK'
  BY DEF Phases, PCs, Frames, CallsConsistent, InFlight
<1>2. /\ RegistryLive'
      /\ WaitersOwned'
      /\ NeverStranded'
      /\ AnswersFromBoundStream'
      /\ StreamsConsistent'
      /\ CallsConsistent'
  BY DEF RegistryLive, WaitersOwned, NeverStranded, AnswersFromBoundStream,
     StreamsConsistent, CallsConsistent, FromBoundStream, InFlight
<1>3. QED
  BY <1>1, <1>2

(* RunBegin preserves the inductive invariant.                             *)
LEMMA RunBeginInv ==
  ASSUME IInv, NEW c \in Calls, NEW a \in Agents, NEW p \in Streams \cup {None},
     RunBegin(c, a, p)
  PROVE  IInv'
<1> USE CallAssumption, SendCapAssumption, NoneAssumption, ResponseFacts
       DEF IInv, TypeOK, RunBegin, registry, streamVars, callVars
<1>1. TypeOK'
  BY DEF Phases, PCs, Frames, CallsConsistent, InFlight
<1>2. WaitersOwned'
  BY DEF WaitersOwned, RegistryLive, StreamsConsistent, CallsConsistent, InFlight
<1>3. NeverStranded'
  BY DEF NeverStranded, CallsConsistent, WaitersOwned, InFlight
<1>4. AnswersFromBoundStream'
  BY DEF AnswersFromBoundStream, FromBoundStream, WaitersOwned, CallsConsistent,
     InFlight
<1>5. CallsConsistent'
  BY DEF CallsConsistent, InFlight, WaitersOwned
<1>6. RegistryLive' /\ StreamsConsistent'
  BY DEF RegistryLive, StreamsConsistent
<1>7. QED
  BY <1>1, <1>2, <1>3, <1>4, <1>5, <1>6

(* RunPreCanceled preserves the inductive invariant.                       *)
LEMMA RunPreCanceledInv ==
  ASSUME IInv, NEW c \in Calls, RunPreCanceled(c)
  PROVE  IInv'
<1> USE CallAssumption, SendCapAssumption, NoneAssumption, ResponseFacts
       DEF IInv, TypeOK, RunPreCanceled, registry, streamVars, callVars
<1>1. TypeOK'
  BY DEF Phases, PCs, Frames, CallsConsistent, InFlight
<1>2. WaitersOwned'
  BY DEF WaitersOwned, RegistryLive, StreamsConsistent, CallsConsistent, InFlight
<1>3. NeverStranded'
  BY DEF NeverStranded, CallsConsistent, WaitersOwned, InFlight
<1>4. AnswersFromBoundStream'
  BY DEF AnswersFromBoundStream, FromBoundStream, WaitersOwned, CallsConsistent,
     InFlight
<1>5. CallsConsistent'
  BY DEF CallsConsistent, InFlight, WaitersOwned
<1>6. RegistryLive' /\ StreamsConsistent'
  BY DEF RegistryLive, StreamsConsistent
<1>7. QED
  BY <1>1, <1>2, <1>3, <1>4, <1>5, <1>6

(* RunRefused preserves the inductive invariant.                           *)
LEMMA RunRefusedInv ==
  ASSUME IInv, NEW c \in Calls, RunRefused(c)
  PROVE  IInv'
<1> USE CallAssumption, NoneAssumption, ResponseFacts
       DEF IInv, TypeOK, registry, streamVars, callVars
<1>1. PICK e \in Failures :
        e.kind \notin AnswerKinds /\ outcome' = [outcome EXCEPT ![c] = e]
  BY RefusalFacts DEF RunRefused
<1>2. /\ pc[c] = "enter"
      /\ pc' = [pc EXCEPT ![c] = "done"]
      /\ UNCHANGED <<registry, waiters, streamVars, ctxEnded, target, pin, callConn,
         resp>>
  BY DEF RunRefused
<1>3. TypeOK'
  BY <1>1, <1>2 DEF PCs
<1>4. WaitersOwned'
  BY <1>2 DEF WaitersOwned, InFlight
<1>5. NeverStranded'
  BY <1>2 DEF NeverStranded
<1>6. AnswersFromBoundStream'
  BY <1>1, <1>2 DEF AnswersFromBoundStream, FromBoundStream
<1>7. CallsConsistent'
  BY <1>1, <1>2 DEF CallsConsistent, InFlight
<1>8. RegistryLive' /\ StreamsConsistent'
  BY <1>2 DEF RegistryLive, StreamsConsistent
<1>9. QED
  BY <1>3, <1>4, <1>5, <1>6, <1>7, <1>8

(* RunRegister preserves the inductive invariant.                          *)
LEMMA RunRegisterInv ==
  ASSUME IInv, NEW c \in Calls, RunRegister(c)
  PROVE  IInv'
<1> USE CallAssumption, SendCapAssumption, NoneAssumption, ResponseFacts
       DEF IInv, TypeOK, RunRegister, Refusal, registry, streamVars, callVars
<1>1. TypeOK'
  BY DEF Phases, PCs, Frames, CallsConsistent, InFlight
<1>2. WaitersOwned'
  BY DEF WaitersOwned, RegistryLive, StreamsConsistent, CallsConsistent, InFlight
<1>3. NeverStranded'
  <2>1. waiters[CmdOf[c]] = None
    OBVIOUS
  <2>2. ASSUME NEW d \in Calls, pc'[d] \in {"enqueue", "await"}
        PROVE  waiters'[CmdOf[d]] = d \/ resp'[d] # NoResponse
    BY <2>1, <2>2 DEF NeverStranded
  <2>3. QED
    BY <2>2 DEF NeverStranded
<1>4. AnswersFromBoundStream'
  BY DEF AnswersFromBoundStream, FromBoundStream, WaitersOwned, CallsConsistent,
     InFlight
<1>5. CallsConsistent'
  BY DEF CallsConsistent, InFlight, WaitersOwned
<1>6. RegistryLive' /\ StreamsConsistent'
  BY DEF RegistryLive, StreamsConsistent
<1>7. QED
  BY <1>1, <1>2, <1>3, <1>4, <1>5, <1>6

(* RunEnqueue preserves the inductive invariant.                           *)
LEMMA RunEnqueueInv ==
  ASSUME IInv, NEW c \in Calls, RunEnqueue(c)
  PROVE  IInv'
<1> USE CallAssumption, SendCapAssumption, NoneAssumption, ResponseFacts
       DEF IInv, TypeOK, RunEnqueue, Enqueue, registry, streamVars, callVars
<1>1. TypeOK'
  <2>1. callConn[c] \in Streams /\ [kind |-> "run", call |-> c] \in Frames
    BY DEF Frames, CallsConsistent, InFlight
  <2>2. /\ Append(sendCh[callConn[c]], [kind |-> "run", call |-> c]) \in Seq(Frames)
        /\ Len(Append(sendCh[callConn[c]], [kind |-> "run", call |-> c])) <= SendCap
    BY <2>1, QueueFacts
  <2>3. QED
    BY <2>1, <2>2 DEF PCs
<1>2. WaitersOwned'
  BY DEF WaitersOwned, RegistryLive, StreamsConsistent, CallsConsistent, InFlight
<1>3. NeverStranded'
  BY DEF NeverStranded, CallsConsistent, WaitersOwned, InFlight
<1>4. CallsConsistent'
  BY DEF CallsConsistent, InFlight, WaitersOwned
<1>5. RegistryLive' /\ AnswersFromBoundStream' /\ StreamsConsistent'
  BY DEF RegistryLive, AnswersFromBoundStream, StreamsConsistent, FromBoundStream
<1>6. QED
  BY <1>1, <1>2, <1>3, <1>4, <1>5

(* RunDisconnected preserves the inductive invariant.                      *)
LEMMA RunDisconnectedInv ==
  ASSUME IInv, NEW c \in Calls, RunDisconnected(c)
  PROVE  IInv'
<1> USE CallAssumption, SendCapAssumption, NoneAssumption, ResponseFacts
       DEF IInv, TypeOK, RunDisconnected, Leave, registry, streamVars, callVars
<1>1. TypeOK'
  BY DEF Phases, PCs, Frames, CallsConsistent, InFlight
<1>2. WaitersOwned'
  BY DEF WaitersOwned, RegistryLive, StreamsConsistent, CallsConsistent, InFlight
<1>3. NeverStranded'
  BY DEF NeverStranded, CallsConsistent, WaitersOwned, InFlight
<1>4. AnswersFromBoundStream'
  BY DEF AnswersFromBoundStream, FromBoundStream, WaitersOwned, CallsConsistent,
     InFlight
<1>5. CallsConsistent'
  BY DEF CallsConsistent, InFlight, WaitersOwned
<1>6. RegistryLive' /\ StreamsConsistent'
  BY DEF RegistryLive, StreamsConsistent
<1>7. QED
  BY <1>1, <1>2, <1>3, <1>4, <1>5, <1>6

(* RunAbandoned preserves the inductive invariant.                         *)
LEMMA RunAbandonedInv ==
  ASSUME IInv, NEW c \in Calls, RunAbandoned(c)
  PROVE  IInv'
<1> USE CallAssumption, SendCapAssumption, NoneAssumption, ResponseFacts
       DEF IInv, TypeOK, RunAbandoned, Leave, registry, streamVars, callVars
<1>1. TypeOK'
  BY DEF Phases, PCs, Frames, CallsConsistent, InFlight
<1>2. WaitersOwned'
  BY DEF WaitersOwned, RegistryLive, StreamsConsistent, CallsConsistent, InFlight
<1>3. NeverStranded'
  BY DEF NeverStranded, CallsConsistent, WaitersOwned, InFlight
<1>4. AnswersFromBoundStream'
  BY DEF AnswersFromBoundStream, FromBoundStream, WaitersOwned, CallsConsistent,
     InFlight
<1>5. CallsConsistent'
  BY DEF CallsConsistent, InFlight, WaitersOwned
<1>6. RegistryLive' /\ StreamsConsistent'
  BY DEF RegistryLive, StreamsConsistent
<1>7. QED
  BY <1>1, <1>2, <1>3, <1>4, <1>5, <1>6

(* RunAnswered preserves the inductive invariant.                          *)
LEMMA RunAnsweredInv ==
  ASSUME IInv, NEW c \in Calls, RunAnswered(c)
  PROVE  IInv'
<1> USE CallAssumption, SendCapAssumption, NoneAssumption, ResponseFacts
       DEF IInv, TypeOK, RunAnswered, Leave, registry, streamVars, callVars
<1>1. TypeOK'
  <2>1. resp[c] \in Failures \cup Answers
    BY DEF Disconnected, Failures, Failure
  <2>2. QED
    BY <2>1 DEF PCs
<1>2. WaitersOwned'
  BY DEF WaitersOwned, RegistryLive, StreamsConsistent, CallsConsistent, InFlight
<1>3. NeverStranded'
  BY DEF NeverStranded, CallsConsistent, WaitersOwned, InFlight
<1>4. AnswersFromBoundStream'
  BY DEF AnswersFromBoundStream, FromBoundStream, WaitersOwned, CallsConsistent,
     InFlight
<1>5. CallsConsistent'
  BY DEF CallsConsistent, InFlight, WaitersOwned
<1>6. RegistryLive' /\ StreamsConsistent'
  BY DEF RegistryLive, StreamsConsistent
<1>7. QED
  BY <1>1, <1>2, <1>3, <1>4, <1>5, <1>6

(* RunCanceled preserves the inductive invariant.                          *)
LEMMA RunCanceledInv ==
  ASSUME IInv, NEW c \in Calls, RunCanceled(c)
  PROVE  IInv'
<1> USE CallAssumption, SendCapAssumption, NoneAssumption, ResponseFacts
       DEF IInv, TypeOK, RunCanceled, registry, streamVars, callVars
<1>1. TypeOK'
  BY DEF Phases, PCs, Frames, CallsConsistent, InFlight
<1>2. WaitersOwned'
  BY DEF WaitersOwned, RegistryLive, StreamsConsistent, CallsConsistent, InFlight
<1>3. NeverStranded'
  BY DEF NeverStranded, CallsConsistent, WaitersOwned, InFlight
<1>4. CallsConsistent'
  BY DEF CallsConsistent, InFlight, WaitersOwned
<1>5. RegistryLive' /\ AnswersFromBoundStream' /\ StreamsConsistent'
  BY DEF RegistryLive, AnswersFromBoundStream, StreamsConsistent, FromBoundStream
<1>6. QED
  BY <1>1, <1>2, <1>3, <1>4, <1>5

(* CancelEnqueue preserves the inductive invariant.                        *)
LEMMA CancelEnqueueInv ==
  ASSUME IInv, NEW c \in Calls, CancelEnqueue(c)
  PROVE  IInv'
<1> USE CallAssumption, SendCapAssumption, NoneAssumption, ResponseFacts
       DEF IInv, TypeOK, CancelEnqueue, Enqueue, Leave, registry, streamVars, callVars
<1>1. TypeOK'
  <2>1. callConn[c] \in Streams /\ [kind |-> "cancel", call |-> c] \in Frames
    BY DEF Frames, CallsConsistent, InFlight
  <2>2. /\ Append(sendCh[callConn[c]], [kind |-> "cancel", call |-> c]) \in Seq(Frames)
        /\ Len(Append(sendCh[callConn[c]], [kind |-> "cancel", call |-> c])) <= SendCap
    BY <2>1, QueueFacts
  <2>3. QED
    BY <2>1, <2>2 DEF PCs
<1>2. WaitersOwned'
  BY DEF WaitersOwned, RegistryLive, StreamsConsistent, CallsConsistent, InFlight
<1>3. NeverStranded'
  BY DEF NeverStranded, CallsConsistent, WaitersOwned, InFlight
<1>4. AnswersFromBoundStream'
  BY DEF AnswersFromBoundStream, FromBoundStream, WaitersOwned, CallsConsistent,
     InFlight
<1>5. CallsConsistent'
  BY DEF CallsConsistent, InFlight, WaitersOwned
<1>6. RegistryLive' /\ StreamsConsistent'
  BY DEF RegistryLive, StreamsConsistent
<1>7. QED
  BY <1>1, <1>2, <1>3, <1>4, <1>5, <1>6

(* CancelGiveUp preserves the inductive invariant.                         *)
LEMMA CancelGiveUpInv ==
  ASSUME IInv, NEW c \in Calls, CancelGiveUp(c)
  PROVE  IInv'
<1> USE CallAssumption, SendCapAssumption, NoneAssumption, ResponseFacts
       DEF IInv, TypeOK, CancelGiveUp, Leave, registry, streamVars, callVars
<1>1. TypeOK'
  BY DEF Phases, PCs, Frames, CallsConsistent, InFlight
<1>2. WaitersOwned'
  BY DEF WaitersOwned, RegistryLive, StreamsConsistent, CallsConsistent, InFlight
<1>3. NeverStranded'
  BY DEF NeverStranded, CallsConsistent, WaitersOwned, InFlight
<1>4. AnswersFromBoundStream'
  BY DEF AnswersFromBoundStream, FromBoundStream, WaitersOwned, CallsConsistent,
     InFlight
<1>5. CallsConsistent'
  BY DEF CallsConsistent, InFlight, WaitersOwned
<1>6. RegistryLive' /\ StreamsConsistent'
  BY DEF RegistryLive, StreamsConsistent
<1>7. QED
  BY <1>1, <1>2, <1>3, <1>4, <1>5, <1>6

(* RunReturn preserves the inductive invariant.                            *)
LEMMA RunReturnInv ==
  ASSUME IInv, NEW c \in Calls, RunReturn(c)
  PROVE  IInv'
<1> USE CallAssumption, SendCapAssumption, NoneAssumption, ResponseFacts
       DEF IInv, TypeOK, RunReturn, registry, streamVars, callVars
<1>1. TypeOK'
  BY DEF Phases, PCs, Frames, CallsConsistent, InFlight
<1>2. WaitersOwned'
  BY DEF WaitersOwned, RegistryLive, StreamsConsistent, CallsConsistent, InFlight
<1>3. NeverStranded'
  BY DEF NeverStranded, CallsConsistent, WaitersOwned, InFlight
<1>4. AnswersFromBoundStream'
  BY DEF AnswersFromBoundStream, FromBoundStream, WaitersOwned, CallsConsistent,
     InFlight
<1>5. CallsConsistent'
  BY DEF CallsConsistent, InFlight, WaitersOwned
<1>6. RegistryLive' /\ StreamsConsistent'
  BY DEF RegistryLive, StreamsConsistent
<1>7. QED
  BY <1>1, <1>2, <1>3, <1>4, <1>5, <1>6

(* Cancel preserves the inductive invariant.                               *)
LEMMA CancelInv ==
  ASSUME IInv, NEW s \in Streams, NEW c \in Calls, Cancel(s, c)
  PROVE  IInv'
<1> USE CallAssumption, SendCapAssumption, NoneAssumption, ResponseFacts
       DEF IInv, TypeOK, Cancel, Enqueue, registry, streamVars, callVars
<1>1. TypeOK'
  <2>1. s \in Streams /\ [kind |-> "cancel", call |-> c] \in Frames
    BY DEF Frames
  <2>2. /\ Append(sendCh[s], [kind |-> "cancel", call |-> c]) \in Seq(Frames)
        /\ Len(Append(sendCh[s], [kind |-> "cancel", call |-> c])) <= SendCap
    BY <2>1, QueueFacts
  <2>3. QED
    BY <2>1, <2>2
<1>2. /\ RegistryLive'
      /\ WaitersOwned'
      /\ NeverStranded'
      /\ AnswersFromBoundStream'
      /\ StreamsConsistent'
      /\ CallsConsistent'
  BY DEF RegistryLive, WaitersOwned, NeverStranded, AnswersFromBoundStream,
     StreamsConsistent, CallsConsistent, FromBoundStream, InFlight
<1>3. QED
  BY <1>1, <1>2

(* CtxEnd preserves the inductive invariant.                               *)
LEMMA CtxEndInv ==
  ASSUME IInv, NEW c \in Calls, CtxEnd(c)
  PROVE  IInv'
<1> USE CallAssumption, SendCapAssumption, NoneAssumption, ResponseFacts
       DEF IInv, TypeOK, CtxEnd, registry, streamVars, callVars
<1>1. TypeOK'
  BY DEF Phases, PCs, Frames, CallsConsistent, InFlight
<1>2. /\ RegistryLive'
      /\ WaitersOwned'
      /\ NeverStranded'
      /\ AnswersFromBoundStream'
      /\ StreamsConsistent'
      /\ CallsConsistent'
  BY DEF RegistryLive, WaitersOwned, NeverStranded, AnswersFromBoundStream,
     StreamsConsistent, CallsConsistent, FromBoundStream, InFlight
<1>3. QED
  BY <1>1, <1>2

-----------------------------------------------------------------------------
(* The inductive invariant holds initially and every step preserves it.    *)
THEOREM Invariance == Spec => []IInv
<1>1. Init => IInv
  BY CallAssumption, SendCapAssumption, NoneAssumption
  DEF Init, IInv, TypeOK, RegistryLive, WaitersOwned, NeverStranded,
      AnswersFromBoundStream, FromBoundStream, StreamsConsistent, CallsConsistent,
      InFlight, Phases, PCs, NoResponse, AnswerKinds
<1>2. IInv /\ [Next]_vars => IInv'
  <2> SUFFICES ASSUME IInv, [Next]_vars
               PROVE  IInv'
    OBVIOUS
  <2>1. CASE UNCHANGED vars
    BY <2>1
    DEF vars, registry, streamVars, callVars, IInv, TypeOK, RegistryLive, WaitersOwned,
        NeverStranded, AnswersFromBoundStream, FromBoundStream, StreamsConsistent,
        CallsConsistent, InFlight
  <2>2. QED
    BY <2>1, RejectHelloInv, AcceptHelloInv, SenderSendInv, SenderFailInv,
       SenderStopInv, LoopHeadInv, RecvFailInv, RecvHeartbeatInv, RecvAnswerInv,
       CleanupInv, CloseConnInv, BreakInv, RunBeginInv, RunPreCanceledInv,
       RunRefusedInv, RunRegisterInv, RunEnqueueInv, RunDisconnectedInv,
       RunAbandonedInv, RunAnsweredInv, RunCanceledInv, CancelEnqueueInv,
       CancelGiveUpInv, RunReturnInv, CancelInv, CtxEndInv
    DEF Next, StreamStep, CallStep
<1>3. QED
  BY <1>1, <1>2, PTL DEF Spec

(* Every variable of the control server keeps its type, and no send queue  *)
(* exceeds the capacity of its channel.                                    *)
THEOREM TypeCorrect == Spec => []TypeOK
BY Invariance, PTL DEF IInv

(* The registry never routes a command to a closed stream, to one that has *)
(* cleaned up, or to another agent's; a superseded stream's late cleanup   *)
(* leaves its successor registered.                                        *)
THEOREM RoutesToLiveStreams == Spec => []RegistryLive
BY Invariance, PTL DEF IInv

(* No waiter outlives its call or the cleanup of its stream.               *)
THEOREM NoLeakedWaiter == Spec => []WaitersOwned
BY Invariance, PTL DEF IInv

(* A call that waits in run can still be answered or has been.             *)
THEOREM NoStrandedCall == Spec => []NeverStranded
BY Invariance, PTL DEF IInv

(* An answer that run returns came over the stream the call was bound to,  *)
(* the pinned one if there is a pin, and the agent had the command.        *)
THEOREM BoundAnswers == Spec => []AnswersFromBoundStream
BY Invariance, PTL DEF IInv

(* When no two calls share a command ID, as with the runner's random IDs,  *)
(* no call gets the answer to another call's command.                      *)
THEOREM OwnAnswers ==
  ASSUME \A c, d \in Calls : CmdOf[c] = CmdOf[d] => c = d
  PROVE  Spec => []AnswersOwnCommand
<1>1. IInv => AnswersOwnCommand
  <2> SUFFICES ASSUME IInv, NEW c \in Calls, NEW r \in {resp[c], outcome[c]},
                      r.kind \in AnswerKinds
               PROVE  r.of = c
    BY DEF AnswersOwnCommand
  <2>1. FromBoundStream(c, r)
    BY DEF IInv, AnswersFromBoundStream
  <2>2. Disconnected \in Failures
    BY DEF Disconnected, Failure, Failures
  <2>3. r \in {NoResponse} \cup Failures \cup Answers
    BY <2>2 DEF IInv, TypeOK
  <2>4. r.of \in Calls
    BY <2>3, AnsweredFacts
  <2>5. QED
    BY <2>1, <2>4 DEF FromBoundStream
<1>2. QED
  BY <1>1, Invariance, PTL

(* A waiter is removed only by its own call's return, or by its own        *)
(* stream's cleanup, which leaves the call a response.                     *)
THEOREM WaitersAreKept == Spec => WaitersKept
<1>1. ASSUME IInv, [Next]_vars, NEW k \in CommandIDs, NEW c \in Calls,
             waiters[k] = c, waiters'[k] # c
      PROVE  \/ pc[c] = "return"
             \/ phase[callConn[c]] = "cleanup" /\ resp'[c] # NoResponse
  <2> USE NoneAssumption, CallAssumption, <1>1 DEF IInv, TypeOK
  <2>1. ASSUME NEW s \in Streams, Cleanup(s)
        PROVE  phase[callConn[c]] = "cleanup" /\ resp'[c] # NoResponse
    <3>1. waiters[k] \in Waiting(s)
      BY <2>1 DEF Cleanup, Forget
    <3>2. QED
      BY <2>1, <3>1, ResponseFacts DEF Cleanup, Offer, Waiting
  <2>2. ASSUME NEW d \in Calls, RunReturn(d)
        PROVE  pc[c] = "return"
    BY <2>2 DEF RunReturn
  <2>3. ASSUME NEW d \in Calls, RunRegister(d)
        PROVE  FALSE
    <3>1. waiters[CmdOf[d]] = None
      BY <2>3 DEF RunRegister, Refusal
    <3>2. QED
      BY <2>3, <3>1 DEF RunRegister
  <2>4. ASSUME UNCHANGED waiters
        PROVE  FALSE
    BY <2>4
  <2> HIDE DEF IInv, TypeOK
  <2>5. QED
    BY <2>1, <2>2, <2>3, <2>4
    DEF Next, vars, StreamStep, CallStep, RejectHello, AcceptHello, SenderSend,
        SenderFail, SenderStop, LoopHead, RecvFail, RecvHeartbeat, RecvAnswer,
        CloseConn, Break, RunBegin, RunPreCanceled, RunRefused, RunEnqueue,
        RunDisconnected, RunAbandoned, RunAnswered, RunCanceled, CancelEnqueue,
        CancelGiveUp, Cancel, CtxEnd
<1>2. QED
  <2>1. IInv /\ [Next]_vars =>
          [\A k \in CommandIDs : \A c \in Calls : waiters[k] = c /\ waiters'[k] # c =>
             \/ pc[c] = "return"
             \/ phase[callConn[c]] = "cleanup" /\ resp'[c] # NoResponse]_vars
    BY <1>1
  <2>2. QED
    BY <2>1, Invariance, PTL DEF Spec, WaitersKept

(* An answer reaches a call only from the stream that is its agent's       *)
(* current one, and that stream is not closed.                             *)
THEOREM SupersededStaysMute == Spec => SupersededMute
<1>1. ASSUME IInv, [Next]_vars, NEW c \in Calls,
             resp'[c] # resp[c], resp'[c].kind \in AnswerKinds
      PROVE  /\ conns[owner[resp'[c].from]] = resp'[c].from
             /\ resp'[c].from \notin done
  <2> USE NoneAssumption, CallAssumption, ResponseFacts, <1>1 DEF IInv, TypeOK
  <2>1. ASSUME NEW s \in Streams, NEW d \in Calls, RecvAnswer(s, d)
        PROVE  /\ conns[owner[resp'[c].from]] = resp'[c].from
               /\ resp'[c].from \notin done
    <3>1. resp'[c].from = s /\ IsCurrent(s) /\ phase[s] = "recv"
      BY <2>1 DEF RecvAnswer, Offer, Addressee
    <3>2. owner[s] \in Agents
      BY <3>1 DEF StreamsConsistent
    <3>3. QED
      BY <3>1, <3>2 DEF IsCurrent, RegistryLive
  <2>2. ASSUME NEW s \in Streams, Cleanup(s)
        PROVE  FALSE
    BY <2>2 DEF Cleanup, Offer
  <2>3. ASSUME NEW d \in Calls, RunAnswered(d) \/ RunReturn(d)
        PROVE  FALSE
    BY <2>3 DEF RunAnswered, RunReturn
  <2>4. ASSUME UNCHANGED resp
        PROVE  FALSE
    BY <2>4
  <2> HIDE DEF IInv, TypeOK
  <2>5. QED
    BY <2>1, <2>2, <2>3, <2>4
    DEF Next, vars, StreamStep, CallStep, callVars, RejectHello, AcceptHello,
        SenderSend, SenderFail, SenderStop, LoopHead, RecvFail, RecvHeartbeat,
        CloseConn, Break, RunBegin, RunPreCanceled, RunRefused, RunRegister,
        RunEnqueue, RunDisconnected, RunAbandoned, RunCanceled, CancelEnqueue,
        CancelGiveUp, Cancel, CtxEnd
<1>2. QED
  <2>1. IInv /\ [Next]_vars =>
          [\A c \in Calls : resp'[c] # resp[c] /\ resp'[c].kind \in AnswerKinds =>
             /\ conns[owner[resp'[c].from]] = resp'[c].from
             /\ resp'[c].from \notin done]_vars
    BY <1>1
  <2>2. QED
    BY <2>1, Invariance, PTL DEF Spec, SupersededMute

-----------------------------------------------------------------------------
(* The refinement of CallContract                                          *)

(* A run frame waits only in the queue of the stream its call is bound to. *)
RunFramesBound ==
  \A s \in Streams : \A i \in 1 .. Len(sendCh[s]) :
    sendCh[s][i].kind = "run" => callConn[sendCh[s][i].call] = s

(* What is in a queue after a frame was taken off or put into it.          *)
LEMMA QueuedFacts ==
  ASSUME NEW q \in Seq(Frames)
  PROVE  /\ \A i \in 1 .. Len(q) : q[i] \in Frames
         /\ q # <<>> => /\ Head(q) = q[1] /\ 1 \in 1 .. Len(q)
                        /\ \A i \in 1 .. Len(Tail(q)) : Tail(q)[i] = q[i + 1] /\ i + 1 \in 1 .. Len(q)
         /\ \A f \in Frames : \A i \in 1 .. Len(Append(q, f)) :
              Append(q, f)[i] = f \/ (i \in 1 .. Len(q) /\ Append(q, f)[i] = q[i])
OBVIOUS

(* Every frame that a queue gains or keeps is bound as it was.             *)
LEMMA FramesKept ==
  ASSUME IInv, RunFramesBound,
         NEW t \in Streams,
         \/ UNCHANGED sendCh
         \/ sendCh[t] # <<>> /\ sendCh' = [sendCh EXCEPT ![t] = Tail(@)]
         \/ \E f \in Frames : /\ f.kind = "run" => callConn[f.call] = t
                              /\ sendCh' = [sendCh EXCEPT ![t] = Append(@, f)],
         \A c \in Calls : callConn[c] # None => callConn'[c] = callConn[c]
  PROVE  RunFramesBound'
<1>. SUFFICES ASSUME NEW s \in Streams, NEW i \in 1 .. Len(sendCh'[s]),
                     sendCh'[s][i].kind = "run"
              PROVE  callConn'[sendCh'[s][i].call] = s
  BY DEF RunFramesBound
<1>1. sendCh[s] \in Seq(Frames) /\ s # None /\ sendCh \in [Streams -> Seq(Frames)]
  BY NoneAssumption DEF IInv, TypeOK
<1>2. CASE \E j \in 1 .. Len(sendCh[s]) : sendCh'[s][i] = sendCh[s][j]
  <2>1. PICK j \in 1 .. Len(sendCh[s]) : sendCh'[s][i] = sendCh[s][j]
    BY <1>2
  <2>2. sendCh[s][j] \in Frames
    BY <1>1, QueuedFacts
  <2>. QED BY <1>1, <2>1, <2>2 DEF RunFramesBound, Frames
<1>3. CASE sendCh'[s] = sendCh[s]
  BY <1>2, <1>3
<1>4. CASE s = t /\ sendCh[t] # <<>> /\ sendCh'[t] = Tail(sendCh[t])
  BY <1>1, <1>2, <1>4, QueuedFacts
<1>5. ASSUME NEW f \in Frames, f.kind = "run" => callConn[f.call] = t,
             s = t, sendCh'[t] = Append(sendCh[t], f)
      PROVE  callConn'[sendCh'[s][i].call] = s
  <2>1. CASE sendCh'[s][i] = f
    BY <1>1, <1>5, <2>1 DEF Frames
  <2>. QED BY <1>1, <1>2, <1>5, <2>1, QueuedFacts
<1>. QED BY <1>1, <1>3, <1>4, <1>5

(* No step but the registration binds a call, and it binds an unbound one. *)
LEMMA BindingsKept ==
  ASSUME IInv, [Next]_vars
  PROVE  \A c \in Calls : callConn[c] # None => callConn'[c] = callConn[c]
<1>1. ASSUME NEW d \in Calls, RunRegister(d)
      PROVE  \A c \in Calls : callConn[c] # None => callConn'[c] = callConn[c]
  BY <1>1 DEF RunRegister, IInv, TypeOK, CallsConsistent
<1>2. ASSUME UNCHANGED callConn
      PROVE  \A c \in Calls : callConn[c] # None => callConn'[c] = callConn[c]
  BY <1>2
<1>. QED BY <1>1, <1>2
  DEF Next, vars, StreamStep, CallStep, callVars, RejectHello, AcceptHello, SenderSend,
      SenderFail, SenderStop, LoopHead, RecvFail, RecvHeartbeat, RecvAnswer, Cleanup,
      CloseConn, Break, RunBegin, RunPreCanceled, RunRefused, RunEnqueue,
      RunDisconnected, RunAbandoned, RunAnswered, RunCanceled, CancelEnqueue,
      CancelGiveUp, RunReturn, Cancel, CtxEnd

(* The binding of queued frames is invariant.                              *)
LEMMA FramesBoundInv ==
  ASSUME IInv, RunFramesBound, [Next]_vars
  PROVE  RunFramesBound'
<1>1. \A c \in Calls : callConn[c] # None => callConn'[c] = callConn[c]
  BY BindingsKept
<1>2. ASSUME NEW t \in Streams, SenderSend(t) \/ SenderFail(t)
      PROVE  RunFramesBound'
  <2>1. \/ UNCHANGED sendCh
        \/ sendCh[t] # <<>> /\ sendCh' = [sendCh EXCEPT ![t] = Tail(@)]
    BY <1>2 DEF SenderSend, SenderFail
  <2>. QED BY <1>1, <2>1, FramesKept
<1>3. ASSUME UNCHANGED sendCh
      PROVE  RunFramesBound'
  <2>. SUFFICES ASSUME NEW s \in Streams, NEW i \in 1 .. Len(sendCh[s]),
                       sendCh[s][i].kind = "run"
                PROVE  callConn'[sendCh[s][i].call] = s
    BY <1>3 DEF RunFramesBound
  <2>1. sendCh[s][i] \in Frames /\ s # None
    BY QueuedFacts, NoneAssumption DEF IInv, TypeOK
  <2>. QED BY <1>1, <2>1 DEF RunFramesBound, Frames
<1>4. ASSUME NEW c \in Calls, NEW t \in Streams,
             \/ callConn[c] = t /\ (RunEnqueue(c) \/ CancelEnqueue(c))
             \/ Cancel(t, c)
      PROVE  RunFramesBound'
  <2>1. /\ [kind |-> "run", call |-> c] \in Frames /\ [kind |-> "cancel", call |-> c] \in Frames
        /\ [kind |-> "cancel", call |-> c].kind # "run"
    BY DEF Frames
  <2>2. \E f \in Frames : /\ f.kind = "run" => callConn[f.call] = t
                          /\ sendCh' = [sendCh EXCEPT ![t] = Append(@, f)]
    BY <1>4, <2>1 DEF RunEnqueue, CancelEnqueue, Cancel, Enqueue
  <2>. QED BY <1>1, <2>2, FramesKept
<1>5. ASSUME NEW c \in Calls, RunEnqueue(c) \/ CancelEnqueue(c)
      PROVE  RunFramesBound'
  <2>1. callConn[c] \in Streams
    BY <1>5 DEF RunEnqueue, CancelEnqueue, IInv, TypeOK, CallsConsistent, InFlight
  <2>. QED BY <1>4, <1>5, <2>1
<1>. QED BY <1>2, <1>3, <1>4, <1>5
  DEF Next, vars, StreamStep, CallStep, streamVars, RejectHello, AcceptHello,
      SenderStop, LoopHead, RecvFail, RecvHeartbeat, RecvAnswer, Cleanup,
      CloseConn, Break, RunBegin, RunPreCanceled, RunRefused, RunRegister,
      RunDisconnected, RunAbandoned, RunAnswered, RunCanceled,
      CancelGiveUp, RunReturn, CtxEnd

(* The contract's view of a call that moves, and of one that returns.      *)
LEMMA StageMoves ==
  ASSUME TypeOK, NEW c \in Calls, NEW p, pc' = [pc EXCEPT ![c] = p]
  PROVE  /\ Stage' = [Stage EXCEPT ![c] = StageOf(p)]
         /\ StageOf(p) = StageOf(pc[c]) => Stage' = Stage
         /\ Stage[c] = StageOf(pc[c])
BY DEF Stage, TypeOK

LEMMA VerdictMoves ==
  ASSUME NEW c \in Calls, \A d \in Calls \ {c} : outcome'[d] = outcome[d]
  PROVE  Verdict' = [Verdict EXCEPT ![c] = VerdictOf(outcome'[c])]
BY DEF Verdict

(* A response that is not an answer counts as a failure.                   *)
LEMMA FailureFacts ==
  \A r : r # NoResponse /\ r.kind \notin AnswerKinds => VerdictOf(r) = Contract!Failed
BY DEF VerdictOf, Contract!Failed

(* A call that is not closed yet ends with a failure.                      *)
LEMMA FailsInContract ==
  ASSUME TypeOK, NEW c \in Calls, NEW p \in {"return", "done"},
         pc[c] \in {"idle", "enter", "enqueue", "await", "cancel"},
         pc' = [pc EXCEPT ![c] = p], \A d \in Calls \ {c} : outcome'[d] = outcome[d],
         outcome'[c] # NoResponse, outcome'[c].kind \notin AnswerKinds, UNCHANGED <<callConn, received>>
  PROVE  Contract!Fail(c)
<1>1. StageOf(p) = "closed" /\ Stage[c] # "closed"
  <2>1. Stage[c] = StageOf(pc[c])
    BY DEF Stage
  <2>2. StageOf(pc[c]) \in {"new", "open"}
    BY DEF StageOf
  <2>3. StageOf(p) = "closed"
    BY DEF StageOf
  <2>. QED BY <2>1, <2>2, <2>3
<1>2. Stage' = [Stage EXCEPT ![c] = "closed"]
  BY <1>1 DEF Stage, TypeOK
<1>3. VerdictOf(outcome'[c]) = Contract!Failed
  BY FailureFacts
<1>4. Verdict' = [Verdict EXCEPT ![c] = Contract!Failed]
  BY <1>3, VerdictMoves
<1>. QED BY <1>1, <1>2, <1>4 DEF Contract!Fail

(* A step that the contract does not see.                                  *)
LEMMA StutterInContract ==
  ASSUME TypeOK,
         UNCHANGED <<callConn, received, outcome>>,
         \/ UNCHANGED pc
         \/ \E c \in Calls, p \in PCs : /\ StageOf(p) = StageOf(pc[c])
                                        /\ pc' = [pc EXCEPT ![c] = p]
  PROVE  UNCHANGED Contract!vars
<1>1. Verdict' = Verdict
  BY DEF Verdict
<1>2. Stage' = Stage
  <2>1. CASE UNCHANGED pc
    BY <2>1 DEF Stage
  <2>. QED BY <2>1, StageMoves
<1>. QED BY <1>1, <1>2 DEF Contract!vars

(* Every step of the server is a step of the contract, or none.            *)
LEMMA StepInContract ==
  ASSUME IInv, RunFramesBound, [Next]_vars
  PROVE  [Contract!Next]_(Contract!vars)
<1> USE DEF IInv
<1> DEFINE Kept == UNCHANGED Contract!vars
<1>1. ASSUME NEW s \in Streams, SenderSend(s)
      PROVE  [Contract!Next]_(Contract!vars)
  <2>1. Head(sendCh[s]) \in Frames /\ Head(sendCh[s]) = sendCh[s][1] /\ 1 \in 1 .. Len(sendCh[s])
    BY <1>1, QueuedFacts DEF SenderSend, TypeOK
  <2>2. Stage' = Stage /\ Verdict' = Verdict
    BY <1>1 DEF SenderSend, callVars, Stage, Verdict
  <2>3. CASE Head(sendCh[s]).kind = "run"
    <3>1. PICK c \in Calls : Head(sendCh[s]) = [kind |-> "run", call |-> c]
      BY <2>1, <2>3 DEF Frames
    <3>2. {d \in Calls : Head(sendCh[s]) = [kind |-> "run", call |-> d]} = {c}
      BY <3>1
    <3>3. callConn[c] = s
      BY <2>1, <3>1 DEF RunFramesBound
    <3>4. Contract!Hear(c, s)
      BY <1>1, <2>2, <3>2, <3>3 DEF SenderSend, callVars, Contract!Hear
    <3>. QED BY <3>4 DEF Contract!Next
  <2>4. CASE Head(sendCh[s]).kind # "run"
    <3>1. {d \in Calls : Head(sendCh[s]) = [kind |-> "run", call |-> d]} = {}
      BY <2>4
    <3>2. received' = received
      BY <1>1, <3>1 DEF SenderSend, TypeOK
    <3>. QED BY <1>1, <2>2, <3>2 DEF SenderSend, callVars, Contract!vars
  <2>. QED BY <2>3, <2>4
<1>2. ASSUME NEW c \in Calls, RunRegister(c)
      PROVE  [Contract!Next]_(Contract!vars)
  <2>1. conns[target[c]] \in Streams
    BY <1>2 DEF RunRegister, Refusal, TypeOK, CallsConsistent
  <2>2. StageOf(pc[c]) = "new" /\ StageOf("enqueue") = "open"
    BY <1>2 DEF RunRegister, StageOf
  <2>3. Verdict' = Verdict
    BY <1>2 DEF RunRegister, Verdict
  <2>4. Contract!Open(c, conns[target[c]])
    BY <1>2, <2>2, <2>3, StageMoves DEF RunRegister, streamVars, Contract!Open
  <2>. QED BY <2>1, <2>4 DEF Contract!Next
<1>3. ASSUME NEW c \in Calls, RunAnswered(c)
      PROVE  [Contract!Next]_(Contract!vars)
  <2>1. StageOf(pc[c]) = "open" /\ StageOf("return") = "closed"
    BY <1>3 DEF RunAnswered, StageOf
  <2>2. CASE resp[c].kind \notin AnswerKinds
    <3>1. /\ pc[c] \in {"idle", "enter", "enqueue", "await", "cancel"} 
          /\ pc' = [pc EXCEPT ![c] = "return"] /\ UNCHANGED <<callConn, received>>
          /\ \A d \in Calls \ {c} : outcome'[d] = outcome[d]
          /\ outcome'[c] # NoResponse /\ outcome'[c].kind \notin AnswerKinds
      BY <1>3, <2>2 DEF RunAnswered, Leave, streamVars, TypeOK
    <3>2. Contract!Fail(c)
      BY <3>1, FailsInContract
    <3>. QED BY <3>2 DEF Contract!Next
  <2>3. CASE resp[c].kind \in AnswerKinds
    <3>1. resp[c] \in {NoResponse} \cup Failures \cup Answers
      BY <2>3, ResponseFacts DEF TypeOK
    <3>2. resp[c].of \in Calls /\ resp[c].from \in Streams
      BY <2>3, <3>1, AnsweredFacts
    <3>3. FromBoundStream(c, resp[c])
      BY DEF AnswersFromBoundStream
    <3>4. VerdictOf(resp[c]) = [kind |-> "answered", of |-> resp[c].of]
      BY <2>3 DEF VerdictOf
    <3>5. Stage[c] = "open" /\ Stage' = [Stage EXCEPT ![c] = "closed"]
      BY <1>3, <2>1, StageMoves DEF RunAnswered, Leave
    <3>6. Verdict' = [Verdict EXCEPT ![c] = [kind |-> "answered", of |-> resp[c].of]]
      BY <1>3, <3>4, VerdictMoves DEF RunAnswered, Leave, TypeOK
    <3>7. /\ resp[c].from = callConn[c] /\ resp[c].of \in received[resp[c].from]
          /\ CmdOf[resp[c].of] = CmdOf[c]
      BY <2>3, <3>3 DEF FromBoundStream
    <3>8. Contract!Answer(c, resp[c].from)
      BY <1>3, <3>5, <3>6, <3>7 DEF RunAnswered, streamVars, Contract!Answer
    <3>. QED BY <3>2, <3>8 DEF Contract!Next
  <2>. QED BY <2>2, <2>3
<1>4. ASSUME NEW c \in Calls,
             \/ RunPreCanceled(c) \/ RunRefused(c) \/ RunDisconnected(c)
             \/ RunAbandoned(c) \/ CancelEnqueue(c) \/ CancelGiveUp(c)
      PROVE  [Contract!Next]_(Contract!vars)
  <2>1. \A k \in {"context", "disconnected"} : Failure(k) # NoResponse
    BY DEF Failure, NoResponse
  <2>2. CASE RunRefused(c)
    <3>1. Failure(Refusal(c)) # NoResponse /\ Failure(Refusal(c)).kind \notin AnswerKinds
      <4>1. Refusal(c) \in {"not connected", "replaced", "running", "context"}
        BY <2>2 DEF RunRefused, Refusal
      <4>. QED BY <4>1 DEF Failure, NoResponse, AnswerKinds
    <3>2. Contract!Fail(c)
      BY <2>2, <3>1, FailsInContract DEF RunRefused, streamVars, TypeOK
    <3>. QED BY <3>2 DEF Contract!Next
  <2>3. CASE \/ RunPreCanceled(c) \/ RunDisconnected(c)
             \/ RunAbandoned(c) \/ CancelEnqueue(c) \/ CancelGiveUp(c)
    <3>1. Contract!Fail(c)
      BY <2>1, <2>3, ResponseFacts, FailsInContract
      DEF RunPreCanceled, RunDisconnected, RunAbandoned, CancelEnqueue, CancelGiveUp, Leave,
          streamVars, TypeOK
    <3>. QED BY <3>1 DEF Contract!Next
  <2>. QED BY <1>4, <2>2, <2>3
<1>5. ASSUME NEW c \in Calls,
             \/ \E a \in Agents, p \in Streams \cup {None} : RunBegin(c, a, p)
             \/ RunEnqueue(c) \/ RunCanceled(c) \/ RunReturn(c)
      PROVE  Kept
  <2>1. \E p \in PCs : StageOf(p) = StageOf(pc[c]) /\ pc' = [pc EXCEPT ![c] = p]
    BY <1>5 DEF RunBegin, RunEnqueue, RunCanceled, RunReturn, StageOf, PCs
  <2>2. UNCHANGED <<callConn, received, outcome>>
    BY <1>5 DEF RunBegin, RunEnqueue, RunCanceled, RunReturn, streamVars
  <2>. QED BY <2>1, <2>2, StutterInContract
<1>6. ASSUME UNCHANGED <<callConn, received, outcome, pc>>
      PROVE  Kept
  BY <1>6, StutterInContract
<1>7. ASSUME NEW s \in Streams,
             \/ RejectHello(s) \/ SenderFail(s) \/ SenderStop(s) \/ LoopHead(s) \/ RecvFail(s)
             \/ RecvHeartbeat(s) \/ Cleanup(s) \/ CloseConn(s) \/ Break(s)
             \/ \E a \in Agents : AcceptHello(s, a)
             \/ \E c \in Calls : RecvAnswer(s, c) \/ Cancel(s, c)
      PROVE  Kept
  <2>1. UNCHANGED <<callConn, received, outcome, pc>>
    BY <1>7 DEF RejectHello, SenderFail, SenderStop, LoopHead, RecvFail, RecvHeartbeat, Cleanup,
       CloseConn, Break, AcceptHello, RecvAnswer, Cancel, callVars
  <2>. QED BY <1>6, <2>1
<1>8. ASSUME NEW c \in Calls, CtxEnd(c)
      PROVE  Kept
  BY <1>6, <1>8 DEF CtxEnd, streamVars
<1>9. ASSUME UNCHANGED vars
      PROVE  Kept
  BY <1>6, <1>9 DEF vars, callVars, streamVars
<1>. HIDE DEF IInv
<1>. QED BY <1>1, <1>2, <1>3, <1>4, <1>5, <1>7, <1>8, <1>9 DEF Next, StreamStep, CallStep

(* The server keeps the contract of Run and RunPinned step by step: every  *)
(* call is bound to one stream at most, ends once, and ends with a failure *)
(* or with what the agent answered to it on that stream.                   *)
THEOREM RefinesContract == Spec => KeepsContract
<1>1. Init => Contract!Init /\ RunFramesBound
  <2>1. ASSUME Init PROVE RunFramesBound
    BY <2>1 DEF Init, RunFramesBound
  <2>2. ASSUME Init PROVE Contract!Init
    <3>1. StageOf("idle") = "new" /\ VerdictOf(NoResponse) = Contract!NoVerdict
      BY ResponseFacts DEF StageOf, VerdictOf, Contract!NoVerdict
    <3>. QED BY <2>2, <3>1 DEF Init, Contract!Init, Stage, Verdict
  <2>. QED BY <2>1, <2>2
<1>2. Spec => []RunFramesBound
  <2>1. IInv /\ RunFramesBound /\ [Next]_vars => RunFramesBound'
    BY FramesBoundInv
  <2>. QED BY <1>1, <2>1, Invariance, PTL DEF Spec
<1>3. IInv /\ RunFramesBound /\ [Next]_vars => [Contract!Next]_(Contract!vars)
  BY StepInContract
<1>. QED BY <1>1, <1>2, <1>3, Invariance, PTL DEF Spec, KeepsContract, Contract!Spec
=============================================================================

----------------------- MODULE ControllerInstanceProofs ----------------------
(***************************************************************************)
(* The parts of MCController: every behaviour of one of them is a          *)
(* behaviour that ControllerProofs or ControlServerProofs speaks about, so *)
(* their theorems give the properties of the instance.                     *)
(***************************************************************************)
EXTENDS MCController, FiniteSetTheorems, TLAPS

(* The theorems about the parts of the controller, for this instance.      *)
P ==
  INSTANCE ControllerProofs
  WITH Targets <- <<"d1", "d2">>, MaxAttempts <- 3, ReadyCap <- 2, MaxJoins <- 5,
       step <- v1, attempt <- v2, started <- v3, reversed <- v4, err <- v5, serving <- v6,
       rules <- v7, leaked <- v8, infos <- v9, announcing <- v10, ready <- v11, joins <- v12,
       Agents <- {"a1", "a2"}, Capacity <- 1, MaxReports <- 1, MaxPlans <- 2, MaxRuns <- 2,
       MaxSteps <- 0, MaxControls <- 2,
       phase <- v1, loading <- v2, compiled <- v3, source <- v4, selected <- v5,
       rerunReview <- v6, active <- v7, shown <- v8, pauseAcks <- v9, globalControl <- v10,
       runs <- v11, review <- v12, ui <- v13, reader <- v14, message <- v15, run <- v16,
       paused <- v17, eventMu <- v18, waiting <- v19, loads <- v20, begun <- v21,
       controls <- v22,
       Networks <- <<"t1">>, Checks <- <<"c1", "c2">>, Name <- [c \in {"c1", "c2"} |-> "ping"],
       MaxRound <- 3, MaxHistory <- 9, HotspotWindow <- 1, IntMax <- 1048575, UintMax <- 2097151,
       cursor <- v1, owed <- v2, reported <- v3, clock <- v4, round <- v5, roundStatus <- v6,
       display <- v7, targets <- v8, progress <- v9, passing <- v10, failed <- v11

(* The dashboard of the instance has one agent.                            *)
Q ==
  INSTANCE ControllerProofs
  WITH Targets <- <<"d1", "d2">>, MaxAttempts <- 3, ReadyCap <- 2, MaxJoins <- 5,
       step <- v1, attempt <- v2, started <- v3, reversed <- v4, err <- v5, serving <- v6,
       rules <- v7, leaked <- v8, infos <- v9, announcing <- v10, ready <- v11, joins <- v12,
       Agents <- {"a1"}, Capacity <- 1, MaxReports <- 1, MaxPlans <- 2, MaxRuns <- 2,
       MaxSteps <- 0, MaxControls <- 2,
       phase <- v1, loading <- v2, compiled <- v3, source <- v4, selected <- v5,
       rerunReview <- v6, active <- v7, shown <- v8, pauseAcks <- v9, globalControl <- v10,
       runs <- v11, review <- v12, ui <- v13, reader <- v14, message <- v15, run <- v16,
       paused <- v17, eventMu <- v18, waiting <- v19, loads <- v20, begun <- v21,
       controls <- v22,
       Networks <- <<"t1">>, Checks <- <<"c1", "c2">>, Name <- [c \in {"c1", "c2"} |-> "ping"],
       MaxRound <- 3, MaxHistory <- 9, HotspotWindow <- 1, IntMax <- 1048575, UintMax <- 2097151,
       cursor <- v1, owed <- v2, reported <- v3, clock <- v4, round <- v5, roundStatus <- v6,
       display <- v7, targets <- v8, progress <- v9, passing <- v10, failed <- v11

(* The theorems about the control server, for this instance.               *)
R ==
  INSTANCE ControlServerProofs
  WITH Agents <- {"a1"}, Streams <- Incarnations, Calls <- Callers, CommandIDs <- {"k1"},
       CmdOf <- [c \in Callers |-> "k1"], CancelCalls <- {}, SendCap <- 1, None <- "none",
       conns <- v1, infos <- v2, waiters <- v3, owner <- v4, phase <- v5, done <- v6,
       sendCh <- v7, sendDone <- v8, broken <- v9, received <- v10, pc <- v11, ctxEnded <- v12,
       target <- v13, pin <- v14, callConn <- v15, resp <- v16, outcome <- v17

(* The same module with the same values is the same: Dial and Flow of      *)
(* MCController are those of ControllerProofs.                             *)
LEMMA DialAsProved ==
  /\ Dial!Init => P!Dial!Init
  /\ Dial!Next => P!Dial!Next
  /\ P!Dial!RulesReleased => Dial!RulesReleased
  /\ P!Dial!NoMissedAgent => Dial!NoMissedAgent
BY Zenon DEF Dial!Announce, Dial!Cardinality, Dial!CloseRunning, Dial!Disconnect, Dial!Due,
             Dial!Fail, Dial!Finished, Dial!Init, Dial!Listen, Dial!Next, Dial!NoMissedAgent,
             Dial!Push, Dial!Register, Dial!RemoveReverses, Dial!Retries, Dial!Retry,
             Dial!Reverse, Dial!Rule, Dial!RulesReleased, Dial!Serials, Dial!Start,
             Dial!StartAgentSession, Dial!StopServer, Dial!WaitCheck, Dial!WaitSelect,
             Dial!WaitTimeout, Dial!WaitWake, Dial!net, Dial!vars, P!Dial!Announce,
             P!Dial!Cardinality, P!Dial!CloseRunning, P!Dial!Disconnect, P!Dial!Due, P!Dial!Fail,
             P!Dial!Finished, P!Dial!Init, P!Dial!Listen, P!Dial!Next, P!Dial!NoMissedAgent,
             P!Dial!Push, P!Dial!Register, P!Dial!RemoveReverses, P!Dial!Retries, P!Dial!Retry,
             P!Dial!Reverse, P!Dial!Rule, P!Dial!RulesReleased, P!Dial!Serials, P!Dial!Start,
             P!Dial!StartAgentSession, P!Dial!StopServer, P!Dial!WaitCheck, P!Dial!WaitSelect,
             P!Dial!WaitTimeout, P!Dial!WaitWake, P!Dial!net, P!Dial!vars

LEMMA FlowAsProved ==
  /\ Flow!Init => P!Flow!Init
  /\ Flow!Next => P!Flow!Next
  /\ P!Flow!RetainedComplete => Flow!RetainedComplete
BY Zenon DEF Flow!AcksAfter, Flow!AgentEnd, Flow!AgentPark, Flow!AgentResume, Flow!AgentStep,
             Flow!ApplyEvent, Flow!ApplyFinished, Flow!Bound, Flow!Closed, Flow!Control,
             Flow!Deliver, Flow!DeliveryFails, Flow!Emission, Flow!Emitting, Flow!ExecuteReturns,
             Flow!Exit, Flow!Feeding, Flow!GlobalAfter, Flow!Idle, Flow!Init, Flow!Keys,
             Flow!LoadEnter, Flow!LoadEsc, Flow!Loaded, Flow!Lock, Flow!Next, Flow!None,
             Flow!PausedFor, Flow!PreviewEnter, Flow!PreviewEsc, Flow!Publish, Flow!Read,
             Flow!Retained, Flow!RetainedComplete, Flow!Return, Flow!ReviewEdit, Flow!ReviewMove,
             Flow!ReviewOpen, Flow!ReviewRerun, Flow!RunFinished, Flow!Running, Flow!Screens,
             Flow!SelectEnter, Flow!SendOnClosed, Flow!SetCompiled, Flow!StopKey, Flow!Unlock,
             Flow!Want, Flow!Working, Flow!bounds, Flow!feed, Flow!model, Flow!work,
             P!Flow!AcksAfter, P!Flow!AgentEnd, P!Flow!AgentPark, P!Flow!AgentResume,
             P!Flow!AgentStep, P!Flow!ApplyEvent, P!Flow!ApplyFinished, P!Flow!Bound,
             P!Flow!Closed, P!Flow!Control, P!Flow!Deliver, P!Flow!DeliveryFails, P!Flow!Emission,
             P!Flow!Emitting, P!Flow!ExecuteReturns, P!Flow!Exit, P!Flow!Feeding,
             P!Flow!GlobalAfter, P!Flow!Idle, P!Flow!Init, P!Flow!Keys, P!Flow!LoadEnter,
             P!Flow!LoadEsc, P!Flow!Loaded, P!Flow!Lock, P!Flow!Next, P!Flow!None,
             P!Flow!PausedFor, P!Flow!PreviewEnter, P!Flow!PreviewEsc, P!Flow!Publish,
             P!Flow!Read, P!Flow!Retained, P!Flow!RetainedComplete, P!Flow!Return,
             P!Flow!ReviewEdit, P!Flow!ReviewMove, P!Flow!ReviewOpen, P!Flow!ReviewRerun,
             P!Flow!RunFinished, P!Flow!Running, P!Flow!Screens, P!Flow!SelectEnter,
             P!Flow!SendOnClosed, P!Flow!SetCompiled, P!Flow!StopKey, P!Flow!Unlock, P!Flow!Want,
             P!Flow!Working, P!Flow!bounds, P!Flow!feed, P!Flow!model, P!Flow!work

LEMMA BoardAsProved ==
  /\ Board!Init => Q!Board!Init
  /\ Board!Next => Q!Board!Next
  /\ Q!Board!RoundAgrees => Board!RoundAgrees
  /\ Q!Board!RoundSettled => Board!RoundSettled
  /\ Q!Board!CurrentIsAt => Board!CurrentIsAt
  /\ Q!Board!CellsCount => Board!CellsCount
BY Zenon DEF Board!AddFailedCheck, Board!AtCheck, Board!CellsCount, Board!CheckAt,
             Board!CheckStatusAggregate, Board!CheckStatusForTarget, Board!CheckStatusTargetCell,
             Board!CurrentCheckStatus, Board!CurrentIsAt, Board!CurrentTargets, Board!Ended,
             Board!FilterOutcomeEvents, Board!Finding, Board!Fresh, Board!Init, Board!Item,
             Board!Next, Board!NoFinding, Board!Outcome, Board!OutcomeEvent, Board!OutcomeEvents,
             Board!Outcomes, Board!PassingCheckKey, Board!Ready, Board!RecordPassingCheck,
             Board!RemovePassingCheck, Board!Result, Board!RoundAgrees, Board!RoundFinished,
             Board!RoundSettled, Board!RoundStarted, Board!Shown, Board!Start, Board!StepFinished,
             Board!StepStarted, Board!TargetAt, Board!TargetCount, Board!TargetFinished,
             Board!TargetStarted, Board!Trim, Board!Update, Board!Worst, Board!outcomeStatus,
             Board!run, Board!screen, Board!upsertStep, Board!vars, Q!Board!AddFailedCheck,
             Q!Board!AtCheck, Q!Board!CellsCount, Q!Board!CheckAt, Q!Board!CheckStatusAggregate,
             Q!Board!CheckStatusForTarget, Q!Board!CheckStatusTargetCell,
             Q!Board!CurrentCheckStatus, Q!Board!CurrentIsAt, Q!Board!CurrentTargets,
             Q!Board!Ended, Q!Board!FilterOutcomeEvents, Q!Board!Finding, Q!Board!Fresh,
             Q!Board!Init, Q!Board!Item, Q!Board!Next, Q!Board!NoFinding, Q!Board!Outcome,
             Q!Board!OutcomeEvent, Q!Board!OutcomeEvents, Q!Board!Outcomes,
             Q!Board!PassingCheckKey, Q!Board!Ready, Q!Board!RecordPassingCheck,
             Q!Board!RemovePassingCheck, Q!Board!Result, Q!Board!RoundAgrees,
             Q!Board!RoundFinished, Q!Board!RoundSettled, Q!Board!RoundStarted, Q!Board!Shown,
             Q!Board!Start, Q!Board!StepFinished, Q!Board!StepStarted, Q!Board!TargetAt,
             Q!Board!TargetCount, Q!Board!TargetFinished, Q!Board!TargetStarted, Q!Board!Trim,
             Q!Board!Update, Q!Board!Worst, Q!Board!outcomeStatus, Q!Board!run, Q!Board!screen,
             Q!Board!upsertStep, Q!Board!vars, Board!Max, Board!Min, Board!Range,
             Board!Cardinality, Board!Last, Q!Board!Max, Q!Board!Min, Q!Board!Range,
             Q!Board!Cardinality, Q!Board!Last

(* And so is Server, that of ControlServerProofs.                          *)
LEMMA ServerAsProved ==
  /\ Server!Init => R!Init
  /\ Server!Next => R!Next
  /\ R!RegistryLive => Server!RegistryLive
  /\ R!WaitersOwned => Server!WaitersOwned
  /\ R!NeverStranded => Server!NeverStranded
  /\ R!AnswersFromBoundStream => Server!AnswersFromBoundStream
BY Zenon DEF Server!AcceptHello, Server!Addressee, Server!AnswerKinds,
             Server!AnswersFromBoundStream, Server!Break, Server!CallStep, Server!Cancel,
             Server!CancelEnqueue, Server!CancelGiveUp, Server!Cleanup, Server!CloseConn,
             Server!CtxEnd, Server!Disconnected, Server!Enqueue, Server!Failure, Server!Forget,
             Server!FromBoundStream, Server!InFlight, Server!Init, Server!IsCurrent, Server!Leave,
             Server!LoopHead, Server!NeverStranded, Server!Next, Server!NoResponse, Server!Offer,
             Server!Previous, Server!RecvAnswer, Server!RecvFail, Server!RecvHeartbeat,
             Server!Refusal, Server!RegistryLive, Server!RejectHello, Server!RunAbandoned,
             Server!RunAnswered, Server!RunBegin, Server!RunCanceled, Server!RunDisconnected,
             Server!RunEnqueue, Server!RunPreCanceled, Server!RunRefused, Server!RunRegister,
             Server!RunReturn, Server!SenderFail, Server!SenderRunning, Server!SenderSend,
             Server!SenderStop, Server!StreamStep, Server!Unregister, Server!WaitersOwned,
             Server!Waiting, Server!callVars, Server!registry, Server!streamVars, Server!vars,
             R!AcceptHello, R!Addressee, R!AnswerKinds, R!AnswersFromBoundStream, R!Break,
             R!CallStep, R!Cancel, R!CancelEnqueue, R!CancelGiveUp, R!Cleanup, R!CloseConn,
             R!CtxEnd, R!Disconnected, R!Enqueue, R!Failure, R!Forget, R!FromBoundStream,
             R!InFlight, R!Init, R!IsCurrent, R!Leave, R!LoopHead, R!NeverStranded, R!Next,
             R!NoResponse, R!Offer, R!Previous, R!RecvAnswer, R!RecvFail, R!RecvHeartbeat,
             R!Refusal, R!RegistryLive, R!RejectHello, R!RunAbandoned, R!RunAnswered, R!RunBegin,
             R!RunCanceled, R!RunDisconnected, R!RunEnqueue, R!RunPreCanceled, R!RunRefused,
             R!RunRegister, R!RunReturn, R!SenderFail, R!SenderRunning, R!SenderSend,
             R!SenderStop, R!StreamStep, R!Unregister, R!WaitersOwned, R!Waiting, R!callVars,
             R!registry, R!streamVars, R!vars

LEMMA PolicyAsProved == P!PolicyAssumption /\ P!InputsAssumption
BY PolicyAssumption, InputsAssumption
DEF P!PolicyAssumption, PolicyAssumption, P!InputsAssumption, InputsAssumption, P!Durations,
    Durations

(* A behaviour is of one part for ever.                                    *)
Of(p) == part = p

(* The instance of the control server keeps the inductive invariant of     *)
(* ControlServerProofs, and a behaviour of another part owes nothing.      *)
LEMMA ServerInvariance == ControllerSpec => [](Of("server") => R!IInv)
<1>1. ControllerInit /\ Of("server") => R!Init
  BY ServerAsProved DEF ControllerInit, Pure, Of
<1>2. Of("server") /\ [ControllerNext]_allVars => Of("server")' /\ [R!Next]_(R!vars)
  <2>1. Of("server") /\ ControllerNext => Of("server")' /\ R!Next
    BY ServerAsProved DEF ControllerNext, Judged, Pure, Of
  <2>2. UNCHANGED allVars => UNCHANGED part /\ UNCHANGED R!vars
    BY DEF allVars, slots, R!vars, R!registry, R!streamVars, R!callVars
  <2>. QED BY <2>1, <2>2 DEF Of
<1>3. ~Of("server") /\ [ControllerNext]_allVars => ~Of("server")'
  BY DEF ControllerNext, Judged, allVars, Of
<1>4. R!CallAssumption /\ R!SendCapAssumption
  BY DEF R!CallAssumption, R!SendCapAssumption
<1>5. R!NoneAssumption
  BY NamesAssumption DEF R!NoneAssumption, NamesAssumption
<1>. QED BY <1>1, <1>2, <1>3, <1>4, <1>5, R!Invariance, PTL DEF ControllerSpec, R!Spec

(* The registry of the instance names just the live streams.               *)
THEOREM ControllerRoutesToLive == ControllerSpec => []RegistryLive
<1>1. (Of("server") => R!IInv) => RegistryLive
  BY ServerAsProved DEF RegistryLive, Of, R!IInv
<1>. QED BY <1>1, ServerInvariance, PTL

(* No waiter of the instance outlives its call or its stream.              *)
THEOREM ControllerLeaksNoWaiter == ControllerSpec => []WaitersOwned
<1>1. (Of("server") => R!IInv) => WaitersOwned
  BY ServerAsProved DEF WaitersOwned, Of, R!IInv
<1>. QED BY <1>1, ServerInvariance, PTL

(* A call of the instance that waits can still be answered, or has been.   *)
THEOREM ControllerStrandsNoCall == ControllerSpec => []NeverStranded
<1>1. (Of("server") => R!IInv) => NeverStranded
  BY ServerAsProved DEF NeverStranded, Of, R!IInv
<1>. QED BY <1>1, ServerInvariance, PTL

(* An answer of the instance came over the stream its call was bound to.   *)
THEOREM ControllerBindsAnswers == ControllerSpec => []AnswersFromBoundStream
<1>1. (Of("server") => R!IInv) => AnswersFromBoundStream
  BY ServerAsProved DEF AnswersFromBoundStream, Of, R!IInv
<1>. QED BY <1>1, ServerInvariance, PTL

(* A start of the instance leaves no reverse rule behind.                  *)
THEOREM ControllerReleasesRules == ControllerSpec => []RulesReleased
<1>1. ControllerInit /\ Of("dial") => P!Dial!Init
  BY DialAsProved DEF ControllerInit, Pure, Of
<1>2. Of("dial") /\ [ControllerNext]_allVars => Of("dial")' /\ [P!Dial!Next]_(P!Dial!vars)
  <2>1. Of("dial") /\ ControllerNext => Of("dial")' /\ P!Dial!Next
    BY DialAsProved DEF ControllerNext, Judged, Pure, Of
  <2>2. UNCHANGED allVars => UNCHANGED part /\ UNCHANGED P!Dial!vars
    BY DEF allVars, slots, P!Dial!vars, P!Dial!net
  <2>. QED BY <2>1, <2>2 DEF Of
<1>3. ~Of("dial") /\ [ControllerNext]_allVars => ~Of("dial")'
  BY DEF ControllerNext, Judged, allVars, Of
<1>4. (P!Dial!RulesReleased => RulesReleased) /\ (~Of("dial") => RulesReleased)
  BY DialAsProved DEF RulesReleased, Of
<1>5. P!StartAssumption
  BY DEF P!StartAssumption, P!Dial!Serials
<1>. QED BY <1>1, <1>2, <1>3, <1>4, <1>5, PolicyAsProved, P!ReleasesRules, PTL DEF ControllerSpec, P!Starting

(* A wait of the instance misses no agent.                                 *)
THEOREM ControllerMissesNoAgent == ControllerSpec => []NoMissedAgent
<1>1. ControllerInit /\ Of("dial") => P!Dial!Init
  BY DialAsProved DEF ControllerInit, Pure, Of
<1>2. Of("dial") /\ [ControllerNext]_allVars => Of("dial")' /\ [P!Dial!Next]_(P!Dial!vars)
  <2>1. Of("dial") /\ ControllerNext => Of("dial")' /\ P!Dial!Next
    BY DialAsProved DEF ControllerNext, Judged, Pure, Of
  <2>2. UNCHANGED allVars => UNCHANGED part /\ UNCHANGED P!Dial!vars
    BY DEF allVars, slots, P!Dial!vars, P!Dial!net
  <2>. QED BY <2>1, <2>2 DEF Of
<1>3. ~Of("dial") /\ [ControllerNext]_allVars => ~Of("dial")'
  BY DEF ControllerNext, Judged, allVars, Of
<1>4. (P!Dial!NoMissedAgent => NoMissedAgent) /\ (~Of("dial") => NoMissedAgent)
  BY DialAsProved DEF NoMissedAgent, Of
<1>5. P!StartAssumption
  BY DEF P!StartAssumption, P!Dial!Serials
<1>. QED BY <1>1, <1>2, <1>3, <1>4, <1>5, PolicyAsProved, P!MissesNoAgent, PTL DEF ControllerSpec, P!Starting

(* A run the instance keeps for review is complete.                        *)
THEOREM ControllerRetainsAll == ControllerSpec => []RetainedComplete
<1>1. ControllerInit /\ Of("flow") => P!Flow!Init
  BY FlowAsProved DEF ControllerInit, Pure, Of
<1>2. Of("flow") /\ [ControllerNext]_allVars => Of("flow")' /\ [P!Flow!Next]_(P!Flow!vars)
  <2>1. Of("flow") /\ ControllerNext => Of("flow")' /\ P!Flow!Next
    BY FlowAsProved DEF ControllerNext, Judged, Pure, Of
  <2>2. UNCHANGED allVars => UNCHANGED part /\ UNCHANGED P!Flow!vars
    BY DEF allVars, slots, P!Flow!vars, P!Flow!model, P!Flow!feed, P!Flow!work, P!Flow!bounds
  <2>. QED BY <2>1, <2>2 DEF Of
<1>3. ~Of("flow") /\ [ControllerNext]_allVars => ~Of("flow")'
  BY DEF ControllerNext, Judged, allVars, Of
<1>4. (P!Flow!RetainedComplete => RetainedComplete) /\ (~Of("flow") => RetainedComplete)
  BY FlowAsProved DEF RetainedComplete, Of
<1>5. P!FlowAssumption
  BY DEF P!FlowAssumption
<1>. QED BY <1>1, <1>2, <1>3, <1>4, <1>5, PolicyAsProved, P!RetainsAll, PTL DEF ControllerSpec, P!Flowing

(* The dashboard of the instance agrees with the events of its rounds.     *)
THEOREM ControllerDashboardAgrees == ControllerSpec => []DashboardAgrees
<1>1. ControllerInit /\ Of("watch") => Q!Board!Init
  BY BoardAsProved DEF ControllerInit, Pure, Of
<1>2. Of("watch") /\ [ControllerNext]_allVars => Of("watch")' /\ [Q!Board!Next]_(Q!Board!vars)
  <2>1. Of("watch") /\ ControllerNext => Of("watch")' /\ Q!Board!Next
    BY BoardAsProved DEF ControllerNext, Judged, Pure, Of
  <2>2. UNCHANGED allVars => UNCHANGED part /\ UNCHANGED Q!Board!vars
    BY DEF allVars, slots, Q!Board!vars, Q!Board!run, Q!Board!screen
  <2>. QED BY <2>1, <2>2 DEF Of
<1>3. ~Of("watch") /\ [ControllerNext]_allVars => ~Of("watch")'
  BY DEF ControllerNext, Judged, allVars, Of
<1>4. (~Of("watch") => DashboardAgrees)
      /\ (Q!Board!RoundAgrees /\ Q!Board!RoundSettled /\ Q!Board!CurrentIsAt /\ Q!Board!CellsCount
            => DashboardAgrees)
  BY BoardAsProved DEF DashboardAgrees, Of
<1>5. Q!BoardAssumption
  <2>1. IsFiniteSet({"a1"})
    BY FS_Singleton
  <2>2. Q!IsFiniteSet({"a1"})
    BY <2>1, Zenon DEF Q!IsFiniteSet, IsFiniteSet
  <2>3. <<"t1">> \in Seq(Q!Board!Range(<<"t1">>)) /\ <<"c1", "c2">> \in Seq(Q!Board!Range(<<"c1", "c2">>))
    BY DEF Q!Board!Range
  <2>. QED BY <2>2, <2>3 DEF Q!BoardAssumption, Q!Board!NoFinding
<1>6. Q!PolicyAssumption /\ Q!InputsAssumption
  BY PolicyAssumption, InputsAssumption
  DEF Q!PolicyAssumption, PolicyAssumption, Q!InputsAssumption, InputsAssumption, Q!Durations,
      Durations
<1>. QED BY <1>1, <1>2, <1>3, <1>4, <1>5, <1>6, Q!BoardHonest, PTL DEF ControllerSpec, Q!Watching
=============================================================================

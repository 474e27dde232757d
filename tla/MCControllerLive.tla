--------------------------- MODULE MCControllerLive --------------------------
(***************************************************************************)
(* The JSONL sink and the terminal workflow, which share no state, under   *)
(* their fairness: part says which of them a behaviour is about.  The sink *)
(* has its own variables, the workflow has the slots v1, v2, ...           *)
(***************************************************************************)
EXTENDS JsonlWriter

VARIABLES part, v1, v2, v3, v4, v5, v6, v7, v8, v9, v10, v11, v12, v13, v14, v15,
          v16, v17, v18, v19, v20, v21, v22

slots == <<v1, v2, v3, v4, v5, v6, v7, v8, v9, v10, v11, v12, v13, v14, v15,
           v16, v17, v18, v19, v20, v21, v22>>
allVars == <<part, vars, slots>>

(* No slot is used.                                                        *)
Unused == v1 = 0 /\ v2 = 0 /\ v3 = 0 /\ v4 = 0 /\ v5 = 0 /\ v6 = 0 /\ v7 = 0 /\ v8 = 0
          /\ v9 = 0 /\ v10 = 0 /\ v11 = 0 /\ v12 = 0 /\ v13 = 0 /\ v14 = 0 /\ v15 = 0
          /\ v16 = 0 /\ v17 = 0 /\ v18 = 0 /\ v19 = 0 /\ v20 = 0 /\ v21 = 0 /\ v22 = 0

(* One agent, one plan and one run, on a channel of one slot.              *)
Flow ==
  INSTANCE Workflow
  WITH Agents <- {"a1"}, Capacity <- 1, MaxRetained <- 1, MaxPlans <- 1, MaxRuns <- 1,
       MaxSteps <- 1, MaxControls <- 2,
       phase <- v1, loading <- v2, compiled <- v3, source <- v4, selected <- v5,
       rerunReview <- v6, active <- v7, shown <- v8, pauseAcks <- v9, globalControl <- v10,
       runs <- v11, review <- v12, ui <- v13, reader <- v14, message <- v15, run <- v16,
       paused <- v17, eventMu <- v18, waiting <- v19, loads <- v20, started <- v21,
       controls <- v22

ControllerInit ==
  /\ Init
  /\ \/ part = "jsonl" /\ Unused
     \/ part = "flow" /\ Flow!Init

ControllerNext ==
  /\ UNCHANGED part
  /\ \/ part = "jsonl" /\ Next /\ UNCHANGED slots
     \/ part = "flow" /\ Flow!Next /\ UNCHANGED vars

(* The fairness of JsonlWriter!FairSpec and of Workflow!Spec.              *)
ControllerFairness ==
  /\ WF_vars(WriterStep) /\ WF_vars(CloseStep)
  /\ \A e \in Emitters : WF_vars(EmitStep(e))
  /\ WF_slots(part = "flow" /\ Flow!Feeding)
  /\ WF_slots(part = "flow" /\ (Flow!RunFinished \/ Flow!ExecuteReturns \/ Flow!Publish))
  /\ WF_slots(part = "flow" /\ Flow!Return)
  /\ WF_slots(part = "flow" /\ v16.stopped /\ Flow!AgentEnd("a1"))

ControllerSpec == ControllerInit /\ [][ControllerNext]_allVars /\ ControllerFairness

-----------------------------------------------------------------------------
(* Workflow!NeverWedged: a control comes back to the UI loop, and the      *)
(* program returns after its end.                                          *)
NeverWedged ==
  /\ (part = "flow" /\ v13 = "control") ~> (part = "flow" /\ v13 # "control")
  /\ (part = "flow" /\ v13 = "exiting") ~> (part = "flow" /\ v13 = "returned")

=============================================================================

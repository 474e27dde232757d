---------------------------- MODULE MCHarnessLive ----------------------------
(***************************************************************************)
(* Two runs of the harness under fairness: one agent whose rounds repeat   *)
(* (the constants), or, where team holds, two agents on one target in a    *)
(* run of one round.                                                       *)
(***************************************************************************)
EXTENDS HarnessRun, MCHarnessRun

VARIABLE team

allVars == <<team, vars>>

Team ==
  INSTANCE HarnessRun
  WITH Agents <- TwoAgents, Agenda <- TeamAgenda, Requests <- TeamRequests, Attempts <- 1,
       Rounds <- 1, Loop <- FALSE, MaxRequests <- 1, Deliveries <- Reliable, Bands <- {},
       Raw <- {"pass", "canceled"}

LiveInit == team \in BOOLEAN /\ ((team /\ Team!Init) \/ (~team /\ Init))

LiveNext ==
  /\ UNCHANGED team
  /\ \/ team /\ Team!Next
     \/ ~team /\ Next

(* HarnessRun!Fairness of the run in question.                             *)
LiveFairness ==
  /\ WF_vars((team /\ Team!Engine) \/ (~team /\ Engine))
  /\ WF_vars((team /\ Team!Worker("a")) \/ (~team /\ Worker("a")))
  /\ WF_vars((team /\ Team!PolicyTimeout("a")) \/ (~team /\ PolicyTimeout("a")))
  /\ WF_vars(team /\ Team!Worker("b"))
  /\ WF_vars(team /\ Team!PolicyTimeout("b"))

LiveSpec == LiveInit /\ [][LiveNext]_allVars /\ LiveFairness

-----------------------------------------------------------------------------
(* HarnessRun!FiniteRunEnds: the team's run of one round ends, whatever is *)
(* paused, because a policy timeout ends a paused check.                   *)
TeamRunEnds == team => Team!FiniteRunEnds
=============================================================================

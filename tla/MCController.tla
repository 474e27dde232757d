----------------------------- MODULE MCController ----------------------------
(***************************************************************************)
(* Parts of the controller that share no state, in one instance: part says *)
(* which of them a behaviour is about.  The check policy has its own       *)
(* variables; the other parts share the slots v1, v2, ..., and leave the   *)
(* rest of them alone.  A pure part takes an input of MCInputs and is      *)
(* judged in one step.                                                     *)
(***************************************************************************)
EXTENDS CheckPolicy, MCInputs

CONSTANTS
  Incarnations,  (* the streams of an agent that reconnects                *)
  Callers        (* the calls of the control server                        *)

(* "none" is the absent map entry of the server.                           *)
ASSUME NamesAssumption == "none" \notin Incarnations \cup Callers

VARIABLES part, v1, v2, v3, v4, v5, v6, v7, v8, v9, v10, v11, v12, v13, v14, v15,
          v16, v17, v18, v19, v20, v21, v22

slots == <<v1, v2, v3, v4, v5, v6, v7, v8, v9, v10, v11, v12, v13, v14, v15,
           v16, v17, v18, v19, v20, v21, v22>>
allVars == <<part, vars, slots>>

(* The slots from a number on are unused.                                  *)
From18 == v18 = 0 /\ v19 = 0 /\ v20 = 0 /\ v21 = 0 /\ v22 = 0
From13 == v13 = 0 /\ v14 = 0 /\ v15 = 0 /\ v16 = 0 /\ v17 = 0 /\ From18
From4 == v4 = 0 /\ v5 = 0 /\ v6 = 0 /\ v7 = 0 /\ v8 = 0 /\ v9 = 0 /\ v10 = 0 /\ v11 = 0
         /\ v12 = 0 /\ From13
From1 == v1 = 0 /\ v2 = 0 /\ v3 = 0 /\ From4
after3 == <<v4, v5, v6, v7, v8, v9, v10, v11, v12, v13, v14, v15, v16, v17, v18, v19, v20, v21, v22>>
after12 == <<v13, v14, v15, v16, v17, v18, v19, v20, v21, v22>>
after17 == <<v18, v19, v20, v21, v22>>

-----------------------------------------------------------------------------
(* Check policies: every combination of small windows, intervals and       *)
(* retries, and the boundaries of the arithmetic, with windows and delays  *)
(* up to the largest duration.                                             *)
Policy(a, r, d, e, s, i, t) ==
  [attempts : a, repeat : r, delay : d, eventually : e, stableFor : s, interval : i, timeout : t]
SmallInputs == Policy({0, 2}, {1, 2}, {0, 1}, 0 .. 3, 0 .. 3, {0, 2}, {0, 4})
EdgeInputs == Policy({0, 1, 3, 4}, {0, 1, 4}, {0, 7, 126, 127}, {0, 1, 63, 127}, {0, 1, 64, 127},
                     {0, 7, 127}, {0})
NegativeInputs == Policy({1}, {1}, {0, -1}, {0, -1}, {0, -1}, {1, -1}, {0, -1})
PolicyInputs == SmallInputs \cup EdgeInputs \cup NegativeInputs
(* What the policy's variables hold where a behaviour is of another part.  *)
OnePolicy == INSTANCE CheckPolicy WITH Inputs <- {CHOOSE p \in SmallInputs : TRUE}

(* One agent that reconnects, and calls that share one command ID, as the  *)
(* API allows once a call has returned; no order of streams or of calls    *)
(* matters, so that they may be permuted.                                  *)
Server ==
  INSTANCE ControlServer
  WITH Agents <- {"a1"}, Streams <- Incarnations, Calls <- Callers, CommandIDs <- {"k1"},
       CmdOf <- [c \in Callers |-> "k1"], CancelCalls <- {}, SendCap <- 1, None <- "none",
       conns <- v1, infos <- v2, waiters <- v3, owner <- v4, phase <- v5, done <- v6,
       sendCh <- v7, sendDone <- v8, broken <- v9, received <- v10, pc <- v11, ctxEnded <- v12,
       target <- v13, pin <- v14, callConn <- v15, resp <- v16, outcome <- v17
Symmetry == Permutations(Incarnations) \cup Permutations(Callers)

(* Two devices, three attempts for a port, and a ready channel of one slot *)
(* per device.                                                             *)
Dial ==
  INSTANCE SessionStart
  WITH Targets <- <<"d1", "d2">>, MaxAttempts <- 3, ReadyCap <- 2, MaxJoins <- 5,
       step <- v1, attempt <- v2, started <- v3, reversed <- v4, err <- v5, serving <- v6,
       rules <- v7, leaked <- v8, infos <- v9, announcing <- v10, ready <- v11, joins <- v12

(* Two agents, two plans and two runs, one of them retained, on a channel  *)
(* of one slot.                                                            *)
Flow ==
  INSTANCE Workflow
  WITH Agents <- {"a1", "a2"}, Capacity <- 1, MaxRetained <- 1, MaxPlans <- 2, MaxRuns <- 2,
       MaxSteps <- 0, MaxControls <- 2,
       phase <- v1, loading <- v2, compiled <- v3, source <- v4, selected <- v5,
       rerunReview <- v6, active <- v7, shown <- v8, pauseAcks <- v9, globalControl <- v10,
       runs <- v11, review <- v12, ui <- v13, reader <- v14, message <- v15, run <- v16,
       paused <- v17, eventMu <- v18, waiting <- v19, loads <- v20, started <- v21,
       controls <- v22

(* Two checks of one display name on one target.                           *)
Board ==
  INSTANCE WatchState
  WITH Agents <- {"a1"}, Targets <- <<"t1">>, Checks <- <<"c1", "c2">>,
       Name <- [c \in {"c1", "c2"} |-> "ping"], MaxRound <- 3, MaxHistory <- 9, HotspotWindow <- 1,
       at <- v1, owed <- v2, report <- v3, now <- v4, round <- v5, roundStatus <- v6,
       phase <- v7, targets <- v8, progress <- v9, passing <- v10, failed <- v11

-----------------------------------------------------------------------------
(* The pure parts: v1 is the topic, v2 the input, v3 whether it is judged. *)
Pure == {"line", "command", "graph", "report"}

Asked(p) ==
  \/ p = "line" /\ v1 \in {"line", "limit", "options"} /\ LineInput(v1, v2)
  \/ p = "line" /\ v1 \in {"quote", "scan", "pipe"} /\ ScanInput(v1, v2)
  \/ p = "command" /\ v1 \in {"build"} /\ CommandInput(v2)
  \/ p = "report" /\ v1 \in ReportTopics /\ ReportInput(v1, v2)
  \/ p = "graph" /\ v1 \in {"histogram"} /\ GraphInput(v2)

Judged == part \in Pure /\ ~v3 /\ v3' = TRUE /\ UNCHANGED <<v1, v2, vars, after3>>

ControllerInit ==
  \/ part = "policy" /\ Init /\ From1
  \/ /\ OnePolicy!Init
     /\ \/ part = "server" /\ Server!Init /\ From18
        \/ part = "dial" /\ Dial!Init /\ From13
        \/ part = "flow" /\ Flow!Init
        \/ part = "watch" /\ Board!Init /\ v12 = 0 /\ From13
        \/ part \in Pure /\ Asked(part) /\ v3 = FALSE /\ From4

ControllerNext ==
  /\ UNCHANGED part
  /\ \/ part = "policy" /\ Next /\ UNCHANGED slots
     \/ part = "server" /\ Server!Next /\ UNCHANGED <<vars, after17>>
     \/ part = "dial" /\ Dial!Next /\ UNCHANGED <<vars, after12>>
     \/ part = "flow" /\ Flow!Next /\ UNCHANGED vars
     \/ part = "watch" /\ Board!Next /\ UNCHANGED <<vars, v12, after12>>
     \/ Judged

ControllerSpec == ControllerInit /\ [][ControllerNext]_allVars

-----------------------------------------------------------------------------
(* ControlServer!RegistryLive: the registry names just the live streams,   *)
(* so that the late cleanup of a superseded stream spares its successor.   *)
RegistryLive == part = "server" => Server!RegistryLive

(* ControlServer!WaitersOwned: no waiter outlives the call and the stream  *)
(* it waits for, so that no command ID is refused for ever.                *)
WaitersOwned == part = "server" => Server!WaitersOwned

(* ControlServer!NeverStranded: a call that waits has a waiter that an     *)
(* answer or a cleanup will find, or a response queued already.            *)
NeverStranded == part = "server" => Server!NeverStranded

(* ControlServer!AnswersFromBoundStream: an answer came over the stream    *)
(* the call was bound to, also when its ID was used over another one.      *)
AnswersFromBoundStream == part = "server" => Server!AnswersFromBoundStream

(* SessionStart!RulesReleased: no attempt leaves a reverse rule behind     *)
(* that adb would have removed.                                            *)
RulesReleased == part = "dial" => Dial!RulesReleased

(* SessionStart!NoMissedAgent: WaitAgents never sleeps past the moment at  *)
(* which the last agent is there.                                          *)
NoMissedAgent == part = "dial" => Dial!NoMissedAgent

(* Workflow!RetainedComplete: a run kept for review shows its own plan and *)
(* every event it delivered.                                               *)
RetainedComplete == part = "flow" => Flow!RetainedComplete

(* WatchState: what the dashboard shows of a round is what its events      *)
(* said, also for checks of one display name; the current target is one    *)
(* that is worked at, and at the end of a round there is none; the numbers *)
(* in a cell are of agents it is true of.                                  *)
DashboardAgrees ==
  part = "watch" =>
    Board!RoundAgrees /\ Board!RoundSettled /\ Board!CurrentIsAt /\ Board!CellsCount

(* CommandGrammar: suggestions lead on, abbreviations mean what they stand *)
(* for, and the shell's limits are not tighter than the builders';         *)
(* ShellLine: the two scanners of a line agree, a quoted word comes back   *)
(* as it was, and a pipeline does to a text what its stages say;           *)
(* Commands: the controller outwaits the agent's own limits, but for the   *)
(* commands that Commands!MayOverrun names, and no number turns negative   *)
(* on the agent.                                                           *)
CommandsAgree ==
  [][/\ part = "line" /\ v3' => LineHolds(v1, v2)
     /\ part = "command" /\ v3' => CommandHolds(v2)]_allVars

(* Commands!DeadlineOutlastsAgent: the timeout gives "the Android side     *)
(* time to report a structured result before the controller cancels the    *)
(* command" (command/parser.go:165-167).                                   *)
DeadlineOutlastsAgent ==
  [][part = "command" /\ v3' => Shell!DeadlineOutlastsAgent(v2)]_allVars

(* BeaconElements: elements are read as they were sent, and of an element  *)
(* that lost its end no value is shown that was not sent; WifiReport: the  *)
(* parts of a report agree, and what was not observed changes none of      *)
(* them; WatchSummaries: the graph of recent events loses none; and when a *)
(* round is over the summaries of the histories agree with the report: a   *)
(* failure streak counts the failures since the last pass, and every item  *)
(* is accounted for and found.                                             *)
ReportHonest ==
  /\ [][/\ part = "report" /\ v3' => ReportHolds(v1, v2)
        /\ part = "graph" /\ v3' => GraphHolds(v2)]_allVars
  /\ [](part = "watch" => Board!StreakExact /\ Board!SummariesAccount /\ Board!HistoryAgrees)
=============================================================================

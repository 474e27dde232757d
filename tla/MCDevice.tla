------------------------------- MODULE MCDevice ------------------------------
(***************************************************************************)
(* The parts of the agent that share no state, in one instance: part says  *)
(* which of them a behaviour is about.  The controller session has its own *)
(* variables, and so has the foreground service; the other parts share the *)
(* slots v1, v2, ..., and leave the rest of them alone.                    *)
(***************************************************************************)
EXTENDS AgentSession

(* Three commands with the same ID, and one with another.                  *)
DeviceIds == [t \in Tasks |-> IF t = "t4" THEN "y" ELSE "x"]

VARIABLES inbox, lastStart, main, current, stages, interrupted, wifiEvents, foreground,
          widgets, observing, stopping, destroyed
VARIABLES part, v1, v2, v3, v4, v5, v6, v7, v8, v9, v10, v11, v12, v13, v14, v15, v16

slots == <<v1, v2, v3, v4, v5, v6, v7, v8, v9, v10, v11, v12, v13, v14, v15, v16>>

(* Three start intents.                                                    *)
Service == INSTANCE AgentService WITH MaxStarts <- 3, worker <- stages

serviceVars == <<inbox, lastStart, main, current, stages, interrupted, wifiEvents,
                 foreground, widgets, observing, stopping, destroyed>>
allVars == <<part, vars, serviceVars, slots>>

(* The slots from a number on are unused.                                  *)
From13 == v13 = 0 /\ v14 = 0 /\ v15 = 0 /\ v16 = 0
From10 == v10 = 0 /\ v11 = 0 /\ v12 = 0 /\ From13
From6 == v6 = 0 /\ v7 = 0 /\ v8 = 0 /\ v9 = 0 /\ From10
From1 == v1 = 0 /\ v2 = 0 /\ v3 = 0 /\ v4 = 0 /\ v5 = 0 /\ From6

(* A file of five lines, a screen of four, and three starts.               *)
Log ==
  INSTANCE AgentLogView
  WITH MaxLines <- 6, MaxStarts <- 3, FileLines <- 5, KeepLines <- 3, TailLines <- 2,
       DisplayLines <- 4, logged <- v1, direct <- v2, file <- v3, listening <- v4,
       looper <- v5, phase <- v6, generation <- v7, lastLogLine <- v8, view <- v9

(* Results of which one does not fit the transcript, and three screens.    *)
Shell ==
  INSTANCE AgentShell
  WITH MaxBlocks <- 3, MaxChars <- 4, Sizes <- {1, 3, 9}, MaxActions <- 4, MaxScreens <- 3,
       screen <- v1, screens <- v2, retained <- v3, thread <- v4, result <- v5,
       listener <- v6, posted <- v7, started <- v8, delivered <- v9, blocks <- v10,
       disk <- v11, writes <- v12

Link ==
  INSTANCE AgentLinkCheck
  WITH Networks <- {"n1", "n2"}, command <- v1, stages <- v2, network <- v3, shown <- v4,
       report <- v5

(* One SSID on three access points that differ in band and security.       *)
Ap(bssid, band, caps) == [ssid |-> "s", bssid |-> bssid, band |-> band, caps |-> caps]
Cmd(kind, band, security, ip, forget) ==
  [kind |-> kind, ssid |-> "s", bssid |-> "blank", band |-> band, security |-> security,
   requireIp |-> ip, forget |-> forget]
Wifi ==
  INSTANCE WifiCommands
  WITH Aps <- <<Ap("a", "5", {"PSK"}), Ap("b", "5", {"SAE"}), Ap("c", "2", {"PSK"})>>,
       Ssid <- "s", MaxPolls <- 1, MaxCount <- 2,
       Commands <- {Cmd("connect", "5", "wpa3", TRUE, FALSE)}
                     \cup {Cmd("cycle", "5", "auto", TRUE, TRUE)}
                     \cup {Cmd(k, "blank", "auto", FALSE, FALSE) :
                             k \in {"wait", "assert", "disconnect", "forget", "reconnect"}},
       saved <- v1, link <- v2, auto <- v3, cmd <- v4, pc <- v5, scan <- v6, pin <- v7,
       clean <- v8, polls <- v9, step <- v10, good <- v11, stepOk <- v12, dirty <- v13,
       interrupt <- v14, result <- v15, listed <- v16

DeviceInit ==
  /\ Init /\ Service!Init
  /\ \/ part = "service" /\ From1
     \/ /\ ~widgets
        /\ \/ part = "session" /\ From1
           \/ part = "log" /\ Log!Init /\ From10
           \/ part = "shell" /\ Shell!Init /\ From13
           \/ part = "link" /\ Link!Init /\ From6
           \/ part = "wifi" /\ Wifi!Init

PartNext ==
  \/ part = "log" /\ Log!Next /\ UNCHANGED <<v10, v11, v12, v13, v14, v15, v16>>
  \/ part = "shell" /\ Shell!Next /\ UNCHANGED <<v13, v14, v15, v16>>
  \/ part = "link" /\ Link!Next
       /\ UNCHANGED <<v6, v7, v8, v9, v10, v11, v12, v13, v14, v15, v16>>
  \/ part = "wifi" /\ Wifi!Next

DeviceNext ==
  /\ UNCHANGED part
  /\ \/ part = "session" /\ Next /\ UNCHANGED <<serviceVars, slots>>
     \/ part = "service" /\ Service!Next /\ UNCHANGED <<vars, slots>>
     \/ PartNext /\ UNCHANGED <<vars, serviceVars>>

DeviceSpec == DeviceInit /\ [][DeviceNext]_allVars /\ Service!Fairness

-----------------------------------------------------------------------------
(* Reachable and NoWorkLeft are those of AgentSession.                     *)

(* AgentService!CleanupSparesNewer: a worker that cleans up takes no newer *)
(* start down with it.                                                     *)
CleanupSparesNewer == Service!CleanupSparesNewer

(* AgentService!LastSessionStopsService: when the last session of the last *)
(* start ends and no widget holds the service, the service goes away.      *)
LastSessionStopsService == Service!LastSessionStopsService

(* AgentLogView!NoSilentGap: lines missing on the screen leave a mark.     *)
NoSilentGap == part = "log" => Log!NoSilentGap

(* AgentShell!ResultReachesScreen: no result of a shell action is lost     *)
(* while screens come and go.                                              *)
ResultReachesScreen == part = "shell" => Shell!ResultReachesScreen

(* AgentLinkCheck!LinkPassEarned: a link check that passes has seen every  *)
(* stage pass on one network.                                              *)
LinkPassEarned == part = "link" => Link!LinkPassEarned

(* WifiCommands!PinHolds: a pinned connect is not served by another AP.    *)
PinHolds == part = "wifi" => Wifi!PinHolds

(* WifiCommands!CycleCleansUp: a cycle leaves no step without cleanup.     *)
CycleCleansUp == part = "wifi" => Wifi!CycleCleansUp
=============================================================================

--------------------------- MODULE AgentLinkCheck ---------------------------
(***************************************************************************)
(* The "check" command of the agent's shell (AgentLinkProfile.run): an IP  *)
(* snapshot of the selected Wi-Fi network, for the lab profile three       *)
(* probes, and a second snapshot that must be of the same network.  Every  *)
(* read goes through CommandExecutor.execute; between two reads the device *)
(* may roam, lose its network or be interrupted.                           *)
(***************************************************************************)
EXTENDS Naturals, Sequences

CONSTANTS Networks  \* identities (network ID and interface) a snapshot may show

VARIABLES
    command,  \* the parsed check command
    stages,   \* LinkStages so far: their outcomes, in the order of StageNames
    network,  \* identity of the last snapshot that passed, NoNetwork for null
    shown,    \* identity each snapshot showed, whatever became of it
    report    \* outcome of the report, NoReport while the check runs

vars == <<command, stages, network, shown, report>>

NoNetwork == "no network"
NoReport == "no report"

\* hasLab: the parser accepted a lab configuration; labValid: it is valid for
\* the command's family; complete: SSID and family are given.
Commands == [profile : {"link", "lab", "internet"}, hasLab : BOOLEAN,
             labValid : BOOLEAN, bssid : BOOLEAN, complete : BOOLEAN]

\* What execute() may answer.  typed: the result holds the requested payload.
\* identity: the network a snapshot shows, NoNetwork if ipIdentityReason finds
\* it unusable.  quality of a snapshot or probe: metrics or probe result met,
\* not met, or not observable.
Reads == [status : {"OK", "CANCELED", "FAILED"}, typed : BOOLEAN,
          identity : Networks \cup {NoNetwork},
          quality : {"met", "unmet", "unknown"}]
         \cup [status : {"interrupted", "exception"}, typed : {FALSE},
               identity : {NoNetwork}, quality : {"unknown"}]

Lab == command.profile = "lab" /\ command.hasLab

StageNames ==
    IF Lab THEN <<"ip_before", "gateway_ping", "dns", "http", "ip_after">>
    ELSE <<"ip_before", "ip_after">>

Init ==
    /\ command \in Commands
    /\ stages = <<>>
    /\ network = NoNetwork
    /\ shown = <<>>
    /\ report = NoReport

\* Fault: a check that stops early reports what it reached as its outcome.
FinishOpenEnded(done, outcome) ==
    /\ stages' = done
    /\ report' = outcome

\* finish(outcome): the stages not reached are skipped.
Finish(done, outcome) ==
    /\ stages' = done \o [i \in 1..(Len(StageNames) - Len(done)) |-> "SKIP"]
    /\ report' = outcome

\* The conditions that refuse a command before anything is read.
Refusal ==
    IF command.profile \notin {"link", "lab"} \/ (command.profile = "lab" /\ ~ Lab) \/ command.bssid
    THEN "UNSUPPORTED"
    ELSE IF ~ command.complete \/ (Lab /\ ~ command.labValid) THEN "MISSING"
    ELSE "none"

\* read(): a canceled or interrupted read is CANCELED; a failed one MISSING.
Failure(r) ==
    CASE r.status \in {"CANCELED", "interrupted"} -> "CANCELED"
      [] r.status \in {"FAILED", "exception"} -> "MISSING"
      [] OTHER -> "none"

\* The metrics of the family, as they are observed.
Quality(r) ==
    CASE r.quality = "unknown" -> "MISSING" [] r.quality = "unmet" -> "FAIL"
      [] r.quality = "met" -> "PASS"

\* Fault: the second snapshot is not compared with the first.
SnapshotAnyNetwork(r, initial) ==
    IF Failure(r) # "none" THEN Failure(r)
    ELSE IF ~ r.typed \/ r.identity = NoNetwork THEN "MISSING"
    ELSE Quality(r)

\* ipIdentityReason(ip, ssid, initial) and then the metrics of the family.
SnapshotOutcome(r, initial) ==
    IF Failure(r) # "none" THEN Failure(r)
    ELSE IF ~ r.typed \/ r.identity = NoNetwork \/ (initial # NoNetwork /\ r.identity # initial)
    THEN "MISSING"
    ELSE Quality(r)

\* probe(): only a ping can lack its observation in a successful result.
ProbeOutcome(name, r) ==
    IF Failure(r) = "CANCELED" THEN "CANCELED"
    ELSE IF ~ r.typed \/ (r.status = "OK" /\ name = "gateway_ping" /\ r.quality = "unknown")
    THEN "MISSING"
    ELSE IF r.status # "OK" \/ r.quality # "met" THEN "FAIL"
    ELSE "PASS"

Refuse ==
    /\ report = NoReport /\ stages = <<>> /\ Refusal # "none"
    /\ Finish(<<Refusal>>, Refusal)
    /\ UNCHANGED <<command, network, shown>>

\* One stage: the first that does not pass ends the check.
Stage ==
    LET name == StageNames[Len(stages) + 1]
        last == Len(stages) + 1 = Len(StageNames)
    IN
    /\ report = NoReport /\ Refusal = "none"
    /\ \E r \in Reads :
         LET ip == name \in {"ip_before", "ip_after"}
             outcome == IF ip THEN SnapshotOutcome(r, network)
                        ELSE ProbeOutcome(name, r)
             done == Append(stages, outcome)
         IN  /\ shown' = IF ip THEN Append(shown, r.identity) ELSE shown
             /\ network' = IF ip /\ outcome = "PASS" THEN r.identity ELSE network
             /\ IF outcome # "PASS" \/ last THEN Finish(done, outcome)
                ELSE stages' = done /\ report' = NoReport
    /\ UNCHANGED command

Next == Refuse \/ Stage

Spec == Init /\ [][Next]_vars

-----------------------------------------------------------------------------
\* A PASS is earned (AgentLinkProfile.run): every stage of the profile passed
\* and both snapshots showed the same usable network; any other outcome is the
\* one of its only stage that was attempted and did not pass, all stages are
\* reported, and none is reported as passed after it.
LinkPassEarned ==
    report # NoReport =>
        /\ Len(stages) = Len(StageNames)
        /\ report = "PASS" => /\ \A i \in 1..Len(stages) : stages[i] = "PASS"
                              /\ shown[1] = shown[2] /\ shown[1] # NoNetwork
        /\ report # "PASS" =>
             \E i \in 1..Len(stages) :
                /\ stages[i] = report
                /\ \A j \in 1..(i - 1) : stages[j] = "PASS"
                /\ \A j \in (i + 1)..Len(stages) : stages[j] = "SKIP"
=============================================================================

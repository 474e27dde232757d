---------------------------- MODULE WifiCommands ----------------------------
(***************************************************************************)
(* The Wi-Fi commands of the agent (CommandExecutor, WifiConnector and its *)
(* policies) against the Android Wi-Fi framework.  A connect is several    *)
(* framework calls, each of which may fail, followed by polling; between   *)
(* any two of them the framework associates, assigns addresses or drops    *)
(* the link on its own, and an interrupt (a cancel from the controller)    *)
(* may arrive.                                                             *)
(***************************************************************************)
EXTENDS Naturals, Sequences, SequencesExt

CONSTANTS
    Aps,        \* access points: [ssid, bssid, band, caps], strongest first
    Ssid,       \* the SSID of the commands
    Commands,   \* the commands that may be run
    MaxPolls,   \* polls of waitForExpectation before its deadline
    MaxCount    \* steps of a cycle

VARIABLES
    saved,      \* configured networks: [ssid, bssid, sec]
    link,       \* [ap, sec, ip, via]: the association, NoLink for none
    auto,       \* the framework may associate on its own
    cmd,        \* the command being run
    pc,         \* where the command worker is
    scan,       \* scan cache the connect read
    pin,        \* BSSID the staged configuration is pinned to, Blank for none
    clean,      \* the profiles that conflict with the pin were removed
    polls,      \* polls left before the deadline
    step,       \* number of the cycle step
    good,       \* steps of the cycle that passed
    stepOk,     \* no error in this step so far
    dirty,      \* this step connected and its cleanup has not been tried
    interrupt,  \* the interrupt flag of the worker
    listed,     \* this build lists its configured networks to a device owner
    result      \* result of the last command: "OK", "FAILED", "CANCELED"

world == <<saved, link, auto>>
cycle == <<step, good, stepOk, dirty>>
staged == <<scan, pin, clean>>
vars == <<world, cmd, pc, staged, polls, cycle, interrupt, listed, result>>

Blank == "blank"
NoAp == [ssid |-> Blank, bssid |-> Blank, band |-> Blank, caps |-> {}]
NoLink == [ap |-> NoAp, sec |-> Blank, ip |-> FALSE,
           via |-> [ssid |-> Blank, bssid |-> Blank, sec |-> Blank]]
NoCommand == [kind |-> "none"]

Init ==
    /\ saved \in SUBSET {[ssid |-> Ssid, bssid |-> Blank, sec |-> "PSK"]}
    /\ link = NoLink /\ auto = TRUE
    /\ cmd = NoCommand /\ pc = "idle" /\ result = "none"
    /\ scan = <<>> /\ pin = Blank /\ clean = FALSE
    /\ polls = 0 /\ step = 0 /\ good = 0 /\ stepOk = TRUE /\ dirty = FALSE
    /\ interrupt = FALSE /\ listed \in BOOLEAN

-----------------------------------------------------------------------------
(* WifiConnectorPolicy and WifiExpectation *)

InBand(ap, c) == c.band = Blank \/ ap.band = c.band

\* candidateSupportsSecurity.
Supports(caps, security) ==
    CASE security = "auto" -> TRUE
      [] security = "wpa2" -> "PSK" \in caps
      [] security = "wpa3" -> "SAE" \in caps
      [] security = "transition" -> {"PSK", "SAE"} \subseteq caps

\* The first element of a sequence that passes a test, or a default.
FirstOr(seq, Test(_), default) ==
    LET i == SelectInSeq(seq, Test) IN IF i = 0 THEN default ELSE seq[i]

\* Fault: the strongest access point of the band, whatever its security.
ResolveStrongest(c, seq) ==
    IF c.bssid # Blank THEN c.bssid
    ELSE IF c.band = Blank THEN Blank
    ELSE FirstOr(seq, LAMBDA a : a.ssid = c.ssid /\ InBand(a, c), NoAp).bssid

\* resolveConnectBssid: a band without a BSSID is pinned to the strongest access
\* point of that band, one that supports the security if there is one.
ResolveConnectBssid(c, seq) ==
    LET inBand == SelectSeq(seq, LAMBDA a : a.ssid = c.ssid /\ InBand(a, c))
        any == FirstOr(inBand, LAMBDA a : TRUE, NoAp)
    IN  IF c.bssid # Blank THEN c.bssid
        ELSE IF c.band = Blank THEN Blank
        ELSE FirstOr(inBand, LAMBDA a : Supports(a.caps, c.security), any).bssid

\* resolveConnectSecurity and the security parameter of the configuration.
ResolveConnectSecurity(c, seq, bssid) ==
    LET known == FirstOr(seq, LAMBDA a : /\ a.ssid = c.ssid /\ InBand(a, c)
                                         /\ bssid \in {Blank, a.bssid}
                                         /\ a.caps # {}, NoAp)
    IN  CASE c.security = "wpa3" -> "SAE"
          [] c.security = "auto" /\ "SAE" \in known.caps -> "SAE"
          [] OTHER -> "PSK"

SecurityTypes(security) ==
    CASE security = "wpa2" -> {"PSK"}
      [] security = "wpa3" -> {"SAE"}
      [] OTHER -> {"PSK", "SAE"}

\* currentConnectionSatisfiesConnect, and WifiExpectationEvaluator.evaluate
\* with its additional demand for an address.
Satisfies(l, c, bssid) ==
    /\ l # NoLink
    /\ l.ap.ssid = c.ssid
    /\ bssid \in {Blank, l.ap.bssid}
    /\ InBand(l.ap, c)
    /\ l.sec \in SecurityTypes(c.security)

Evaluate(l, c) ==
    CASE c.kind = "reconnect" -> l # NoLink /\ l.ip
      [] OTHER -> Satisfies(l, c, c.bssid) /\ (c.requireIp => l.ip)

\* bssidPinCleanupNetworkIds.
Conflicting(c, bssid) ==
    IF bssid = Blank \/ ~ listed THEN {}
    ELSE {n \in saved : n.ssid = c.ssid /\ n.bssid # bssid}

-----------------------------------------------------------------------------
(* The framework: what it does on its own (external) *)

Admits(n, ap) == n.ssid = ap.ssid /\ n.bssid \in {Blank, ap.bssid} /\ n.sec \in ap.caps

Associate ==
    /\ link = NoLink /\ auto
    /\ \E n \in saved, ap \in ToSet(Aps) :
         /\ Admits(n, ap)
         /\ link' = [ap |-> ap, sec |-> n.sec, ip |-> FALSE, via |-> n]
    /\ UNCHANGED <<saved, auto, cmd, pc, staged, polls, cycle, interrupt, result>>

GetAddress ==
    /\ link # NoLink /\ ~ link.ip
    /\ link' = [link EXCEPT !.ip = TRUE]
    /\ UNCHANGED <<saved, auto, cmd, pc, staged, polls, cycle, interrupt, result>>

Drop ==
    /\ link # NoLink
    /\ link' = NoLink
    /\ UNCHANGED <<saved, auto, cmd, pc, staged, polls, cycle, interrupt, result>>

\* Removing a configured network ends the association made through it.
RemoveNetworks(nets) ==
    /\ saved' = saved \ nets
    /\ link' = IF link # NoLink /\ link.via \in nets THEN NoLink ELSE link

\* removeNetwork may refuse some of several networks.
RemoveSome(nets) == \E gone \in SUBSET nets : RemoveNetworks(gone)

-----------------------------------------------------------------------------
(* The command worker *)

End(r) == pc' = "idle" /\ result' = r /\ interrupt' = FALSE

\* executeLocked dispatches a command.
Execute ==
    /\ pc = "idle"
    /\ \E c \in Commands :
         /\ cmd' = c
         /\ pc' = CASE c.kind \in {"connect", "cycle"} -> "connect"
                    [] c.kind \in {"wait", "assert"} -> "poll"
                    [] OTHER -> c.kind
         /\ polls' = IF c.kind = "assert" THEN 0 ELSE MaxPolls
         /\ step' = IF c.kind = "cycle" THEN 1 ELSE 0
         /\ dirty' = (c.kind = "cycle")
    /\ good' = 0 /\ stepOk' = TRUE
    /\ result' = "none"
    /\ scan' = <<>> /\ pin' = Blank /\ clean' = FALSE
    /\ UNCHANGED <<world, interrupt>>

\* A setup error fails the command, or the step of a cycle.
SetupFails ==
    /\ IF cmd.kind = "cycle"
       THEN pc' = "cleanup" /\ stepOk' = FALSE /\ UNCHANGED <<interrupt, result>>
       ELSE End("FAILED") /\ UNCHANGED stepOk
    /\ UNCHANGED <<step, good, dirty>>

\* connect: the scan cache is read when the security or a band needs it, and a
\* connection that is already as requested is kept.
Connect ==
    /\ pc = "connect"
    /\ \E vis \in SUBSET (1..Len(Aps)) :
         LET cache == SelectSeq(Aps, LAMBDA a : \E i \in vis : Aps[i] = a)
             needed == cmd.security = "auto" \/ (cmd.bssid = Blank /\ cmd.band # Blank)
             seq == IF needed THEN cache ELSE <<>>
             bssid == ResolveConnectBssid(cmd, seq)
         IN  /\ scan' = seq
             /\ pin' = bssid
             /\ pc' = IF Satisfies(link, cmd, bssid) THEN "poll" ELSE "unpin"
    /\ clean' = FALSE
    /\ UNCHANGED <<world, cmd, polls, cycle, interrupt, result>>

\* Fault: conflicting profiles are left where they are.
CleanupSkipped ==
    /\ pc = "unpin"
    /\ pc' = "add" /\ clean' = TRUE
    /\ UNCHANGED <<world, cycle, interrupt, result, cmd, scan, pin, polls>>

\* cleanupConflictingBssidProfiles: hidden or unreadable configurations are
\* taken as none, and a network that cannot be removed is an error.
CleanupConflicting ==
    /\ pc = "unpin"
    /\ \/ /\ RemoveNetworks(Conflicting(cmd, pin))
          /\ pc' = "add" /\ clean' = listed
          /\ UNCHANGED <<cycle, interrupt, result>>
       \/ /\ pin # Blank
          /\ pc' = "add" /\ UNCHANGED <<saved, link, clean, cycle, interrupt, result>>
       \/ /\ Conflicting(cmd, pin) # {}
          /\ RemoveSome(Conflicting(cmd, pin))
          /\ saved' # saved \ Conflicting(cmd, pin)
          /\ SetupFails /\ UNCHANGED clean
    /\ UNCHANGED <<auto, cmd, scan, pin, polls>>

Configuration ==
    [ssid |-> cmd.ssid, bssid |-> pin, sec |-> ResolveConnectSecurity(cmd, scan, pin)]

\* addNetworkPrivileged saves the configuration.
AddNetwork ==
    /\ pc = "add"
    /\ saved' \in {saved, saved \cup {Configuration}}
    /\ \/ /\ Configuration \in saved' /\ pc' = "enable"
          /\ UNCHANGED <<cycle, interrupt, result>>
       \/ SetupFails
    /\ UNCHANGED <<link, auto, cmd, staged, polls>>

\* enableNetwork with disableOthers leaves any other association.
EnableNetwork ==
    /\ pc = "enable"
    /\ \/ /\ link' = IF link # NoLink /\ link.via = Configuration THEN link ELSE NoLink
          /\ auto' \in {TRUE, auto}
          /\ pc' = "join"
          /\ UNCHANGED <<cycle, interrupt, result>>
       \/ SetupFails /\ UNCHANGED <<link, auto>>
    /\ UNCHANGED <<saved, cmd, staged, polls>>

\* reconnect: only an exception fails the connect, a refusal does not.
Join ==
    /\ pc = "join"
    /\ auto' \in {TRUE, auto}
    /\ \/ pc' = "poll" /\ UNCHANGED <<cycle, interrupt, result>>
       \/ SetupFails
    /\ UNCHANGED <<saved, link, cmd, staged, polls>>

\* waitForExpectation: evaluated at once, then after every sleep until the
\* deadline; a cycle then probes through the network.
Poll ==
    /\ pc = "poll"
    /\ IF Evaluate(link, cmd)
       THEN /\ IF cmd.kind = "cycle" THEN pc' = "probe" /\ UNCHANGED <<interrupt, result>>
               ELSE End("OK")
            /\ UNCHANGED <<polls, cycle>>
       ELSE IF polls > 0
       THEN pc' = "sleep" /\ polls' = polls - 1 /\ UNCHANGED <<cycle, interrupt, result>>
       ELSE SetupFails /\ UNCHANGED polls
    /\ UNCHANGED <<world, cmd, staged>>

\* Fault: an interrupted step ends the cycle before its cleanup.
SleepThrows ==
    /\ pc = "sleep"
    /\ IF ~ interrupt THEN pc' = "poll" /\ UNCHANGED <<interrupt, result>>
       ELSE End("CANCELED")
    /\ UNCHANGED <<world, cmd, staged, polls, cycle>>

\* Every sleep throws when the worker is interrupted; in a cycle the step's
\* finally block still runs, with the flag cleared.
Sleep ==
    /\ pc = "sleep"
    /\ IF ~ interrupt THEN pc' = "poll" /\ UNCHANGED <<interrupt, result>>
       ELSE IF cmd.kind = "cycle"
       THEN pc' = "cleanup" /\ interrupt' = FALSE /\ result' = "CANCELED"
       ELSE End("CANCELED")
    /\ UNCHANGED <<world, cmd, staged, polls, cycle>>

\* The ping and HTTP checks of a cycle step.
Probe ==
    /\ pc = "probe"
    /\ \E ok \in BOOLEAN : stepOk' = (stepOk /\ ok)
    /\ pc' = "cleanup"
    /\ UNCHANGED <<world, cmd, staged, polls, step, good, dirty, interrupt, result>>

\* forget: every listed network of the SSID is removed; a connection whose
\* network is not listed is removed by its ID, and what is neither listed nor
\* connected is already absent.
Forgets(ok) ==
    LET nets == {n \in saved : n.ssid = cmd.ssid /\ (listed \/ n = link.via)}
    IN  \/ ok /\ RemoveNetworks(nets)
        \/ ~ ok /\ nets # {} /\ RemoveSome(nets) /\ saved' # saved \ nets
        \/ ~ ok /\ UNCHANGED <<saved, link>>

\* disconnect: the request may be refused, and must settle.
Disconnects(ok) ==
    \/ ok /\ link' = NoLink
    \/ ~ ok /\ link' \in {link, NoLink}

\* The finally block of a cycle step; an interrupt that is still pending makes
\* the settling of a disconnect throw after its request was made.
Cleanup ==
    /\ pc = "cleanup"
    /\ \E ok \in BOOLEAN :
         /\ IF cmd.forget THEN Forgets(ok) /\ UNCHANGED auto
            ELSE Disconnects(ok) /\ auto' = FALSE /\ UNCHANGED saved
         /\ stepOk' = (stepOk /\ ok)
         /\ good' = IF stepOk' THEN good + 1 ELSE good
    /\ dirty' = FALSE
    /\ IF result = "CANCELED" \/ (interrupt /\ ~ cmd.forget) THEN End("CANCELED")
       ELSE pc' = "stepped" /\ UNCHANGED <<interrupt, result>>
    /\ UNCHANGED <<cmd, staged, polls, step>>

\* The pause between two steps, and the interrupt test of the next one.
NextStep ==
    /\ pc = "stepped"
    /\ IF step = MaxCount
       THEN End(IF good = MaxCount THEN "OK" ELSE "FAILED") /\ UNCHANGED <<cycle, polls>>
       ELSE IF interrupt
       THEN End("CANCELED") /\ UNCHANGED <<cycle, polls>>
       ELSE /\ pc' = "connect" /\ step' = step + 1
            /\ stepOk' = TRUE /\ dirty' = TRUE /\ polls' = MaxPolls
            /\ UNCHANGED <<good, interrupt, result>>
    /\ UNCHANGED <<world, cmd, staged>>

Forget ==
    /\ pc = "forget"
    /\ \E ok \in BOOLEAN : Forgets(ok) /\ End(IF ok THEN "OK" ELSE "FAILED")
    /\ UNCHANGED <<auto, cmd, staged, polls, cycle>>

Disconnect ==
    /\ pc = "disconnect"
    /\ \E ok \in BOOLEAN : Disconnects(ok) /\ End(IF ok THEN "OK" ELSE "FAILED")
    /\ auto' = FALSE
    /\ UNCHANGED <<saved, cmd, staged, polls, cycle>>

\* reconnect: whatever the framework answers, the state decides.
Reconnect ==
    /\ pc = "reconnect"
    /\ auto' \in {TRUE, auto}
    /\ pc' = "poll"
    /\ UNCHANGED <<saved, link, cmd, staged, polls, cycle, interrupt, result>>

\* The controller cancels the running command.
Interrupt ==
    /\ pc # "idle" /\ ~ interrupt
    /\ interrupt' = TRUE
    /\ UNCHANGED <<world, cmd, pc, staged, polls, cycle, result>>

Framework == Associate \/ GetAddress \/ Drop
Worker ==
    \/ Execute \/ Connect \/ CleanupConflicting \/ AddNetwork \/ EnableNetwork \/ Join
    \/ Poll \/ Sleep \/ Probe \/ Cleanup \/ NextStep
    \/ Forget \/ Disconnect \/ Reconnect

Next == UNCHANGED listed /\ (Framework \/ Worker \/ Interrupt)

Spec == Init /\ [][Next]_vars

-----------------------------------------------------------------------------
\* A connect with a BSSID or a band is not served by another access point of
\* the same SSID: once the conflicting profiles were removed, the framework can
\* only associate with the pinned one while the connect waits for it
\* (WifiConnector.connect, cleanupConflictingBssidProfiles).
PinHolds ==
    (pc \in {"poll", "sleep"} /\ cmd.kind \in {"connect", "cycle"} /\ pin # Blank
     /\ clean /\ link # NoLink /\ link.ap.ssid = cmd.ssid)
    => link.ap.bssid = pin

\* The staged configuration can succeed: if the scan cache holds an access
\* point that meets the whole request, the configuration admits one that does
\* (resolveConnectBssid and resolveConnectSecurity together).
SetupCanSucceed ==
    (pc = "add" /\ scan # <<>>) =>
        LET meets(ap) == /\ ap.ssid = cmd.ssid /\ InBand(ap, cmd)
                         /\ cmd.bssid \in {Blank, ap.bssid}
                         /\ Supports(ap.caps, cmd.security) /\ ap.caps # {}
        IN  (\E i \in 1..Len(scan) : meets(scan[i]))
            => \E i \in 1..Len(scan) : /\ meets(scan[i])
                                       /\ Admits(Configuration, scan[i])

\* Every step of a cycle that began to connect is cleaned up before the next
\* one and before the command returns, also when it is interrupted
\* (CommandExecutor.cycleWifi), and a cycle that forgets and reports OK leaves
\* no profile of its SSID where Android lists them; where it hides them, a
\* profile of a network that is not connected counts as absent
\* (WifiConnector.kt:283).
CycleCleansUp ==
    /\ pc = "idle" => ~ dirty
    /\ (listed /\ pc = "idle" /\ cmd.kind = "cycle" /\ result = "OK" /\ cmd.forget)
        => \A n \in saved : n.ssid # cmd.ssid
=============================================================================

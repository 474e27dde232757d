-------------------------- MODULE WifiCommandsProofs --------------------------
(***************************************************************************)
(* For any access points, commands and interrupts: a pinned connect is     *)
(* served by no other access point, and a cycle cleans up after each step. *)
(***************************************************************************)
EXTENDS WifiCommands, TLAPS

Kinds == {"connect", "cycle", "wait", "assert", "disconnect", "forget", "reconnect"}

(* CommandExecutor dispatches commands of these kinds, and count is not    *)
(* negative.                                                               *)
WifiAssumption ==
  /\ \A c \in Commands : c.kind \in Kinds
  /\ MaxCount \in Nat

Connects == cmd.kind \in {"connect", "cycle"}
Pins     == pin # Blank /\ clean /\ Connects

(* The commands that are one framework call are at the place of their name.*)
OwnPlace == pc \in {"disconnect", "forget", "reconnect"} => cmd.kind = pc

(* An association rests on a configured network that admits it.            *)
LinkSaved ==
  link # NoLink =>
    /\ link = [ap |-> link.ap, sec |-> link.sec, ip |-> link.ip, via |-> link.via]
    /\ link.via \in saved
    /\ Admits(link.via, link.ap)

(* From the removal of the conflicting profiles to the end of the polling, *)
(* the SSID has no profile but pinned ones.                                *)
PinnedOnly ==
  pc \in {"add", "enable", "join", "poll", "sleep"} /\ Pins =>
    \A n \in saved : n.ssid = cmd.ssid => n.bssid = pin

(* A connect that is about to remove them has not done so yet.             *)
NotYetClean == pc = "unpin" => ~clean

PinInv == OwnPlace /\ LinkSaved /\ PinnedOnly /\ NotYetClean

LEMMA Removed ==
  ASSUME NEW nets, RemoveNetworks(nets), LinkSaved
  PROVE  LinkSaved' /\ saved' \subseteq saved
  BY DEF RemoveNetworks, LinkSaved, Admits

LEMMA Unlinked == ASSUME LinkSaved, link' \in {link, NoLink}, saved \subseteq saved' PROVE LinkSaved'
  BY DEF LinkSaved, Admits

LEMMA Forgotten == ASSUME NEW ok \in BOOLEAN, Forgets(ok), LinkSaved PROVE LinkSaved'
<1> DEFINE nets == {n \in saved : n.ssid = cmd.ssid /\ (listed \/ n = link.via)}
<1>1. CASE RemoveNetworks(nets)
  BY <1>1, Removed
<1>2. CASE RemoveSome(nets)
  <2>1. PICK gone \in SUBSET nets : RemoveNetworks(gone)
    BY <1>2 DEF RemoveSome
  <2>. QED BY <2>1, Removed
<1>3. CASE UNCHANGED <<saved, link>>
  BY <1>3, Unlinked
<1>. QED BY <1>1, <1>2, <1>3 DEF Forgets

LEMMA PinStep == ASSUME WifiAssumption PROVE PinInv /\ [Next]_vars => PinInv'
<1> SUFFICES ASSUME PinInv, [Next]_vars PROVE PinInv'
  OBVIOUS
<1> USE DEF PinInv
<1>1. ASSUME UNCHANGED <<saved, cmd, pin>>, LinkSaved',
             pc' \in {"disconnect", "forget", "reconnect"} => pc' = pc,
             clean' => clean,
             pc' \in {"add", "enable", "join", "poll", "sleep"} /\ clean' /\ Connects =>
               pc \in {"add", "enable", "join", "poll", "sleep"},
             pc' = "unpin" => pc = "unpin"
      PROVE  PinInv'
  BY <1>1 DEF OwnPlace, PinnedOnly, Pins, Connects, NotYetClean
<1>2. CASE Associate \/ GetAddress \/ Drop
  <2>1. UNCHANGED <<saved, cmd, pc, pin, clean>>
    BY <1>2 DEF Associate, GetAddress, Drop, staged
  <2>2. LinkSaved'
    <3>1. CASE Associate
      <4>1. PICK n \in saved, ap \in ToSet(Aps) :
                   Admits(n, ap) /\ link' = [ap |-> ap, sec |-> n.sec, ip |-> FALSE, via |-> n]
        BY <3>1 DEF Associate
      <4>. QED BY <2>1, <4>1 DEF LinkSaved, Admits
    <3>2. CASE GetAddress
      <4>1. link # NoLink /\ link' = [link EXCEPT !.ip = TRUE]
        BY <3>2 DEF GetAddress
      <4>2. link' = [ap |-> link.ap, sec |-> link.sec, ip |-> TRUE, via |-> link.via]
        BY <4>1 DEF LinkSaved
      <4>. QED BY <2>1, <4>1, <4>2 DEF LinkSaved, Admits
    <3>3. CASE Drop
      BY <2>1, <3>3, Unlinked DEF Drop
    <3>. QED BY <1>2, <3>1, <3>2, <3>3
  <2>. QED BY <1>1, <2>1, <2>2
<1>3. CASE Execute
  <2>1. PICK c \in Commands :
               /\ cmd' = c
               /\ pc' = CASE c.kind \in {"connect", "cycle"} -> "connect"
                          [] c.kind \in {"wait", "assert"} -> "poll"
                          [] OTHER -> c.kind
    BY <1>3 DEF Execute
  <2>2. UNCHANGED <<saved, link>> /\ clean' = FALSE
    BY <1>3 DEF Execute, world
  <2>3. OwnPlace'
    BY <2>1 DEF OwnPlace, WifiAssumption, Kinds
  <2>4. LinkSaved'
    BY <2>2, Unlinked
  <2>. QED BY <2>2, <2>3, <2>4 DEF PinnedOnly, Pins, NotYetClean
<1>4. ASSUME SetupFails
      PROVE  pc' \in {"cleanup", "idle"}
  BY <1>4 DEF SetupFails, End
<1>5. CASE Connect
  <2>1. UNCHANGED <<saved, link, cmd>> /\ clean' = FALSE /\ pc' \in {"poll", "unpin"}
    BY <1>5 DEF Connect, world
  <2>2. LinkSaved'
    BY <2>1, Unlinked
  <2>. QED BY <2>1, <2>2 DEF PinnedOnly, Pins, OwnPlace, NotYetClean
<1>6. CASE CleanupConflicting
  <2>1. UNCHANGED <<cmd, pin>> /\ pc' \in {"add", "cleanup", "idle"} /\ pc = "unpin"
    BY <1>4, <1>6 DEF CleanupConflicting
  <2>2. CASE RemoveNetworks(Conflicting(cmd, pin)) /\ clean' = listed
    <3>1. pin # Blank /\ listed => \A n \in saved' : n.ssid = cmd.ssid => n.bssid = pin
      BY <2>2 DEF RemoveNetworks, Conflicting
    <3>2. LinkSaved'
      BY <2>2, Removed
    <3>. QED BY <2>1, <2>2, <3>1, <3>2 DEF OwnPlace, PinnedOnly, Pins, NotYetClean
  <2>3. CASE UNCHANGED <<saved, link, clean>>
    <3>1. LinkSaved'
      BY <2>3, Unlinked
    <3>2. ~clean
      BY <2>1 DEF NotYetClean
    <3>. QED BY <2>1, <2>3, <3>1, <3>2 DEF OwnPlace, PinnedOnly, Pins, NotYetClean
  <2>4. CASE RemoveSome(Conflicting(cmd, pin)) /\ SetupFails
    <3>1. PICK gone \in SUBSET Conflicting(cmd, pin) : RemoveNetworks(gone)
      BY <2>4 DEF RemoveSome
    <3>2. LinkSaved'
      BY <3>1, Removed
    <3>. QED BY <1>4, <2>1, <2>4, <3>2 DEF OwnPlace, PinnedOnly, NotYetClean
  <2>. QED BY <1>6, <2>2, <2>3, <2>4 DEF CleanupConflicting
<1>7. CASE AddNetwork
  <2>1. UNCHANGED <<cmd, pin, clean>> /\ pc = "add" /\ pc' \in {"enable", "cleanup", "idle"}
    BY <1>4, <1>7 DEF AddNetwork, staged
  <2>2. saved' \in {saved, saved \cup {Configuration}} /\ link' = link
    BY <1>7 DEF AddNetwork
  <2>3. LinkSaved'
    BY <2>2, Unlinked
  <2>4. Configuration.ssid = cmd.ssid /\ Configuration.bssid = pin
    BY DEF Configuration
  <2>5. Pins => \A n \in saved' : n.ssid = cmd.ssid => n.bssid = pin
    BY <2>1, <2>2, <2>4 DEF PinnedOnly
  <2>6. Pins' <=> Pins
    BY <2>1 DEF Pins, Connects
  <2>7. PinnedOnly'
    BY <2>1, <2>5, <2>6 DEF PinnedOnly
  <2>. QED BY <2>1, <2>3, <2>7 DEF OwnPlace, NotYetClean
<1>8. CASE Poll \/ Sleep
  <2>1. UNCHANGED <<saved, link, cmd, pin, clean>> /\ pc \in {"poll", "sleep"}
        /\ pc' \in {"idle", "probe", "poll", "sleep", "cleanup"}
    BY <1>4, <1>8 DEF Poll, Sleep, End, world, staged
  <2>2. LinkSaved'
    BY <2>1, Unlinked
  <2>. QED BY <1>1, <2>1, <2>2
<1>9. CASE Probe \/ NextStep
  <2>1. UNCHANGED <<saved, link, cmd, pin, clean>> /\ pc' \in {"idle", "cleanup", "connect"}
    BY <1>9 DEF Probe, NextStep, End, world, staged
  <2>2. LinkSaved'
    BY <2>1, Unlinked
  <2>. QED BY <2>1, <2>2 DEF OwnPlace, PinnedOnly, NotYetClean
<1>10. CASE Cleanup \/ Forget \/ Disconnect
  <2>1. pc' \in {"idle", "stepped"}
    BY <1>10 DEF Cleanup, Forget, Disconnect, End
  <2>2. (\E ok \in BOOLEAN : Forgets(ok)) \/ (saved' = saved /\ link' \in {link, NoLink})
    BY <1>10 DEF Cleanup, Forget, Disconnect, Disconnects
  <2>3. LinkSaved'
    BY <2>2, Forgotten, Unlinked
  <2>. QED BY <2>1, <2>3 DEF OwnPlace, PinnedOnly, NotYetClean
<1>11. CASE Reconnect
  <2>1. UNCHANGED <<saved, link, cmd, pin, clean>> /\ pc = "reconnect" /\ pc' = "poll"
    BY <1>11 DEF Reconnect, staged
  <2>2. LinkSaved' /\ ~Connects'
    BY <2>1, Unlinked DEF OwnPlace, Connects
  <2>. QED BY <2>1, <2>2 DEF OwnPlace, PinnedOnly, Pins, NotYetClean
<1>12. CASE Interrupt \/ UNCHANGED vars
  <2>1. UNCHANGED <<saved, link, cmd, pc, pin, clean>>
    BY <1>12 DEF Interrupt, vars, world, staged
  <2>2. LinkSaved'
    BY <2>1, Unlinked
  <2>. QED BY <1>1, <2>1, <2>2
<1>13. CASE EnableNetwork \/ Join
  <2>1. UNCHANGED <<saved, cmd, pin, clean>> /\ link' \in {link, NoLink}
        /\ pc \in {"enable", "join"} /\ pc' \in {"join", "poll", "cleanup", "idle"}
    BY <1>4, <1>13 DEF EnableNetwork, Join, staged
  <2>2. LinkSaved'
    BY <2>1, Unlinked
  <2>. QED BY <1>1, <2>1, <2>2
<1>. QED BY <1>2, <1>3, <1>5, <1>6, <1>7, <1>8, <1>9, <1>10, <1>11, <1>12, <1>13
     DEF Next, Framework, Worker

(* While a connect with a BSSID or a band waits for its network, and the   *)
(* conflicting profiles were removed, the handset is not on another access *)
(* point of the SSID, whatever the framework does on its own.              *)
THEOREM PinIsKept == ASSUME WifiAssumption PROVE Spec => []PinHolds
<1>1. Init => PinInv
  BY DEF Init, PinInv, OwnPlace, LinkSaved, PinnedOnly, Pins, NotYetClean
<1>2. PinInv /\ [Next]_vars => PinInv'
  BY PinStep
<1>3. PinInv => PinHolds
  BY DEF PinInv, LinkSaved, Admits, PinnedOnly, Pins, Connects, PinHolds
<1>. QED BY <1>1, <1>2, <1>3, PTL DEF Spec

-----------------------------------------------------------------------------
(* A step of a cycle is open from its start to the end of its cleanup.     *)
Working == {"connect", "unpin", "add", "enable", "join", "poll", "sleep", "probe", "cleanup"}

Clear == listed => \A n \in saved : n.ssid # cmd.ssid

StepOpen ==
  /\ dirty => cmd.kind = "cycle" /\ pc \in Working
  /\ pc \in {"probe", "cleanup", "stepped"} => cmd.kind = "cycle"

(* Before its cleanup the step at hand has not passed; after it, as many   *)
(* steps passed as were made only if its profiles are gone, too.           *)
Tally ==
  cmd.kind = "cycle" =>
    /\ step \in Nat /\ good \in Nat
    /\ pc \in Working => good < step
    /\ pc = "stepped" => good <= step /\ (good = step /\ cmd.forget => Clear)
    /\ pc = "idle" /\ result = "OK" /\ cmd.forget => Clear

CycleInv == OwnPlace /\ StepOpen /\ Tally

LEMMA CycleStep == ASSUME WifiAssumption PROVE CycleInv /\ [Next]_vars => CycleInv'
<1> SUFFICES ASSUME CycleInv, [Next]_vars PROVE CycleInv'
  OBVIOUS
<1> USE DEF CycleInv, cycle
(* A step under way goes on.                                               *)
<1>0. listed' = listed
  BY DEF Next, vars
<1>1. ASSUME UNCHANGED <<cmd, step, good, dirty>>, cmd.kind = "cycle", pc \in Working, pc' \in Working
      PROVE  CycleInv'
  BY <1>1 DEF OwnPlace, StepOpen, Tally, Working
(* Another command goes on, or ends.                                       *)
<1>2. ASSUME UNCHANGED <<cmd, dirty>>, cmd.kind # "cycle",
             pc' \in {"idle", "connect", "unpin", "add", "enable", "join", "poll", "sleep"}
      PROVE  CycleInv'
  BY <1>2 DEF OwnPlace, StepOpen, Tally, Working
<1>3. CASE Associate \/ GetAddress \/ Drop \/ Interrupt \/ UNCHANGED vars
  <2>1. UNCHANGED <<saved, cmd, pc, step, good, dirty, result>>
    BY <1>3 DEF Associate, GetAddress, Drop, Interrupt, vars, world
  <2>. QED BY <1>0, <2>1 DEF OwnPlace, StepOpen, Tally, Clear
<1>4. CASE Execute
  <2>1. PICK c \in Commands :
               /\ cmd' = c
               /\ pc' = CASE c.kind \in {"connect", "cycle"} -> "connect"
                          [] c.kind \in {"wait", "assert"} -> "poll"
                          [] OTHER -> c.kind
               /\ step' = IF c.kind = "cycle" THEN 1 ELSE 0
               /\ dirty' = (c.kind = "cycle")
    BY <1>4 DEF Execute
  <2>2. good' = 0
    BY <1>4 DEF Execute
  <2>3. OwnPlace'
    BY <2>1 DEF OwnPlace, WifiAssumption, Kinds
  <2>4. /\ cmd'.kind = "cycle" => pc' = "connect" /\ step' = 1
        /\ dirty' => cmd'.kind = "cycle"
        /\ pc' \notin {"probe", "cleanup", "stepped"}
    BY <2>1 DEF WifiAssumption, Kinds
  <2>. QED BY <2>2, <2>3, <2>4 DEF StepOpen, Tally, Working
<1>5. ASSUME SetupFails, UNCHANGED cmd, pc \in Working
      PROVE  CycleInv'
  <2>1. CASE cmd.kind = "cycle"
    BY <1>1, <1>5, <2>1 DEF SetupFails, Working
  <2>2. CASE cmd.kind # "cycle"
    BY <1>2, <1>5, <2>2 DEF SetupFails, End
  <2>. QED BY <2>1, <2>2
<1>6. ASSUME UNCHANGED <<cmd, step, good, dirty>>, pc \in Working, pc' \in Working,
             pc' \in {"probe", "cleanup"} => cmd.kind = "cycle"
      PROVE  CycleInv'
  BY <1>1, <1>2, <1>6 DEF Working
<1>7. CASE Connect
  BY <1>6, <1>7 DEF Connect, Working
<1>8. CASE CleanupConflicting
  BY <1>5, <1>6, <1>8 DEF CleanupConflicting, Working
<1>9. CASE AddNetwork
  BY <1>5, <1>6, <1>9 DEF AddNetwork, Working
<1>10. CASE Poll
  <2>1. CASE cmd.kind # "cycle" /\ End("OK") /\ UNCHANGED cycle
    BY <1>2, <1>10, <2>1 DEF Poll, End
  <2>. QED BY <1>5, <1>6, <1>10, <2>1 DEF Poll, Working
<1>11. CASE Sleep
  <2>1. CASE cmd.kind # "cycle" /\ End("CANCELED")
    BY <1>2, <1>11, <2>1 DEF Sleep, End
  <2>. QED BY <1>6, <1>11, <2>1 DEF Sleep, Working
<1>12. CASE Probe
  BY <1>6, <1>12 DEF Probe, Working, StepOpen
<1>13. CASE Cleanup
  <2>1. pc = "cleanup" /\ dirty' = FALSE /\ UNCHANGED <<cmd, step>>
        /\ ((pc' = "idle" /\ result' = "CANCELED") \/ pc' = "stepped")
    BY <1>13 DEF Cleanup, End
  <2>2. PICK ok \in BOOLEAN :
               /\ cmd.forget => Forgets(ok)
               /\ stepOk' = (stepOk /\ ok)
               /\ good' = IF stepOk' THEN good + 1 ELSE good
    BY <1>13 DEF Cleanup
  <2>3. cmd.kind = "cycle" => step \in Nat /\ good \in Nat /\ good < step
    BY <2>1 DEF Tally, Working
  <2>4. cmd.kind = "cycle" => good' \in Nat /\ good' <= step /\ (good' = step => ok)
    BY <2>2, <2>3
  <2>5. ok /\ cmd.forget => Clear'
    BY <1>0, <2>1, <2>2 DEF Forgets, RemoveNetworks, Clear
  <2>. QED BY <2>1, <2>3, <2>4, <2>5 DEF OwnPlace, StepOpen, Tally, Working
<1>14. CASE NextStep
  <2>1. pc = "stepped" /\ ~dirty /\ UNCHANGED <<cmd, good, saved>>
    BY <1>14 DEF NextStep, StepOpen, Working, world
  <2>2. CASE pc' = "connect"
    <3>1. step' = step + 1 /\ dirty'
      BY <1>14, <2>2 DEF NextStep, End
    <3>2. cmd.kind = "cycle"
      BY <2>1 DEF StepOpen
    <3>. QED BY <2>1, <2>2, <3>1, <3>2 DEF OwnPlace, StepOpen, Tally, Working
  <2>3. CASE pc' = "idle"
    <3>1. UNCHANGED <<step, dirty>> /\ (result' = "OK" => good = step)
      BY <1>14, <2>3 DEF NextStep, End
    <3>. QED BY <1>0, <2>1, <2>3, <3>1 DEF OwnPlace, StepOpen, Tally, Working, Clear
  <2>. QED BY <1>14, <2>2, <2>3 DEF NextStep, End
<1>15. CASE Forget \/ Disconnect
  <2>1. cmd.kind # "cycle" /\ pc' = "idle" /\ UNCHANGED <<cmd, dirty>>
    BY <1>15 DEF Forget, Disconnect, End, OwnPlace
  <2>. QED BY <1>2, <2>1
<1>16. CASE Reconnect
  <2>1. cmd.kind # "cycle" /\ pc' = "poll" /\ UNCHANGED <<cmd, dirty>>
    BY <1>16 DEF Reconnect, OwnPlace
  <2>. QED BY <1>2, <2>1 DEF Working
<1>17. CASE EnableNetwork \/ Join
  BY <1>5, <1>6, <1>17 DEF EnableNetwork, Join, Working
<1>. QED BY <1>3, <1>4, <1>7, <1>8, <1>9, <1>10, <1>11, <1>12, <1>13, <1>14, <1>15, <1>16, <1>17
     DEF Next, Framework, Worker

(* A cycle never ends with a step that was opened and not cleaned up, and  *)
(* one that forgets and passes leaves no profile of its SSID.              *)
THEOREM CyclesCleanUp == ASSUME WifiAssumption PROVE Spec => []CycleCleansUp
<1>1. Init => CycleInv
  BY DEF Init, CycleInv, OwnPlace, StepOpen, Tally, NoCommand
<1>2. CycleInv /\ [Next]_vars => CycleInv'
  BY CycleStep
<1>3. CycleInv => CycleCleansUp
  BY DEF CycleInv, StepOpen, Tally, Working, Clear, CycleCleansUp
<1>. QED BY <1>1, <1>2, <1>3, PTL DEF Spec
=============================================================================

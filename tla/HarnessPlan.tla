----------------------------- MODULE HarnessPlan -----------------------------
(***************************************************************************)
(* What one agent does in one round of a compiled plan, in order: the      *)
(* control flow of runAgentRound and runTarget (harness/execute.go) laid   *)
(* out as an agenda.  An item says what is done there; whether it is done, *)
(* skipped or passed over is decided by HarnessRun when the agent gets     *)
(* there.                                                                  *)
(*                                                                         *)
(* A plan is a sequence of targets, records with                           *)
(*   id, ssid, band   identity; band is "all" when the target names none,  *)
(*   rotation         "none", "per_target" or "per_round",                 *)
(*   connect, wait    whether the target has these steps,                  *)
(*   checks           a sequence of [id, required],                        *)
(*   after            the cleanup operations, disconnect before forget,    *)
(*   agents           the agents the target is bound to.                   *)
(***************************************************************************)
EXTENDS Integers, Sequences

LOCAL INSTANCE SequencesExt

Item(kind, t, id, required) ==
  [kind |-> kind, target |-> t.id, id |-> id, required |-> required,
   ssid |-> t.ssid, band |-> t.band, rotation |-> t.rotation, after |-> t.after]

(* The steps of a target with their place in the order of runTarget.       *)
TargetItems(t) ==
  LET Opt(cond, item) == IF cond THEN <<item>> ELSE <<>>
      Checks == [i \in DOMAIN t.checks |->
                   Item("check", t, t.checks[i].id, t.checks[i].required)]
  IN <<Item("target", t, "", FALSE)>>
     \o Opt(t.rotation = "per_target", Item("rotate", t, "rotation/before_target", TRUE))
     \o Opt(t.connect, Item("connect", t, "connect", TRUE))
     \o Opt(t.wait, Item("wait", t, "wait_connected", TRUE))
     \o Checks
     \o <<Item("cleanup", t, "cleanup", FALSE)>>

(* The first target of each SSID that is rotated per round: the rotation   *)
(* step is run in the name of that target.                                 *)
RotationLeads(ts) ==
  LET Lead(i) == /\ ts[i].rotation = "per_round"
                 /\ \A j \in 1 .. i - 1 :
                      ~(ts[j].rotation = "per_round" /\ ts[j].ssid = ts[i].ssid)
  IN SelectSeq([i \in DOMAIN ts |-> i], Lead)

RotationItems(ts, kind, id) ==
  LET leads == RotationLeads(ts)
  IN [i \in DOMAIN leads |-> Item(kind, ts[leads[i]], id, TRUE)]

(* One capability check, if some target names a band.                      *)
PreflightItems(ts) ==
  LET banded == SelectSeq(ts, LAMBDA t : t.band # "all")
  IN IF banded = <<>> THEN <<>>
     ELSE <<[Item("preflight", Head(banded), "capabilities", FALSE) EXCEPT !.target = "preflight"]>>

AgendaOf(plan, a) ==
  LET ts == SelectSeq(plan, LAMBDA t : a \in t.agents)
  IN PreflightItems(ts)
     \o RotationItems(ts, "rotateBefore", "rotation/before_round")
     \o FlattenSeq([i \in DOMAIN ts |-> TargetItems(ts[i])])
     \o RotationItems(ts, "rotateAfter", "rotation/after_round")
=============================================================================

---------------------------- MODULE MCHarnessRun -----------------------------
(* Plans and requests for TLC.                                             *)
EXTENDS HarnessPlan

Target(id, ssid, band, rotation, checks, after, agents) ==
  [id |-> id, ssid |-> ssid, band |-> band, rotation |-> rotation, connect |-> TRUE,
   wait |-> FALSE, checks |-> checks, after |-> after, agents |-> agents]

Both == <<"disconnect", "forget">>
Required(id) == [id |-> id, required |-> TRUE]

(* Two agents: an owned target that is rotated per round, and a read-only  *)
(* one.                                                                    *)
PairPlan ==
  <<Target("t1", "s1", "all", "per_round", <<>>, <<"disconnect">>, {"a"}),
    [Target("t2", "s2", "all", "none", <<Required("c1")>>, <<>>, {"b"}) EXCEPT !.connect = FALSE]>>
PairAgenda == [a \in {"a", "b"} |-> AgendaOf(PairPlan, a)]

(* Two agents on one target, with cleanup.                                 *)
TeamPlan == <<Target("t1", "s1", "all", "none", <<>>, Both, {"a", "b"})>>
TeamAgenda == [a \in {"a", "b"} |-> AgendaOf(TeamPlan, a)]

(* One agent, a target with every kind of step, then a plain one.          *)
StepsPlan ==
  <<[Target("t1", "s1", "5g", "per_target", <<Required("c1"), [id |-> "c2", required |-> FALSE]>>,
            Both, {"a"}) EXCEPT !.wait = TRUE],
    [Target("t2", "s2", "all", "none", <<Required("c1")>>, <<>>, {"a"}) EXCEPT !.connect = FALSE]>>
StepsAgenda == [a \in {"a"} |-> AgendaOf(StepsPlan, a)]

(* The smallest owned target, for many rounds.                             *)
LoopPlan == <<Target("t1", "s1", "all", "none", <<>>, <<"disconnect">>, {"a"})>>
LoopAgenda == [a \in {"a"} |-> AgendaOf(LoopPlan, a)]

OneAgent == {"a"}
TwoAgents == {"a", "b"}

ScopeOf(kind, a, t, c) == [kind |-> kind, agent |-> a, target |-> t, check |-> c]
All(scopes) == [action : {"pause", "resume", "skip", "cancel"}, scope : scopes]

PairRequests == All({ScopeOf("agent", "a", "", "")})
                \cup [action : {"pause", "resume"}, scope : {ScopeOf("run", "", "", "")}]
StepsRequests == All({ScopeOf("check", "a", "t1", "c1"), ScopeOf("target", "a", "t1", ""),
                      ScopeOf("agent", "a", "", "")})
TeamRequests == [action : {"pause", "cancel"},
                 scope : {ScopeOf("target", "a", "t1", ""), ScopeOf("run", "", "", "")}]
LoopRequests == All({ScopeOf("run", "", "", "")})
                \cup [action : {"skip", "cancel"}, scope : {ScopeOf("target", "a", "t1", "")}]
MayFail == BOOLEAN
Reliable == {FALSE}
=============================================================================

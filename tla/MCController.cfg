\* The control server with an agent that reconnects, the check policy, session
\* start, workflow and dashboard of the controller, and its pure parts on
\* bounded inputs. A part may come to rest.
CONSTANTS
  Inputs <- PolicyInputs
  OpTimeout = 2
  MaxOp = 1
  MaxDuration = 127
  MaxRetained = 20
  Second = 1
  Causes = {"skip"}
  Raw = {"pass", "fail", "canceled"}
  Incarnations = {s1, s2}
  Callers = {c1, c2}
SPECIFICATION ControllerSpec
SYMMETRY Symmetry
INVARIANTS
  RegistryLive
  WaitersOwned
  NeverStranded
  AnswersFromBoundStream
  PassIsEarned
  PolicyFits
  RulesReleased
  NoMissedAgent
  RetainedComplete
  DashboardAgrees
PROPERTIES
  CommandsAgree
  ReportHonest
  StableWindowWatched
CHECK_DEADLOCK FALSE

\* The deadlines of commands beside the agent's own limits.
CONSTANTS
  Inputs <- PolicyInputs
  OpTimeout = 2
  MaxOp = 1
  MaxDuration = 127
  MaxRetained = 20
  Second = 1
  Causes = {"skip"}
  Raw = {"pass", "fail", "canceled"}
  Incarnations = {s1, s2}
  Callers = {c1, c2}
SPECIFICATION ControllerSpec
SYMMETRY Symmetry
PROPERTIES
  DeadlineOutlastsAgent
CHECK_DEADLOCK FALSE

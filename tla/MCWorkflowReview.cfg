\* Two agents, two plans and two runs of which one is retained, a channel of one
\* slot and two controls.
SPECIFICATION Spec
CONSTANTS
  Agents = {"a1", "a2"}
  Capacity = 1
  MaxRetained = 1
  MaxPlans = 2
  MaxRuns = 2
  MaxSteps = 0
  MaxControls = 2
INVARIANTS
  ReviewRetained
CHECK_DEADLOCK FALSE

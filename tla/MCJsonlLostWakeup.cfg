SPECIFICATION FairSpec
CONSTANTS
  Emitters = {"e1", "e2", "e3"}
  Cap = 1
PROPERTIES
  EmitDelivers
CHECK_DEADLOCK FALSE

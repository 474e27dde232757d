\* The JSONL sink and the workflow of the terminal UI under fairness. Both come
\* to rest.
CONSTANTS
  Emitters = {"e1", "e2", "e3"}
  Cap = 1
SPECIFICATION ControllerSpec
INVARIANTS
  DrainsInOrder
  SuccessIsDurable
PROPERTIES
  SinkReturns
  NeverWedged
CHECK_DEADLOCK FALSE

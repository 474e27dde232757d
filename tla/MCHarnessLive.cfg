\* A loop of one agent with retries, failing sinks and one request, or a team of
\* two agents on one target with one request. A run comes to rest at its end.
SPECIFICATION LiveSpec
CONSTANTS
  Agents <- OneAgent
  Agenda <- LoopAgenda
  Requests <- LoopRequests
  Attempts = 2
  Rounds = 4
  Loop = TRUE
  MaxRequests = 1
  Deliveries <- MayFail
  Bands = {}
  Raw = {"pass", "error"}
INVARIANTS
  VerdictRemembers
PROPERTIES
  StopsWhenAsked
  TeamRunEnds
CHECK_DEADLOCK FALSE

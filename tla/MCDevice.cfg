\* Every part of the agent on its small instance; under fairness for the
\* service. A part may come to rest.
CONSTANTS
  Tasks = {"t1", "t2", "t4"}
  Cancels = {"x", "y"}
  NoTask = "none"
  IdOf <- DeviceIds
SPECIFICATION DeviceSpec
INVARIANTS
  Reachable
  NoWorkLeft
  NoSilentGap
  ResultReachesScreen
  LinkPassEarned
  PinHolds
  CycleCleansUp
PROPERTIES
  CleanupSparesNewer
  LastSessionStopsService
CHECK_DEADLOCK FALSE

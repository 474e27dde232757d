\* Three commands of one ID, which may be cancelled. A part may come to rest.
CONSTANTS
  Tasks = {"t1", "t2", "t3"}
  Cancels = {"x"}
  NoTask = "none"
  IdOf <- DeviceIds
SPECIFICATION DeviceSpec
INVARIANTS
  OneOwner
CHECK_DEADLOCK FALSE

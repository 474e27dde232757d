\* Runs, plans and evidence. A finished run or a judged input is at rest.
SPECIFICATION HarnessSpec
INVARIANTS
  InterruptsSelected
  BlockedOnlyWhilePaused
  OutcomesCover
PROPERTIES
  DispatchGated
  CleanupExact
  ReadersAgree
  EvidenceHonest
  PlanSound
CHECK_DEADLOCK FALSE

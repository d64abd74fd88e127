SPECIFICATION Spec
CONSTANTS
  Other = Other
  Null = Null
  None = None
  Absent = Absent
  PerkBits = 2
  Matches <- MCMatches
  Snapshots <- MCSnapshots
INVARIANTS
  EventsFiledOnce
  DamageJoinsItsKill
  NothingLostSilently
  RejectionIsReported
  PerkKeyIsThePage
  PlanFollowsTheTree
CHECK_DEADLOCK FALSE

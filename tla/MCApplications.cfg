SPECIFICATION Spec
CONSTANTS
  s1 = s1  d1 = d1  r1 = r1  r2 = r2
  None = None
  Student <- OneStudent
  Drive <- OneDrive
  Request <- TwoRequests
  Position <- Positions
  SetStatuses <- Statuses
INVARIANT StatusExplained
PROPERTIES StatusHistory AppliedWhileAllowed ProposedInDraft
CHECK_DEADLOCK FALSE

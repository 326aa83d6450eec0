CONSTANTS
  Student = {"ana", "ben"}
  Department = {"CSE", "ECE"}
  Worker = {w1, w2}
  Null = Null
  DepartmentOf <- MCDepartmentOf
  MaxChanges = 2
  MaxCrashes = 1
SPECIFICATION FairSpec
INVARIANTS
  SummaryWasTrue
  OneRowPerScope
PROPERTIES
  DashboardCatchesUp
CHECK_DEADLOCK FALSE

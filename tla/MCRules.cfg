CONSTANTS
  NoPolicy = NoPolicy
  Missing = Missing
  Malformed = Malformed
  None = None
  Null = Null
  MaxCtc = 3
  MaxExisting = 3
  Student = {"ana", "ben"}
  Department = {"CSE", "ECE"}
  DepartmentOf <- MCDepartmentOf
SPECIFICATION Spec
INVARIANTS
  OfferRulesAgree
  BetterStaysEligible
  ListAgreesWithFindOne
  WritesStayInScope
  KpiMatchesDrilldown
  PagesAnswered
  ButtonsAccepted
  MutationsRefresh
  FitNeverHidesEligible
CHECK_DEADLOCK FALSE

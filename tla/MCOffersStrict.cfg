CONSTANTS
  NoPolicy = NoPolicy
  None = None
  Student = {s1}
  Offer = {o1, o2}
  Request = {r1, r2}
  ProposedSlabs = {"null"}
  CapPolicies <- MCStrictOnly
  ReEligibilityPolicies <- MCDefaultOnly
  DebarPolicies <- MCDefaultOnly
SPECIFICATION FairSpec
INVARIANTS
  OneActiveInTotal
PROPERTIES
  RequestsFinish
CHECK_DEADLOCK FALSE

CONSTANTS
  NoPolicy = NoPolicy
  None = None
  Student = {s1}
  Offer = {o1, o2}
  Request = {r1, r2}
  ProposedSlabs = {"DREAM"}
  CapPolicies <- MCDefaultOnly
  ReEligibilityPolicies <- MCDefaultOnly
  DebarPolicies <- MCDefaultOnly
SPECIFICATION Spec
PROPERTIES
  AcceptFailsClosed
CHECK_DEADLOCK FALSE

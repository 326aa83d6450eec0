CONSTANTS
  NoPolicy = NoPolicy
  None = None
  Student = {s1}
  Offer = {o1, o2}
  Request = {r1, r2}
  ProposedSlabs = {"NON_DREAM", "DREAM"}
  CapPolicies <- MCCapPolicies
  ReEligibilityPolicies <- MCReEligibility
  DebarPolicies <- MCDebarPolicies
SYMMETRY Symmetry
SPECIFICATION Spec
INVARIANTS
  OneActivePerTier
  PlacedIffAccepted
PROPERTIES
  AcceptClimbs
  ImplementsLedger
  OfferHistory
CHECK_DEADLOCK FALSE

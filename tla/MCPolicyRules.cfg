SPECIFICATION Spec
CONSTANTS
  q1 = q1  q2 = q2  q3 = q3  q4 = q4
  f1 = f1  f2 = f2
  r1 = r1  r2 = r2
  None = None
  Rule <- MCRule
  Family <- MCFamily
  Request <- MCRequest
SYMMETRY Symmetry
INVARIANTS OneActiveUnlessOverlapped
PROPERTIES NeverWithoutRule ArchivedStaysUnlessOverlapped
CHECK_DEADLOCK FALSE

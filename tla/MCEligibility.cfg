CONSTANTS
  Missing = Missing
  Malformed = Malformed
  None = None
  s1 = s1
  s2 = s2
  q1 = q1
  q2 = q2
  Student = {s1, s2}
  Rule = {q1, q2}
  Request = {r1, r2}
  MaxChanges = 1
  MaxRequests = 3
  Marks <- MCMarks
  Programs <- MCPrograms
  MinCriteria <- MCMinCriteria
  Definition <- MCDefinition
SYMMETRY Symmetry
SPECIFICATION Spec
INVARIANTS
  VerdictsWereTrue
  OneRowUnlessOvertaken
  RefreshReachesBatch
  DryRunForetells
CHECK_DEADLOCK FALSE

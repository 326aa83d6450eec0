--------------------------- MODULE MCEligibility ---------------------------
(***************************************************************************)
(* Constants for the run of Eligibility: a student above the thresholds    *)
(* and one whose mark is missing or low, two institution rules, a job      *)
(* description that overrides one of their fields, or does not parse.      *)
(***************************************************************************)
EXTENDS Eligibility

CONSTANTS s1, s2, q1, q2

Good == [cgpa |-> 8, tenthPercent |-> 8, twelfthPercent |-> 8, activeBacklogs |-> 0,
         backlogHistory |-> 0, gapYears |-> 0, diplomaFlag |-> FALSE,
         category |-> "GEN", placementStatus |-> "UNPLACED", departmentCode |-> "CSE"]

Weak == [Good EXCEPT !.cgpa = 6, !.activeBacklogs = 1, !.twelfthPercent = Missing]

MCMarks == {(s1 :> Good) @@ (s2 :> Weak)}

MCPrograms == {{"CSE"}}

MCMinCriteria == {[minCgpa |-> 7], Malformed}

MCDefinition ==
  (q1 :> [minCgpa |-> 5, maxGapYears |-> 0])
    @@ (q2 :> [minTwelfthPercent |-> 6, maxActiveBacklogs |-> 1])

Symmetry == Permutations(Request)
=============================================================================

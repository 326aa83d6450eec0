----------------------------- MODULE Evaluators -----------------------------
(***************************************************************************)
(* The ten rule evaluators of apps/api/src/modules/eligibility/            *)
(* rule-evaluators and the criteria they read.                             *)
(*                                                                         *)
(* Data abstraction.  Marks and counts are naturals; a column that is null *)
(* holds Missing.  Criteria are a function on the fields that are set, so  *)
(* "the field is undefined" is "the field is not in the domain", and a     *)
(* definition the schema refuses (a minCgpa of 11, say) is Malformed.      *)
(* Reasons keep their code and whether they passed; the wording, and the   *)
(* expected and actual values repeated for display, are left out.          *)
(***************************************************************************)
EXTENDS Naturals, Sequences

CONSTANTS Missing,              \* a null column of a student
          Malformed             \* a criteria value that fails its schema

MinFields == {"minCgpa", "minTenthPercent", "minTwelfthPercent"}
MaxFields == {"maxActiveBacklogs", "maxBacklogHistory", "maxGapYears"}
CriteriaFields == MinFields \cup MaxFields \cup {"allowDiploma", "allowedCategories"}

(* Lenient: what does not parse restricts nothing.                         *)
parseCriteria(raw) == IF raw = Malformed THEN <<>> ELSE raw

(* Field by field, the job description's value over the institution's.     *)
mergeCriteria(institutionCriteria, jdCriteria) ==
  [f \in DOMAIN institutionCriteria \cup DOMAIN jdCriteria |->
     IF f \in DOMAIN jdCriteria THEN jdCriteria[f] ELSE institutionCriteria[f]]

(* Mutant: missing data is let through. *)
MinFailsOpen(actual, criteria, field) ==
  field \in DOMAIN criteria /\ actual # Missing => actual >= criteria[field]

evaluateMinThreshold(actual, criteria, field) ==
  field \in DOMAIN criteria => actual # Missing /\ actual >= criteria[field]

evaluateMaxThreshold(actual, criteria, field) ==
  field \in DOMAIN criteria => actual <= criteria[field]

evaluateDebarStatus(student) == student.placementStatus # "DEBARRED"

evaluateProgram(student, eligiblePrograms) ==
  eligiblePrograms # {} => student.departmentCode \in eligiblePrograms

evaluateDiploma(student, criteria) ==
  "allowDiploma" \in DOMAIN criteria /\ ~criteria.allowDiploma
    => ~student.diplomaFlag

evaluateCategory(student, criteria) ==
  "allowedCategories" \in DOMAIN criteria
    => student.category # Missing /\ student.category \in criteria.allowedCategories

(* The order the reasons are listed in.                                    *)
ELIGIBILITY_EVALUATORS ==
  <<"DEBAR_STATUS", "PROGRAM", "CGPA", "TENTH_PERCENT", "TWELFTH_PERCENT",
    "ACTIVE_BACKLOGS", "BACKLOG_HISTORY", "GAP_YEARS", "DIPLOMA", "CATEGORY">>

evaluateCgpa(student, criteria) ==
  evaluateMinThreshold(student.cgpa, criteria, "minCgpa")
evaluateTenthPercent(student, criteria) ==
  evaluateMinThreshold(student.tenthPercent, criteria, "minTenthPercent")
evaluateTwelfthPercent(student, criteria) ==
  evaluateMinThreshold(student.twelfthPercent, criteria, "minTwelfthPercent")
evaluateActiveBacklogs(student, criteria) ==
  evaluateMaxThreshold(student.activeBacklogs, criteria, "maxActiveBacklogs")
evaluateBacklogHistory(student, criteria) ==
  evaluateMaxThreshold(student.backlogHistory, criteria, "maxBacklogHistory")
evaluateGapYears(student, criteria) ==
  evaluateMaxThreshold(student.gapYears, criteria, "maxGapYears")

passed(student, criteria, eligiblePrograms) ==
  <<evaluateDebarStatus(student),
    evaluateProgram(student, eligiblePrograms),
    evaluateCgpa(student, criteria),
    evaluateTenthPercent(student, criteria),
    evaluateTwelfthPercent(student, criteria),
    evaluateActiveBacklogs(student, criteria),
    evaluateBacklogHistory(student, criteria),
    evaluateGapYears(student, criteria),
    evaluateDiploma(student, criteria),
    evaluateCategory(student, criteria)>>

(* A verdict: the rules that failed, in the order of the list, and whether *)
(* none did.                                                               *)
runEligibilityEvaluators(student, criteria, eligiblePrograms) ==
  LET ok == passed(student, criteria, eligiblePrograms)
  IN  [eligible |-> \A i \in DOMAIN ok : ok[i],
       reasons |-> [i \in DOMAIN ok |->
          [ruleCode |-> ELIGIBILITY_EVALUATORS[i], passed |-> ok[i]]]]
=============================================================================

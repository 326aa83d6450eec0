----------------------------- MODULE Summaries -----------------------------
(***************************************************************************)
(* The reading side of apps/api/src/modules/analytics as functions of the  *)
(* students' rows: the aggregate of a scope (computeScopedAggregate), the  *)
(* drilldown behind each of its numbers, the percentages and the deltas    *)
(* made from it, and the live counts a recruiter gets instead.             *)
(*                                                                         *)
(* A scope is the batch (Null, departmentId null in the code) or one of its*)
(* departments.  A student's row has the placement status, whether some    *)
(* verdict lets the student through, the statuses of the applications, and *)
(* the offers as [status, ctc].  The CTC statistics are functions of the   *)
(* accepted offers, which stand for them.                                  *)
(***************************************************************************)
EXTENDS Integers, FiniteSets, Sequences

CONSTANTS Student, Department, Null,
          DepartmentOf          \* the department of each student

Metric == {"PLACED", "UNPLACED", "ELIGIBLE", "APPLIED", "SHORTLISTED", "SELECTED"}

InScope(s, scope) == scope = Null \/ DepartmentOf[s] = scope

(* ACCEPTED_OFFER_PREDICATE, which both queries share.                     *)
AcceptedOffers(rows, students) ==
  UNION {{<<s, o.ctc>> : o \in {p \in rows[s].offers : p.status = "ACCEPTED"}} :
           s \in students}

(* Mutant: a student whose only application is withdrawn does not count. *)
AppliedUnlessWithdrawn(row) == row.applications \ {"WITHDRAWN"} # {}

(* A student with some application, a withdrawn one included.              *)
SqlApplied(row) == row.applications # {}

(* One SQL statement, hence one snapshot.                                  *)
computeScopedAggregate(rows, scope) ==
  LET scoped == {s \in Student : InScope(s, scope)}
      Count(P(_)) == Cardinality({s \in scoped : P(rows[s])})
      Status(status, row) == row.placementStatus = status
      Stage(status, row) == status \in row.applications
  IN  [total |-> Cardinality(scoped),
       PLACED |-> Count(LAMBDA row : Status("PLACED", row)),
       UNPLACED |-> Count(LAMBDA row : Status("UNPLACED", row)),
       ELIGIBLE |-> Count(LAMBDA row : row.eligible),
       APPLIED |-> Count(SqlApplied),
       SHORTLISTED |-> Count(LAMBDA row : Stage("SHORTLISTED", row)),
       SELECTED |-> Count(LAMBDA row : Stage("SELECTED", row)),
       accepted |-> AcceptedOffers(rows, scoped)]

(* The rows behind a number, each metric with a query of its own.          *)
getDrilldown(rows, scope, metric) ==
  LET scoped == {s \in Student : InScope(s, scope)}
  IN  CASE metric \in {"PLACED", "UNPLACED"} ->
             {s \in scoped : rows[s].placementStatus = metric}
        [] metric = "ELIGIBLE" -> {s \in scoped : rows[s].eligible}
        [] metric = "APPLIED" -> {s \in scoped : rows[s].applications # {}}
        [] metric \in {"SHORTLISTED", "SELECTED"} ->
             {s \in scoped : metric \in rows[s].applications}
        [] metric = "ACCEPTED_OFFERS" -> AcceptedOffers(rows, scoped)

(* In hundredths of a percent; null when nobody is in scope.               *)
placementPercent(summary) ==
  IF summary.total = 0 THEN Null ELSE (summary.PLACED * 10000) \div summary.total

(* A delta needs a value on both sides.                                    *)
delta(current, previous) ==
  IF Null \in {current, previous} THEN Null ELSE current - previous

(* A missing summary, Null, has no percentage to compare.                  *)
getYoy(current, previous) ==
  LET Percent(summary) == IF summary = Null THEN Null ELSE placementPercent(summary)
  IN  [current |-> current, previous |-> previous,
       placementPercentDelta |-> delta(Percent(current), Percent(previous))]

(* A recruiter's own company's offers by status, from the offers' rows: a  *)
(* PPO has no application and so no company.                               *)
getRecruiterSummary(offers, companyId) ==
  [status \in {"PENDING", "EXTENDED", "ACCEPTED", "REJECTED"} |->
     Cardinality({o \in offers : o.companyId = companyId /\ o.status = status})]
=============================================================================

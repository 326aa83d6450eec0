------------------------------- MODULE Access -------------------------------
(***************************************************************************)
(* Who may read and write which rows: the permission registry, the two     *)
(* guards in front of every controller of apps/api/src/modules, and the    *)
(* row checks each controller (or its service) makes itself.               *)
(*                                                                         *)
(* Data abstraction.  A caller is what the access token carries; a row is a*)
(* record of the columns some check looks at.  An operation is a function  *)
(* of the caller, its scope and a row, or all rows, and gives an Answer:   *)
(* the HTTP status, and the rows it shows or changes.  What an operation   *)
(* does to a row it may change is in Offers, Applications, Eligibility,    *)
(* PolicyRules and Campus; the tenant filter of the database is not        *)
(* repeated here, all rows are the caller's tenant's.                      *)
(***************************************************************************)
EXTENDS Naturals, Sequences, TLC

CONSTANT None                   \* null or undefined

Roles == <<"SUPER_ADMIN", "TPO", "FACULTY_COORD", "STUDENT", "RECRUITER">>
Role == {Roles[i] : i \in DOMAIN Roles}

(* A row of the registry: one scope per role, in the order of Roles.       *)
Row(superAdmin, tpo, facultyCoord, student, recruiter) ==
  [SUPER_ADMIN |-> superAdmin, TPO |-> tpo, FACULTY_COORD |-> facultyCoord,
   STUDENT |-> student, RECRUITER |-> recruiter]

PermissionResource ==
  {"tenant.config", "policy.rules", "students.records", "import.bulk",
   "companies.records", "drives.manage", "jd.shortlist",
   "applications.apply", "offers.manage", "policy.debar", "analytics.view",
   "reports.accreditation", "users.manage", "audit.log", "resume.manage",
   "mentorship.community"}

PERMISSIONS ==
  [r \in PermissionResource |->
     CASE r = "tenant.config" -> Row("FULL", "VIEW", "NONE", "NONE", "NONE")
       [] r = "policy.rules" -> Row("FULL", "FULL", "NONE", "NONE", "NONE")
       [] r = "students.records" -> Row("FULL", "FULL", "OWN_DEPARTMENT", "SELF", "NONE")
       [] r = "import.bulk" -> Row("FULL", "FULL", "OWN_DEPARTMENT", "NONE", "NONE")
       [] r = "companies.records" -> Row("FULL", "FULL", "VIEW", "VIEW", "SELF")
       [] r = "drives.manage" -> Row("FULL", "FULL", "PROPOSE", "VIEW", "NONE")
       [] r = "jd.shortlist" -> Row("FULL", "FULL", "NONE", "NONE", "SELF")
       [] r = "applications.apply" -> Row("NONE", "ON_BEHALF", "ON_BEHALF", "SELF", "NONE")
       [] r = "offers.manage" -> Row("FULL", "FULL", "VIEW", "SELF", "PROPOSE")
       [] r = "policy.debar" -> Row("FULL", "FULL", "NONE", "NONE", "NONE")
       [] r = "analytics.view" -> Row("FULL", "FULL", "OWN_DEPARTMENT", "SELF", "SELF")
       [] r = "reports.accreditation" -> Row("FULL", "FULL", "OWN_DEPARTMENT", "NONE", "NONE")
       [] r = "users.manage" -> Row("FULL", "NON_ADMIN", "NONE", "NONE", "NONE")
       [] r = "audit.log" -> Row("FULL", "VIEW", "NONE", "NONE", "NONE")
       [] r = "resume.manage" -> Row("VIEW", "VIEW", "VIEW", "SELF", "NONE")
       [] r = "mentorship.community" -> Row("FULL", "FULL", "VIEW", "SELF", "NONE")]

resolvePermissionScope(resource, role) == PERMISSIONS[resource][role]

-----------------------------------------------------------------------------

Ok(rows) == [status |-> 200, rows |-> rows]
Refuse(status) == [status |-> status, rows |-> {}]

(* TenantContextMiddleware: a bearer token that does not verify leaves no  *)
(* user, as does no token at all.                                          *)
authUser(token) == IF token.valid THEN token.payload ELSE None

JwtAuthGuard(user) == user # None

PermissionGuard(user, resource) ==
  resolvePermissionScope(resource, user.role) # "NONE"

(* A request to a route that requires the resource.                        *)
Request(token, resource, handler(_, _)) ==
  LET user == authUser(token)
  IN  CASE ~JwtAuthGuard(user) -> Refuse(401)
        [] JwtAuthGuard(user) /\ ~PermissionGuard(user, resource) -> Refuse(403)
        [] OTHER -> handler(user, resolvePermissionScope(resource, user.role))

assertOwnDepartment(user, scope, departmentId) ==
  \/ scope = "FULL"
  \/ scope = "OWN_DEPARTMENT" /\ user.departmentId \notin {None, ""}
       /\ user.departmentId = departmentId

assertSelf(user, scope, userId) ==
  scope = "FULL" \/ (scope = "SELF" /\ user.sub = userId)

(* A filter of a query: a value that is not set filters nothing.           *)
Where(rows, field, value) ==
  IF value = None THEN rows ELSE {row \in rows : row[field] = value}

(* Mutant: a missing value is passed on, and filters nothing. *)
PassedOn(value) == value

(* user.companyId ?? "__none__": a missing value matches no row.           *)
OrNone(value) == IF value = None THEN "__none__" ELSE value

Check(allowed, row) == IF allowed THEN Ok({row}) ELSE Refuse(403)

-----------------------------------------------------------------------------
(* students.controller.ts.  A student row: [userId, departmentId].         *)

listStudents(user, scope, rows, query) ==
  CASE scope = "SELF" -> Ok({s \in rows : s.userId = user.sub})
    [] scope = "OWN_DEPARTMENT" /\ user.departmentId = None -> Refuse(403)
    [] scope = "OWN_DEPARTMENT" /\ user.departmentId # None ->
         Ok(Where(rows, "departmentId", user.departmentId))
    [] OTHER -> Ok(Where(rows, "departmentId", query.departmentId))

findStudent(user, scope, row) ==
  CASE scope = "OWN_DEPARTMENT" ->
         Check(assertOwnDepartment(user, scope, row.departmentId), row)
    [] scope = "SELF" -> Check(assertSelf(user, scope, row.userId), row)
    [] OTHER -> Ok({row})

(* The caller's own record and no other: there is no row to name.          *)
updateMyLinks(user, scope, rows) ==
  IF scope # "SELF" THEN Refuse(403) ELSE Ok({s \in rows : s.userId = user.sub})

-----------------------------------------------------------------------------
(* companies.controller.ts and job-descriptions.controller.ts.  A company  *)
(* row and a job description row: [companyId].                             *)

listCompanies(user, scope, rows) ==
  Ok(Where(rows, "companyId", IF scope = "SELF" THEN OrNone(user.companyId) ELSE None))

findCompany(user, scope, row) ==
  Check(scope = "SELF" => row.companyId = user.companyId, row)

createCompany(user, scope, row) == Check(scope = "FULL", row)

updateCompany(user, scope, row) ==
  Check(/\ scope # "VIEW"
        /\ scope = "SELF" => row.companyId = user.companyId, row)

listJobDescriptions(user, scope, rows, query) ==
  Ok(Where(rows, "companyId",
           IF scope = "SELF" THEN OrNone(user.companyId) ELSE query.companyId))

findJobDescription(user, scope, row) ==
  Check(scope = "SELF" => row.companyId = user.companyId, row)

createJobDescription(user, scope, row) ==
  Check(scope = "SELF" => row.companyId = user.companyId, row)

-----------------------------------------------------------------------------
(* drives.controller.ts and eligibility.controller.ts.  A drive row:       *)
(* [status].                                                               *)

VIEW_VISIBLE_STATUSES == {"SCHEDULED", "ONGOING", "COMPLETED"}

listDrives(user, scope, rows) ==
  Ok({d \in rows : scope = "VIEW" => d.status \in VIEW_VISIBLE_STATUSES})

findDrive(user, scope, row) ==
  IF scope = "VIEW" /\ row.status \notin VIEW_VISIBLE_STATUSES
    THEN Refuse(404) ELSE Ok({row})

getEligibility(user, scope, row) == Check(scope # "VIEW", row)

(* The status the drive is created in is the PROPOSE scope's DRAFT.        *)
createDrive(user, scope, row) ==
  IF scope = "VIEW" THEN Refuse(403)
  ELSE Ok({[row EXCEPT !.status = IF scope = "PROPOSE" THEN "DRAFT" ELSE @]})

updateDriveStatus(user, scope, row) == Check(scope = "FULL", row)

(* Mutant: rounds may be added to a drive in any status. *)
AddRoundAnyTime(user, scope, row) == Check(scope # "VIEW", row)

addRound(user, scope, row) ==
  Check(scope # "VIEW" /\ (scope = "PROPOSE" => row.status = "DRAFT"), row)

(* No check past the guards, for any student and job description.          *)
evaluateEligibility(user, scope, row) == Ok({row})
dryRunEligibility(user, scope, rows) == Ok(rows)

-----------------------------------------------------------------------------
(* applications.controller.ts and the actor checks of                      *)
(* applications.service.ts.  An application row: its student's userId and  *)
(* departmentId, and the companyId of its drive's job description.         *)

listApplications(user, scope, rows) ==
  CASE scope = "SELF" -> Ok(Where(rows, "userId", user.sub))
    [] scope # "SELF" /\ user.role = "FACULTY_COORD" ->
         Ok(Where(rows, "departmentId", OrNone(user.departmentId)))
    [] OTHER -> Ok(rows)

(* The row's student is the caller or in the coordinator's department.     *)
ActsFor(user, scope, row) ==
  /\ scope = "SELF" => row.userId = user.sub
  /\ user.role = "FACULTY_COORD" => row.departmentId = user.departmentId

findApplication(user, scope, row) == Check(ActsFor(user, scope, row), row)

(* A SELF caller applies for the student record of its own, whatever the   *)
(* body names, and nobody else may leave the student out.                  *)
apply(user, scope, students, body) ==
  LET chosen == {s \in students : s.userId =
                   IF scope = "SELF" THEN user.sub ELSE body.userId}
  IN  CASE scope # "SELF" /\ body.userId = None -> Refuse(403)
        [] (scope = "SELF" \/ body.userId # None) /\ chosen = {} -> Refuse(404)
        [] chosen # {} /\ user.role = "FACULTY_COORD"
             /\ (\A s \in chosen : s.departmentId # user.departmentId) -> Refuse(403)
        [] OTHER -> Ok(chosen)

withdraw(user, scope, row) == Check(ActsFor(user, scope, row), row)

shortlist(user, scope, row) ==
  Check(scope = "SELF" => row.companyId = user.companyId, row)

recordRoundResult(user, scope, row) == Check(scope = "FULL", row)

-----------------------------------------------------------------------------
(* offers.controller.ts.  An offer row: its student's userId and, through  *)
(* its application, a companyId, which no caller has when it is a PPO's.   *)

listOffers(user, scope, rows, query) ==
  CASE scope = "SELF" -> Ok(Where(rows, "userId", user.sub))
    [] scope = "PROPOSE" -> Ok(Where(rows, "companyId", OrNone(user.companyId)))
    [] OTHER -> Ok(Where(Where(rows, "userId", query.userId),
                         "companyId", query.companyId))

(* SELF looks its own list up.                                             *)
findOffer(user, scope, row, rows) ==
  CASE scope = "SELF" ->
         Check(row \in listOffers(user, scope, rows, [userId |-> None,
                                                       companyId |-> None]).rows, row)
    [] scope = "PROPOSE" -> Check(row.companyId = user.companyId, row)
    [] OTHER -> Ok({row})

(* create() looks at the company of a PROPOSE caller only.                 *)
createOffer(user, scope, row) ==
  Check(/\ scope \in {"FULL", "PROPOSE"}
        /\ scope = "PROPOSE" => row.companyId = user.companyId, row)

createPpo(user, scope, row) == Check(scope = "FULL", row)
approveOffer(user, scope, row) == Check(scope = "FULL", row)
revokeOffer(user, scope, row) == Check(scope = "FULL", row)

acceptOffer(user, scope, row) == Check(scope = "SELF" /\ row.userId = user.sub, row)
rejectOffer(user, scope, row) == Check(scope = "SELF" /\ row.userId = user.sub, row)

-----------------------------------------------------------------------------
(* resumes.controller.ts, mentorship.controller.ts,                        *)
(* policy-rules.controller.ts and analytics.controller.ts.                 *)

getMyResume(user, scope, rows) ==
  IF scope # "SELF" THEN Refuse(403) ELSE Ok({s \in rows : s.userId = user.sub})

updateMyResume(user, scope, rows) == getMyResume(user, scope, rows)

getResumeOf(user, scope, row) == Check(scope = "VIEW", row)

readBoard(user, scope, rows) == Ok(rows)

updateMentorProfile(user, scope, rows) ==
  IF scope # "SELF" THEN Refuse(403) ELSE Ok({s \in rows : s.userId = user.sub})

createThread(user, scope, row) == Check(scope # "VIEW", row)
addReply(user, scope, row) == Check(scope # "VIEW", row)

(* Reads and writes alike: the guards are all there is.                    *)
policyRules(user, scope, row) == Ok({row})

(* The department a summary, a comparison or a drilldown is about: None is *)
(* all of them.  A student's is looked up, a coordinator's is forced.      *)
resolveScope(user, scope, students, query) ==
  LET own == {s.departmentId : s \in {t \in students : t.userId = user.sub}}
  IN  CASE scope = "SELF" -> IF own = {} THEN Refuse(404) ELSE Ok(own)
        [] scope # "SELF" /\ query.batchId = None -> Refuse(403)
        [] scope = "OWN_DEPARTMENT" /\ query.batchId # None ->
             IF user.departmentId = None THEN Refuse(403) ELSE Ok({user.departmentId})
        [] OTHER -> Ok({query.departmentId})

summaryScope(user, scope, students, query) ==
  IF user.role = "RECRUITER"
    THEN IF user.companyId = None THEN Refuse(403) ELSE Ok({user.companyId})
    ELSE resolveScope(user, scope, students, query)

yoyScope(user, scope, students, query) ==
  IF user.role = "RECRUITER" THEN Refuse(403)
  ELSE resolveScope(user, scope, students, query)

drilldownScope(user, scope, students, query) ==
  IF scope = "SELF" THEN Refuse(403) ELSE resolveScope(user, scope, students, query)

filterOptions(user, scope, rows) ==
  IF scope = "SELF" THEN Refuse(403) ELSE Ok(rows)

upcomingDrives(user, scope, rows) ==
  IF scope = "SELF" THEN Refuse(403) ELSE Ok(rows)
=============================================================================

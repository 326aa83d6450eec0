------------------------------- MODULE Hooks -------------------------------
(***************************************************************************)
(* The React Query hooks of apps/web/lib: the key each query is cached     *)
(* under and the answer the API gives it, and for each mutation the keys it*)
(* invalidates, the facts it writes and the answer it gets.                *)
(*                                                                         *)
(* db holds the rows of the caller's tenant.  The access token at the end  *)
(* of most keys and the filters a page does not use are left out of a key. *)
(* An answer goes as far as the caller and the statuses of the rows decide *)
(* it: the offer rules and the eligibility rules are OfferPolicy's and     *)
(* Evaluators', and the 404 of a summary that was never computed is not    *)
(* given.  "Facts" are the parts of the rows a page shows, named by hand   *)
(* for what a mutation writes itself: what follows from it in other rows,  *)
(* verdicts and summaries, is not among them (modules Eligibility and      *)
(* Analytics).                                                             *)
(***************************************************************************)
EXTENDS Access, Evaluators

Token(user) == [valid |-> TRUE, payload |-> user]

(* What a query key holds in the client's cache.                           *)
Cached(key, answer) == [key |-> key, answer |-> answer]

(* apiFetch adds the bearer token of the signed-in user.                   *)
Query(user, key, resource, handler(_, _)) ==
  Cached(key, Request(Token(user), resource, handler))

Data(query) == query.answer.rows

Mutation(name, writes, invalidates, answer) ==
  [name |-> name, writes |-> writes, invalidates |-> invalidates, answer |-> answer]

Unless(refused, status, answer) ==
  IF answer.status = 200 /\ refused THEN Refuse(status) ELSE answer

NoQuery == [userId |-> None, departmentId |-> None, companyId |-> None]

-----------------------------------------------------------------------------
(* students/use-students.ts *)

useStudents(user, db, departmentId) ==
  Query(user, <<"students", departmentId>>, "students.records",
        LAMBDA u, s : listStudents(u, s, db.students,
                                   [NoQuery EXCEPT !.departmentId = departmentId]))

(* companies/use-companies.ts *)
useCompanies(user, db) ==
  Query(user, <<"companies">>, "companies.records",
        LAMBDA u, s : listCompanies(u, s, db.companies))

useCompany(user, row) ==
  Query(user, <<"companies", row.companyId>>, "companies.records",
        LAMBDA u, s : findCompany(u, s, row))

useCreateCompany(user) ==
  Mutation("createCompany", {"company"}, {<<"companies">>},
           Request(Token(user), "companies.records",
                   LAMBDA u, s : createCompany(u, s, [companyId |-> "new"])))

(* job-descriptions/use-job-descriptions.ts *)
useJobDescriptions(user, db, companyId) ==
  Query(user, <<"job-descriptions", companyId>>, "jd.shortlist",
        LAMBDA u, s : listJobDescriptions(u, s, db.jobDescriptions,
                                          [NoQuery EXCEPT !.companyId = companyId]))

useCreateJobDescription(user, company) ==
  Mutation("createJobDescription", {"jd"}, {<<"job-descriptions">>},
           Request(Token(user), "jd.shortlist",
                   LAMBDA u, s : createJobDescription(u, s, company)))

-----------------------------------------------------------------------------
(* drives/use-drives.ts.  jd is the job description asked for, or None.    *)

useDrives(user, db, jd) ==
  Query(user, <<"drives", IF jd = None THEN "all" ELSE jd.companyId>>, "drives.manage",
        LAMBDA u, s : listDrives(u, s, IF jd = None THEN db.drives
                                       ELSE {d \in db.drives : d.companyId = jd.companyId}))

useDrive(user, drive) ==
  Query(user, <<"drives", "detail">>, "drives.manage",
        LAMBDA u, s : findDrive(u, s, drive))

useDriveEligibility(user, drive) ==
  Query(user, <<"drives", "eligibility">>, "drives.manage",
        LAMBDA u, s : getEligibility(u, s, drive))

DriveMutation(user, name, drive, handler(_, _, _)) ==
  Mutation(name, {"drive"}, {<<"drives">>},
           Request(Token(user), "drives.manage", LAMBDA u, s : handler(u, s, drive)))

useCreateDrive(user, drive) == DriveMutation(user, "createDrive", drive, createDrive)
useUpdateDriveStatus(user, drive) ==
  DriveMutation(user, "updateStatus", drive, updateDriveStatus)
useCreateRound(user, drive) == DriveMutation(user, "addRound", drive, addRound)

useDryRunEligibility(user, db) ==
  Mutation("dryRun", {}, {},
           Request(Token(user), "drives.manage",
                   LAMBDA u, s : dryRunEligibility(u, s, db.students)))

-----------------------------------------------------------------------------
(* applications/use-applications.ts *)

TERMINAL_APPLICATION_STATUSES == {"SELECTED", "REJECTED", "WITHDRAWN"}
OPEN_DRIVE_STATUSES == {"SCHEDULED", "ONGOING"}

useApplications(user, db) ==
  Query(user, <<"applications", "all">>, "applications.apply",
        LAMBDA u, s : listApplications(u, s, db.applications))

(* student is the record the form names, None where it names nobody; the   *)
(* answer goes as far as choosing the record the application is for.       *)
Chosen(user, db, student) ==
  LET body == [userId |-> IF student = None THEN None ELSE student.userId]
  IN  Request(Token(user), "applications.apply",
              LAMBDA u, s : apply(u, s, db.students, body))

useCreateApplication(user, db, drive, student) ==
  LET chosen == Chosen(user, db, student)
      debarred == \E t \in chosen.rows : t.placementStatus = "DEBARRED"
      ineligible == \E t \in chosen.rows :
        ~runEligibilityEvaluators(t, mergeCriteria(db.criteria, drive.minCriteria),
                                  drive.eligiblePrograms).eligible
      again == \E a \in db.applications, t \in chosen.rows :
                 a.userId = t.userId /\ a.drive = drive
      open == drive.status \in OPEN_DRIVE_STATUSES
      forbidden == debarred \/ (open /\ ineligible)
  IN  Mutation("apply", {"application"}, {<<"applications">>},
               Unless(forbidden \/ ~open \/ again, IF forbidden THEN 403 ELSE 409, chosen))

useWithdrawApplication(user, row) ==
  Mutation("withdraw", {"application"}, {<<"applications">>},
           Unless(row.status \in TERMINAL_APPLICATION_STATUSES, 409,
                  Request(Token(user), "applications.apply",
                          LAMBDA u, s : withdraw(u, s, row))))

useShortlistApplication(user, row) ==
  Mutation("shortlist", {"application"}, {<<"applications">>},
           Unless(row.status # "APPLIED", 409,
                  Request(Token(user), "jd.shortlist",
                          LAMBDA u, s : shortlist(u, s, row))))

useRecordRoundResult(user, row) ==
  Mutation("recordRoundResult", {"application"}, {<<"applications">>},
           Unless(row.status = "WITHDRAWN", 409,
                  Request(Token(user), "drives.manage",
                          LAMBDA u, s : recordRoundResult(u, s, row))))

-----------------------------------------------------------------------------
(* offers/use-offers.ts *)

useOffers(user, db) ==
  Query(user, <<"offers">>, "offers.manage",
        LAMBDA u, s : listOffers(u, s, db.offers, NoQuery))

(* Every mutation of offers goes through one helper.                       *)
useOfferMutation(name, answer) == Mutation(name, {"offer"}, {<<"offers">>}, answer)

OfferRequest(user, row, handler(_, _, _)) ==
  Request(Token(user), "offers.manage", LAMBDA u, s : handler(u, s, row))

useCreateOffer(user, row) ==
  useOfferMutation("createOffer", OfferRequest(user, row, createOffer))
useCreatePpoOffer(user, row) ==
  useOfferMutation("createPpo", OfferRequest(user, row, createPpo))
useApproveOffer(user, row) ==
  useOfferMutation("approve",
    Unless(row.status # "PENDING", 409, OfferRequest(user, row, approveOffer)))
useAcceptOffer(user, row) ==
  useOfferMutation("accept",
    Unless(row.status # "EXTENDED", 409, OfferRequest(user, row, acceptOffer)))
useRejectOffer(user, row) ==
  useOfferMutation("reject",
    Unless(row.status # "EXTENDED", 409, OfferRequest(user, row, rejectOffer)))
useRevokeOffer(user, row) ==
  useOfferMutation("revoke",
    Unless(row.status = "REVOKED", 409, OfferRequest(user, row, revokeOffer)))

-----------------------------------------------------------------------------
(* policy-rules/use-policy-rules.ts *)

usePolicyRules(user, db) ==
  Query(user, <<"policy-rules">>, "policy.rules", LAMBDA u, s : Ok(db.rules))

PolicyRuleMutation(name, answer) == Mutation(name, {"rule"}, {<<"policy-rules">>}, answer)

PolicyRuleRequest(user, row) ==
  Request(Token(user), "policy.rules", LAMBDA u, s : policyRules(u, s, row))

useCreatePolicyRule(user) == PolicyRuleMutation("createRule", PolicyRuleRequest(user, None))
useCreatePolicyRuleVersion(user, row) ==
  PolicyRuleMutation("createVersion", PolicyRuleRequest(user, row))
useActivatePolicyRule(user, row) ==
  PolicyRuleMutation("activate", Unless(row.status # "DRAFT", 409, PolicyRuleRequest(user, row)))

(* resume/use-resume.ts *)
useMyResume(user, db) ==
  Query(user, <<"resume", "me">>, "resume.manage",
        LAMBDA u, s : getMyResume(u, s, db.students))

useUpdateMyResume(user, db) ==
  Mutation("updateResume", {"resume"}, {<<"resume", "me">>},
           Request(Token(user), "resume.manage",
                   LAMBDA u, s : updateMyResume(u, s, db.students)))

useUpdateMyLinks(user, db) ==
  Mutation("updateLinks", {"links"}, {<<"students">>},
           Request(Token(user), "students.records",
                   LAMBDA u, s : updateMyLinks(u, s, db.students)))

-----------------------------------------------------------------------------
(* mentorship/use-mentorship.ts.  Its keys hold no access token.           *)

useMentors(user, db) ==
  Query(user, <<"mentorship", "mentors">>, "mentorship.community",
        LAMBDA u, s : readBoard(u, s, {t \in db.students : t.mentorOptIn}))

useThreads(user, db) ==
  Query(user, <<"mentorship", "threads">>, "mentorship.community",
        LAMBDA u, s : readBoard(u, s, db.threads))

useThread(user, row) ==
  Query(user, <<"mentorship", "thread", row.thread>>, "mentorship.community",
        LAMBDA u, s : readBoard(u, s, {row}))

(* The author's student record must exist, and a mentor's be opted in.     *)
useCreateThread(user, db, mentor) ==
  Mutation("createThread", {"board"}, {<<"mentorship", "threads">>},
           Unless(mentor # None /\ ~mentor.mentorOptIn, 404,
             Unless(\A t \in db.students : t.userId # user.sub, 403,
               Request(Token(user), "mentorship.community",
                       LAMBDA u, s : createThread(u, s, mentor)))))

useCreateReply(user, row) ==
  Mutation("createReply", {"board", "thread", "answers"}, {<<"mentorship">>},
           Request(Token(user), "mentorship.community",
                   LAMBDA u, s : addReply(u, s, row)))

(* Mutant: the caller's own record is left as it was. *)
ProfileInvalidatesBoard(user, db) ==
  Mutation("updateMentorProfile", {"mentor"}, {<<"mentorship">>},
           Request(Token(user), "mentorship.community",
                   LAMBDA u, s : updateMentorProfile(u, s, db.students)))

useUpdateMentorProfile(user, db) ==
  LET own == Request(Token(user), "mentorship.community",
                     LAMBDA u, s : updateMentorProfile(u, s, db.students))
  IN  Mutation("updateMentorProfile", {"mentor"}, {<<"mentorship">>, <<"students">>},
               Unless(\A t \in own.rows : t.placementStatus # "PLACED", 403, own))

-----------------------------------------------------------------------------
(* analytics/use-analytics.ts.  A summary is of the departments it shows.  *)

Departments(answer) ==
  [answer EXCEPT !.rows = {[departmentId |-> d] : d \in @}]

useSummary(user, db, query) ==
  Cached(<<"analytics", "summary", query.batchId, query.departmentId>>,
    Departments(Request(Token(user), "analytics.view",
                        LAMBDA u, s : summaryScope(u, s, db.students, query))))

useYoy(user, db, query) ==
  Cached(<<"analytics", "yoy", query.batchId, query.departmentId>>,
    Departments(Request(Token(user), "analytics.view",
                        LAMBDA u, s : yoyScope(u, s, db.students, query))))

useDrilldown(user, db, query) ==
  Cached(<<"analytics", "drilldown", query.batchId, query.departmentId>>,
    Departments(Request(Token(user), "analytics.view",
                        LAMBDA u, s : drilldownScope(u, s, db.students, query))))

useFilterOptions(user, db) ==
  Cached(<<"analytics", "filter-options">>,
    Departments(Request(Token(user), "analytics.view",
                        LAMBDA u, s : filterOptions(u, s, db.departments))))

useUpcomingDrives(user, db) ==
  Cached(<<"analytics", "upcoming-drives">>,
    Request(Token(user), "analytics.view",
            LAMBDA u, s : upcomingDrives(u, s, db.drives)))

(* One summary query for each department.                                  *)
useBranchSummaries(user, db, batchId, departments) ==
  {useSummary(user, db, [batchId |-> batchId, departmentId |-> d]) : d \in departments}
=============================================================================

------------------------------- MODULE Pages -------------------------------
(***************************************************************************)
(* The pages of apps/web: for a signed-in user and the rows of the tenant, *)
(* the queries a page mounts and the requests its buttons and dialogs can  *)
(* send.                                                                   *)
(*                                                                         *)
(* A page, and each component of it, is a Part: the reads, each a query and*)
(* the facts shown from its answer, and the sends, the mutations one click *)
(* or one submitted form away.  Layout, labels, filters of rows already    *)
(* loaded and what a toast says are left out; a dialog that is mounted     *)
(* counts whether it is open or not.                                       *)
(***************************************************************************)
EXTENDS Hooks

Read(query, facts) == [query |-> query, shows |-> facts]
Part(reads, sends) == [reads |-> reads, sends |-> sends]
AllOf(parts) == Part(UNION {p.reads : p \in parts}, UNION {p.sends : p \in parts})
Only(shown, set) == IF shown THEN set ELSE {}

IsTpo(user) == user.role \in {"TPO", "SUPER_ADMIN"}
IsStaff(user) == IsTpo(user) \/ user.role = "FACULTY_COORD"
IsStudent(user) == user.role = "STUDENT"
IsRecruiter(user) == user.role = "RECRUITER"
Me(user, db) == {s \in Data(useStudents(user, db, None)) : IsStudent(user)}

-----------------------------------------------------------------------------

Everyone == Role
Office == {"SUPER_ADMIN", "TPO"}

NAV_ITEMS ==
  [href \in {"/dashboard", "/students", "/companies", "/policy", "/applications",
             "/offers", "/reports", "/analytics", "/resume", "/mentors"} |->
     CASE href \in {"/students", "/mentors"} -> Everyone \ {"RECRUITER"}
       [] href = "/policy" -> Office
       [] href = "/applications" -> {"TPO", "FACULTY_COORD", "STUDENT"}
       [] href = "/reports" -> Office \cup {"FACULTY_COORD"}
       [] href = "/resume" -> {"STUDENT"}
       [] OTHER -> Everyone]

QUICK_LINKS ==
  [href \in {"/students", "/companies", "/policy", "/applications", "/offers", "/reports",
             "/analytics"} |->
     CASE href = "/students" -> Everyone \ {"RECRUITER"}
       [] href = "/policy" -> Office
       [] href = "/applications" -> {"TPO", "FACULTY_COORD", "STUDENT"}
       [] href = "/reports" -> Office \cup {"FACULTY_COORD"}
       [] OTHER -> Everyone]

LinksFor(user, links) == {href \in DOMAIN links : user.role \in links[href]}

(* The sidebar, the command palette and the dashboard's quick links.       *)
visibleItems(user) == LinksFor(user, NAV_ITEMS)
commands(user) == visibleItems(user) \cup {"logout"}
visibleLinks(user) == LinksFor(user, QUICK_LINKS)

-----------------------------------------------------------------------------
(* offers/page.tsx *)

(* Mutant: the applications are listed for recruiters as well. *)
DialogAlwaysLists(user, db) ==
  LET applications == useApplications(user, db)
  IN  Part({Read(applications, {"application"})},
           {useCreateOffer(user, a) : a \in Data(applications)})

CreateOfferDialog(user, db) ==
  LET applications == useApplications(user, db)
      shared == {a \in db.applications : a.companyId = user.companyId}
  IN  Part(Only(IsTpo(user), {Read(applications, {"application"})}),
           {useCreateOffer(user, a) :
              a \in IF IsTpo(user) THEN Data(applications) ELSE shared})

CreatePpoDialog(user, db) ==
  LET students == useStudents(user, db, None)
  IN  Part({Read(students, {"name"})},
           {useCreatePpoOffer(user, s) : s \in Data(students)})

(* Mutant: an offer can be revoked again. *)
OfferRowRevokesAgain(user, offer) == Part({}, Only(IsTpo(user), {useRevokeOffer(user, offer)}))

OfferRow(user, offer) ==
  Part({}, Only(IsTpo(user) /\ offer.status = "PENDING", {useApproveOffer(user, offer)})
           \cup Only(IsStudent(user) /\ offer.status = "EXTENDED",
                     {useAcceptOffer(user, offer), useRejectOffer(user, offer)})
           \cup Only(IsTpo(user) /\ offer.status # "REVOKED", {useRevokeOffer(user, offer)}))

OffersPage(user, db) ==
  LET offers == useOffers(user, db)
  IN  AllOf({Part({Read(offers, {"offer"}), Read(useCompanies(user, db), {"company"})}, {})}
          \cup Only(IsTpo(user) \/ IsRecruiter(user), {CreateOfferDialog(user, db)})
          \cup Only(IsTpo(user), {CreatePpoDialog(user, db)})
          \cup {OfferRow(user, o) : o \in Data(offers)})

-----------------------------------------------------------------------------
(* applications/page.tsx *)

ApplyDialog(user, db) ==
  LET drives == useDrives(user, db, None)
      students == useStudents(user, db, None)
      pickableDrives == {d \in Data(drives) : IsStudent(user) => d.status \in OPEN_DRIVE_STATUSES}
      showStudentPicker == user.role \in {"TPO", "FACULTY_COORD"}
  IN  Part({Read(drives, {"drive"}), Read(students, {"name"}),
            Read(useCompanies(user, db), {"company"})},
           {useCreateApplication(user, db, d, s) :
              d \in pickableDrives, s \in {None} \cup Only(showStudentPicker, Data(students))})

RoundResultForm(user, application) ==
  Part({Read(useDrive(user, application.drive), {"drive"})},
       {useRecordRoundResult(user, application)})

ApplicationRow(user, application) ==
  AllOf({Part({}, Only(application.status \notin TERMINAL_APPLICATION_STATUSES,
                     {useWithdrawApplication(user, application)})
                \cup Only(IsTpo(user) /\ application.status = "APPLIED",
                          {useShortlistApplication(user, application)}))}
      \cup Only(IsTpo(user), {RoundResultForm(user, application)}))

ApplicationsPage(user, db) ==
  LET applications == useApplications(user, db)
  IN  AllOf({Part({Read(applications, {"application"}),
                 Read(useCompanies(user, db), {"company"})}, {}),
           ApplyDialog(user, db)}
          \cup {ApplicationRow(user, a) : a \in Data(applications)})

-----------------------------------------------------------------------------
(* companies/page.tsx and companies/[id]/page.tsx *)

CreateCompanyDialog(user) == Part({}, {useCreateCompany(user)})

CreateJobDescriptionDialog(user, company) == Part({}, {useCreateJobDescription(user, company)})

DriveEligibilityDialog(user, drive) ==
  Part({Read(useDriveEligibility(user, drive), {"verdict"})}, {})

NEXT_STATUS ==
  [status \in {"DRAFT", "SCHEDULED", "ONGOING", "COMPLETED", "CANCELLED"} |->
     CASE status = "DRAFT" -> {"SCHEDULED", "CANCELLED"}
       [] status = "SCHEDULED" -> {"ONGOING", "CANCELLED"}
       [] status = "ONGOING" -> {"COMPLETED", "CANCELLED"}
       [] OTHER -> {}]

DriveRow(user, drive) ==
  AllOf({Part({}, Only(IsTpo(user) /\ NEXT_STATUS[drive.status] # {},
                     {useUpdateDriveStatus(user, drive)})
                \cup Only(IsStaff(user) /\ drive.status = "DRAFT",
                          {useCreateRound(user, drive)}))}
      \cup Only(IsStaff(user), {DriveEligibilityDialog(user, drive)}))

DrivesSection(user, db, jd) ==
  LET drives == useDrives(user, db, jd)
      draft == [status |-> "DRAFT", companyId |-> jd.companyId]
  IN  AllOf({Part({Read(drives, {"drive"})},
                Only(IsStaff(user), {useCreateDrive(user, draft)}))}
          \cup {DriveRow(user, d) : d \in Data(drives)})

JobDescriptionCard(user, db, jd) == AllOf(Only(IsStaff(user), {DrivesSection(user, db, jd)}))

JobDescriptionsSection(user, db, company) ==
  LET jds == useJobDescriptions(user, db, company.companyId)
  IN  AllOf({Part({Read(jds, {"jd"})}, {}), CreateJobDescriptionDialog(user, company)}
          \cup {JobDescriptionCard(user, db, jd) : jd \in Data(jds)})

CompanyPage(user, db, company) ==
  LET canSeeJDs == IsTpo(user) \/ (IsRecruiter(user) /\ user.companyId = company.companyId)
  IN  AllOf({Part({Read(useCompany(user, company), {"company"})}, {})}
          \cup Only(canSeeJDs, {JobDescriptionsSection(user, db, company)}))

CompaniesPage(user, db) ==
  AllOf({Part({Read(useCompanies(user, db), {"company"})}, {})}
      \cup Only(IsTpo(user), {CreateCompanyDialog(user)}))

-----------------------------------------------------------------------------
(* mentors/page.tsx *)

BecomeMentorCard(user, db) == Part({}, {useUpdateMentorProfile(user, db)})

AskDialog(user, db) ==
  LET mentors == useMentors(user, db)
  IN  Part({Read(mentors, {"mentor"})},
           {useCreateThread(user, db, m) : m \in {None} \cup Data(mentors)})

ThreadDetail(user, thread) ==
  Part({Read(useThread(user, thread), {"thread"})},
       Only(IsStudent(user) \/ IsStaff(user), {useCreateReply(user, thread)}))

ThreadsBoard(user, threads) == AllOf({ThreadDetail(user, t) : t \in threads})

MentorConnectPage(user, db) ==
  LET threads == useThreads(user, db)
      mentors == useMentors(user, db)
      isPlaced == \E me \in Me(user, db) : me.placementStatus = "PLACED"
  IN  AllOf({Part({Read(mentors, {"mentor", "answers"}), Read(threads, {"board"}),
                 Read(useStudents(user, db, None), {"mentor"})}, {})}
          \cup Only(isPlaced, {BecomeMentorCard(user, db)})
          \cup Only(IsStudent(user), {AskDialog(user, db)})
          \cup Only(IsStudent(user) \/ IsStaff(user), {ThreadsBoard(user, Data(threads))}))

-----------------------------------------------------------------------------
(* policy/page.tsx *)

RuleRow(user, rule) ==
  Part({}, Only(rule.status = "DRAFT", {useActivatePolicyRule(user, rule)}))

CreateRuleDialog(user) == Part({}, {useCreatePolicyRule(user)})

NewVersionDialog(user, rule) == Part({}, {useCreatePolicyRuleVersion(user, rule)})

PolicyRulesTab(user, db) ==
  LET rules == usePolicyRules(user, db)
  IN  AllOf({Part({Read(rules, {"rule"})}, {}), CreateRuleDialog(user)}
          \cup {RuleRow(user, r) : r \in Data(rules)}
          \cup {NewVersionDialog(user, r) : r \in Data(rules)})

SimulatorTab(user, db) ==
  Part({Read(useJobDescriptions(user, db, None), {"jd"})}, {useDryRunEligibility(user, db)})

PolicyPage(user, db) == AllOf({PolicyRulesTab(user, db), SimulatorTab(user, db)})

-----------------------------------------------------------------------------
(* students/page.tsx: the filter may be any department for the office.     *)

StudentsPage(user, db) ==
  Part({Read(useStudents(user, db, d), {"student"}) :
          d \in {None} \cup Only(IsTpo(user), db.departments)}
       \cup Only(IsStaff(user), {Read(useFilterOptions(user, db), {})}), {})

-----------------------------------------------------------------------------
(* student-home.tsx *)

cgpaNumber(student) == IF student.cgpa = Missing THEN 0 ELSE student.cgpa

(* Mutant: the limit itself is taken to be too low. *)
FitAboveMinimum(drive, me) ==
  /\ drive.eligiblePrograms # {} => me.departmentCode \in drive.eligiblePrograms
  /\ "minCgpa" \in DOMAIN drive.minCriteria => cgpaNumber(me) > drive.minCriteria.minCgpa
  /\ "maxActiveBacklogs" \in DOMAIN drive.minCriteria
       => me.activeBacklogs <= drive.minCriteria.maxActiveBacklogs

(* The preview: programs, CGPA and active backlogs of the job description, *)
(* and nothing of the institution's own criteria.                          *)
assessFit(drive, me) ==
  /\ drive.eligiblePrograms # {} => me.departmentCode \in drive.eligiblePrograms
  /\ "minCgpa" \in DOMAIN drive.minCriteria => cgpaNumber(me) >= drive.minCriteria.minCgpa
  /\ "maxActiveBacklogs" \in DOMAIN drive.minCriteria
       => me.activeBacklogs <= drive.minCriteria.maxActiveBacklogs

OpenDriveCard(user, db, drive, me) ==
  LET alreadyApplied == \E a \in Data(useApplications(user, db)) : a.drive = drive
  IN  Part({}, Only(~alreadyApplied /\ assessFit(drive, me),
                    {useCreateApplication(user, db, drive, None)}))

StudentHome(user, db) ==
  LET drives == useDrives(user, db, None)
  IN  AllOf({Part({Read(useStudents(user, db, None), {"student"}),
                 Read(useApplications(user, db), {"application"}),
                 Read(useOffers(user, db), {"offer"}),
                 Read(drives, {"drive"}),
                 Read(useCompanies(user, db), {"company"}),
                 Read(useSummary(user, db, [batchId |-> None, departmentId |-> None]), {})},
                {})}
          \cup {OpenDriveCard(user, db, d, me) :
                  d \in {e \in Data(drives) : e.status \in OPEN_DRIVE_STATUSES},
                  me \in Me(user, db)})

-----------------------------------------------------------------------------
(* dashboard, analytics, reports and resume *)

Batch(user) == IF IsStaff(user) THEN "latest" ELSE None
Whole(user) == [batchId |-> Batch(user), departmentId |-> None]

TopRecruitersCard(user, db) ==
  Part({Read(useOffers(user, db), {"offer"}), Read(useCompanies(user, db), {"company"})}, {})

UpcomingDrivesCard(user, db) == Part({Read(useUpcomingDrives(user, db), {"drive"})}, {})

DashboardOverviewPage(user, db) ==
  AllOf({Part({Read(useSummary(user, db, Whole(user)), {})}, {})}
      \cup Only(IsStudent(user), {StudentHome(user, db)})
      \cup Only(IsStaff(user),
             {Part({Read(useFilterOptions(user, db), {}),
                    Read(useYoy(user, db, Whole(user)), {})}, {}),
              TopRecruitersCard(user, db), UpcomingDrivesCard(user, db)}))

BranchTable(user, db) ==
  Part({Read(q, {}) : q \in useBranchSummaries(user, db, "latest", db.departments)}, {})

DrilldownDrawer(user, db, query) == Part({Read(useDrilldown(user, db, query), {})}, {})

RightRail(user, db) == Part({Read(useUpcomingDrives(user, db), {"drive"})}, {})

StaffAnalytics(user, db) ==
  LET queries == [batchId : {"latest"},
                  departmentId : {None} \cup Only(IsTpo(user), db.departments)]
  IN  AllOf({Part({Read(useFilterOptions(user, db), {})}
                \cup UNION {{Read(useSummary(user, db, q), {}), Read(useYoy(user, db, q), {})} :
                              q \in queries}, {}),
           RightRail(user, db)}
          \cup {DrilldownDrawer(user, db, q) : q \in queries}
          \cup Only(IsTpo(user), {BranchTable(user, db)}))

AnalyticsPage(user, db) ==
  IF IsStaff(user) THEN StaffAnalytics(user, db)
  ELSE Part({Read(useSummary(user, db, Whole(user)), {})}, {})

ReportStudioPage(user, db) ==
  Part(Only(IsStaff(user),
         {Read(useFilterOptions(user, db), {}), Read(useSummary(user, db, Whole(user)), {}),
          Read(useYoy(user, db, Whole(user)), {})}
         \cup {Read(q, {}) : q \in useBranchSummaries(user, db, "latest", db.departments)}), {})

ResumeStudioPage(user, db) ==
  Part({Read(useStudents(user, db, None), {"links"}), Read(useCompanies(user, db), {"company"})}
       \cup Only(IsStudent(user),
              {Read(useMyResume(user, db), {"resume"}),
               Read(useDrives(user, db, None), {"drive"}),
               Read(useApplications(user, db), {"application"})}),
       Only(IsStudent(user), {useUpdateMyResume(user, db), useUpdateMyLinks(user, db)}))

-----------------------------------------------------------------------------

(* A page by its path; those of the companies hang off theirs.             *)
Page(user, db, href) ==
  CASE href = "/dashboard" -> DashboardOverviewPage(user, db)
    [] href = "/students" -> StudentsPage(user, db)
    [] href = "/companies" ->
         AllOf({CompaniesPage(user, db)} \cup
             {CompanyPage(user, db, c) : c \in Data(useCompanies(user, db))})
    [] href = "/policy" -> PolicyPage(user, db)
    [] href = "/applications" -> ApplicationsPage(user, db)
    [] href = "/offers" -> OffersPage(user, db)
    [] href = "/analytics" -> AnalyticsPage(user, db)
    [] href = "/reports" -> ReportStudioPage(user, db)
    [] href = "/resume" -> ResumeStudioPage(user, db)
    [] href = "/mentors" -> MentorConnectPage(user, db)
=============================================================================

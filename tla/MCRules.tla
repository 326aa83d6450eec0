------------------------------ MODULE MCRules ------------------------------
(***************************************************************************)
(* The pure rules on every input: the offer rules on every list of up to   *)
(* MaxExisting offers of a student, every proposal and every policy; the   *)
(* evaluators on every record of a candidate; the row checks of the API on *)
(* every caller; the pages of the web client for every signed-in user; the *)
(* placement numbers of every cohort.  A behaviour takes up one of them.   *)
(***************************************************************************)
EXTENDS OfferPolicy, Pages, Summaries

CONSTANTS MaxExisting,          \* bound: existing offers of the student
          MaxCtc                \* bound: the CTC proposed, in whole LPA

ASSUME BoundsAssumption == MaxExisting \in Nat /\ MaxCtc \in Nat

Seqs == INSTANCE SequencesExt

VARIABLES existing,             \* the student's existing offers
          ctcLpa,               \* the CTC of the offer being proposed
          candidate,            \* a student to evaluate, or None
          user,                 \* a caller of the API, or None
          cohort                \* the rows of the students of a batch, or None

vars == <<existing, ctcLpa, candidate, user, cohort>>

Idle == candidate = None /\ user = None /\ cohort = None
Fresh == Idle /\ existing = {} /\ ctcLpa = 0

Init == Fresh

AddOffer ==
  /\ Idle
  /\ Cardinality(existing) < MaxExisting
  /\ \E o \in ExistingOffer \ existing : existing' = existing \cup {o}
  /\ UNCHANGED <<ctcLpa, candidate, user, cohort>>

RaiseCtc ==
  /\ Idle
  /\ ctcLpa < MaxCtc
  /\ ctcLpa' = ctcLpa + 1
  /\ UNCHANGED <<existing, candidate, user, cohort>>

Records ==
  [cgpa : {Missing, 1, 2}, tenthPercent : {Missing, 1}, twelfthPercent : {2},
   activeBacklogs : {0, 1}, backlogHistory : {1}, gapYears : {0, 1},
   diplomaFlag : BOOLEAN, category : {Missing, "GENERAL"},
   departmentCode : {"CSE", "ECE"}, placementStatus : {"UNPLACED", "DEBARRED"}]

TakeCandidate ==
  /\ Fresh
  /\ candidate' \in Records
  /\ UNCHANGED <<existing, ctcLpa, user, cohort>>

(* What an access token may carry: students and coordinators have a sub    *)
(* that is a student's or not, and the ids of a role's own kind or none.   *)
Callers ==
  [role : Role, sub : {"ana", "ben", "cal", "kim"},
   departmentId : {"CSE", "ECE", None}, companyId : {"acme", "bolt", None}]

TakeCaller ==
  /\ Fresh
  /\ user' \in Callers
  /\ UNCHANGED <<existing, ctcLpa, candidate, cohort>>

Offer(status, ctc) == [status |-> status, ctc |-> ctc]

StudentRows ==
  [placementStatus : {"UNPLACED", "PLACED", "DEBARRED"}, eligible : BOOLEAN,
   applications : {{}, {"APPLIED"}, {"WITHDRAWN"}, {"SHORTLISTED", "SELECTED"}},
   offers : {{}, {Offer("ACCEPTED", 4)}, {Offer("REVOKED", 9), Offer("EXTENDED", 6)}}]

TakeCohort ==
  /\ Fresh
  /\ cohort' \in [Student -> StudentRows]
  /\ UNCHANGED <<existing, ctcLpa, candidate, user>>

Next == AddOffer \/ RaiseCtc \/ TakeCandidate \/ TakeCaller \/ TakeCohort

Spec == Init /\ [][Next]_vars

CapPolicies == OfferCap \cup {NoPolicy}
ReEligibilityPolicies == (SUBSET Upward) \cup {NoPolicy}

-----------------------------------------------------------------------------

(* The documented rule, read off the comment of checkOfferEligibility      *)
(* (offer-eligibility.util.ts:51-60) as one statement per gate: the cap    *)
(* counts active offers, and each accepted offer must be cleared, the      *)
(* highest one through a transition the policy allows.                     *)
CapReference(proposedSlab, capPolicy) ==
  LET active == {o \in existing : o.status \in {"EXTENDED", "ACCEPTED"}}
  IN  IF capPolicy = "ONE_TOTAL" THEN Cardinality(active) = 0
      ELSE proposedSlab = NoSlab \/ proposedSlab \notin {o.slab : o \in active}

ReEligibilityReference(proposedSlab, policy) ==
  LET ranks == {SlabRank(o.slab) : o \in {p \in existing : p.status = "ACCEPTED"}}
      top == CHOOSE r \in ranks : \A q \in ranks : q <= r
      from == CHOOSE s \in SlabOrNull : SlabRank(s) = top
  IN  proposedSlab = NoSlab \/ ranks = {} \/
        /\ SlabRank(proposedSlab) > top
        /\ policy = NoPolicy => from \in Slab
        /\ policy # NoPolicy => <<from, proposedSlab>> \in policy

(* The two gates as coded agree with the documented rule on every input.   *)
AgreesWithReference ==
  \A p \in SlabOrNull, c \in CapPolicies, r \in ReEligibilityPolicies :
    checkOfferEligibility(p, existing, c, r)
      <=> CapReference(p, c) /\ ReEligibilityReference(p, r)

(* An offer of an institution whose policy is at least as permissive is    *)
(* never refused where the stricter policy lets it through: a per-tier cap *)
(* against a total cap, more allowed transitions against fewer, and the    *)
(* defaults (no policy at all) against everything.                         *)
Looser(c, r, d, s) ==
  /\ c # "ONE_TOTAL" => d # "ONE_TOTAL"
  /\ EffectiveReEligibility(r) \subseteq EffectiveReEligibility(s)

RelaxingNeverRefuses ==
  \A p \in SlabOrNull, c \in CapPolicies, r \in ReEligibilityPolicies :
    checkOfferEligibility(p, existing, c, r) =>
      \A d \in CapPolicies, s \in ReEligibilityPolicies :
        Looser(c, r, d, s) => checkOfferEligibility(p, existing, d, s)

SlabDefinitions ==
  { d \in [superDreamMinCtc : 0..MaxCtc, dreamMinCtc : 0..MaxCtc] :
      ValidSlabDefinition(d) }

ASSUME NoPolicyAssumption ==
  /\ NoPolicy \notin OfferCap
  /\ \A d \in SlabDefinitions : d # NoPolicy

(* A missing value is no user, department, company or text of the code.    *)
ASSUME NoneAssumption ==
  None \notin {"ana", "ben", "cal", "kim", "CSE", "ECE", "acme", "bolt", "ppo", "latest",
                "__none__", ""}

(* A CTC falls in the tier given by how many of the definition's two       *)
(* thresholds it reaches (slab.service.ts:25); with equal thresholds there *)
(* is no SUPER_DREAM tier, and without a definition no tier at all.        *)
TierCountsThresholds ==
  /\ classifySlab(ctcLpa, NoPolicy) = NoSlab
  /\ \A d \in SlabDefinitions :
       SlabRank(classifySlab(ctcLpa, d)) =
         Cardinality({f \in DOMAIN d : ctcLpa >= d[f]})

(* The rules an offer is made under (offer-eligibility.util.ts:51-129,     *)
(* slab.service.ts:25-31) say what their comments say, on every set of     *)
(* offers, and grow with the policy and the CTC.                           *)
OfferRulesAgree ==
  AgreesWithReference /\ RelaxingNeverRefuses /\ TierCountsThresholds

-----------------------------------------------------------------------------

(* All combinations of the criteria a job description may set.             *)
Optional(field, values) == {<<>>} \cup {[f \in {field} |-> v] : v \in values}

Both(a, b) == {mergeCriteria(c, d) : c \in a, d \in b}

Criteria ==
  Both(Both(Both(Optional("minCgpa", {1, 2}), Optional("minTenthPercent", {1})),
            Both(Optional("maxActiveBacklogs", {0}), Optional("maxGapYears", {0}))),
       Optional("allowDiploma", {FALSE}) \cup Optional("allowedCategories", {{}, {"GENERAL"}}))

(* The records that differ from a record in one field and are better in it:*)
(* a higher mark, a mark or a category where there was none, fewer backlogs*)
(* or gap years, no diploma, no debarment.                                 *)
BetterIn(s) ==
  {t \in Records :
     \E f \in DOMAIN s \ {"departmentCode"} :
       /\ \A g \in DOMAIN s \ {f} : t[g] = s[g]
       /\ CASE f \in {"cgpa", "tenthPercent", "twelfthPercent"} ->
                  t[f] # Missing /\ (s[f] # Missing => t[f] > s[f])
            [] f \in {"activeBacklogs", "backlogHistory", "gapYears"} -> t[f] < s[f]
            [] f = "diplomaFlag" -> s[f] /\ ~t[f]
            [] f = "category" -> s[f] = Missing /\ t[f] # Missing
            [] f = "placementStatus" -> s[f] = "DEBARRED"}

(* A better record is never less eligible, whatever the criteria and the   *)
(* programs: the min evaluators fail closed on a missing mark and the max  *)
(* evaluators count down, so completing or improving a record costs nobody *)
(* a drive (threshold.helper.ts:1-79, category.evaluator.ts:3).            *)
BetterStaysEligible ==
  candidate # None =>
    \A criteria \in Criteria, programs \in {{}, {"CSE"}} :
      runEligibilityEvaluators(candidate, criteria, programs).eligible =>
        \A t \in BetterIn(candidate) :
          runEligibilityEvaluators(t, criteria, programs).eligible

-----------------------------------------------------------------------------

Students == {[userId |-> "ana", departmentId |-> "CSE"],
             [userId |-> "ben", departmentId |-> "ECE"]}
Companies == [companyId : {"acme", "bolt"}]
Drives == [status : {"DRAFT", "SCHEDULED", "ONGOING", "COMPLETED", "CANCELLED"}]
Applications ==
  {[userId |-> s.userId, departmentId |-> s.departmentId, companyId |-> c.companyId] :
     s \in Students, c \in Companies}
OfferRows == [userId : {"ana", "ben"}, companyId : {"acme", "bolt", "ppo"}]
Threads == [userId : {"ana", "ben"}]
PolicyRows == [type : {"OFFER_CAP", "RE_ELIGIBILITY"}]
Queries == [userId : {None, "ana"}, departmentId : {None, "CSE"},
            companyId : {None, "acme"}]
AnyRow == [userId |-> None, departmentId |-> None, companyId |-> None]

Shown(resource, list(_, _)) == Request(Token(user), resource, list).rows

Found(resource, find(_, _)) == Request(Token(user), resource, find).status = 200

(* For each table, whatever rows it holds: the list without a filter holds *)
(* exactly the rows findOne gives the caller, and with a filter no more    *)
(* than them.                                                              *)
StudentsAgree(rows) ==
  \A s \in rows, q \in Queries :
    LET List(u, scope) == listStudents(u, scope, rows, q)
        All(u, scope) == listStudents(u, scope, rows, AnyRow)
        Find(u, scope) == findStudent(u, scope, s)
        found == Found("students.records", Find)
    IN  /\ s \in Shown("students.records", List) => found
        /\ s \in Shown("students.records", All) <=> found

CompaniesAgree(rows) ==
  \A c \in rows :
    LET List(u, scope) == listCompanies(u, scope, rows)
        Find(u, scope) == findCompany(u, scope, c)
    IN  c \in Shown("companies.records", List) <=> Found("companies.records", Find)

JobDescriptionsAgree(rows) ==
  \A j \in rows, q \in Queries :
    LET List(u, scope) == listJobDescriptions(u, scope, rows, q)
        All(u, scope) == listJobDescriptions(u, scope, rows, AnyRow)
        Find(u, scope) == findJobDescription(u, scope, j)
        found == Found("jd.shortlist", Find)
    IN  /\ j \in Shown("jd.shortlist", List) => found
        /\ j \in Shown("jd.shortlist", All) <=> found

DrivesAgree(rows) ==
  \A d \in rows :
    LET List(u, scope) == listDrives(u, scope, rows)
        Find(u, scope) == findDrive(u, scope, d)
    IN  d \in Shown("drives.manage", List) <=> Found("drives.manage", Find)

ApplicationsAgree(rows) ==
  \A a \in rows :
    LET List(u, scope) == listApplications(u, scope, rows)
        Find(u, scope) == findApplication(u, scope, a)
    IN  a \in Shown("applications.apply", List) <=> Found("applications.apply", Find)

OffersAgree(rows) ==
  \A o \in rows, q \in Queries :
    LET List(u, scope) == listOffers(u, scope, rows, q)
        All(u, scope) == listOffers(u, scope, rows, AnyRow)
        Find(u, scope) == findOffer(u, scope, o, rows)
        found == Found("offers.manage", Find)
    IN  /\ o \in Shown("offers.manage", List) => found
        /\ o \in Shown("offers.manage", All) <=> found

(* The list builds a query and findOne compares a loaded row, in different *)
(* methods of every controller, and missing departments and companies go   *)
(* through both (students, companies, job-descriptions, drives,            *)
(* applications and offers.controller.ts): they agree all the same.        *)
ListAgreesWithFindOne ==
  user # None =>
    /\ StudentsAgree(Students)
    /\ CompaniesAgree(Companies)
    /\ JobDescriptionsAgree(Companies)
    /\ DrivesAgree(Drives)
    /\ ApplicationsAgree(Applications)
    /\ OffersAgree(OfferRows)

(* What is a caller's own: a student's rows, a recruiter's company's, those*)
(* of a coordinator's department; the placement office's, all.             *)
Own(row) ==
  CASE user.role = "STUDENT" -> "userId" \in DOMAIN row /\ row.userId = user.sub
    [] user.role = "RECRUITER" ->
         "companyId" \in DOMAIN row /\ row.companyId = user.companyId
    [] user.role = "FACULTY_COORD" ->
         IF "status" \in DOMAIN row THEN row.status = "DRAFT"
         ELSE "departmentId" \in DOMAIN row /\ row.departmentId = user.departmentId
    [] OTHER -> TRUE

OwnOnly(resource, write(_, _)) ==
  \A row \in Request(Token(user), resource, write).rows : Own(row)

(* For each table, whatever rows it holds, and each write to it.           *)
StudentWritesOwn(rows) ==
  /\ LET W(u, scope) == updateMyLinks(u, scope, rows)
     IN  OwnOnly("students.records", W)
  /\ LET W(u, scope) == updateMyResume(u, scope, rows)
     IN  OwnOnly("resume.manage", W)
  /\ LET W(u, scope) == updateMentorProfile(u, scope, rows)
     IN  OwnOnly("mentorship.community", W)
  /\ \A b \in Queries :
       LET W(u, scope) == apply(u, scope, rows, b)
       IN  OwnOnly("applications.apply", W)

CompanyWritesOwn(rows) ==
  \A c \in rows :
    LET Create(u, scope) == createCompany(u, scope, c)
        Update(u, scope) == updateCompany(u, scope, c)
        Post(u, scope) == createJobDescription(u, scope, c)
    IN  /\ OwnOnly("companies.records", Create)
        /\ OwnOnly("companies.records", Update)
        /\ OwnOnly("jd.shortlist", Post)

DriveWritesOwn(rows) ==
  \A d \in rows :
    LET Create(u, scope) == createDrive(u, scope, d)
        Update(u, scope) == updateDriveStatus(u, scope, d)
        Round(u, scope) == addRound(u, scope, d)
    IN  /\ OwnOnly("drives.manage", Create)
        /\ OwnOnly("drives.manage", Update)
        /\ OwnOnly("drives.manage", Round)

ApplicationWritesOwn(rows) ==
  \A a \in rows :
    LET Withdraw(u, scope) == withdraw(u, scope, a)
        Shortlist(u, scope) == shortlist(u, scope, a)
        Result(u, scope) == recordRoundResult(u, scope, a)
        Extend(u, scope) == createOffer(u, scope, a)
    IN  /\ OwnOnly("applications.apply", Withdraw)
        /\ OwnOnly("jd.shortlist", Shortlist)
        /\ OwnOnly("drives.manage", Result)
        /\ OwnOnly("offers.manage", Extend)

OfferWritesOwn(rows) ==
  \A o \in rows :
    LET Accept(u, scope) == acceptOffer(u, scope, o)
        Reject(u, scope) == rejectOffer(u, scope, o)
        Approve(u, scope) == approveOffer(u, scope, o)
        Revoke(u, scope) == revokeOffer(u, scope, o)
        Ppo(u, scope) == createPpo(u, scope, o)
    IN  /\ OwnOnly("offers.manage", Accept)
        /\ OwnOnly("offers.manage", Reject)
        /\ OwnOnly("offers.manage", Approve)
        /\ OwnOnly("offers.manage", Revoke)
        /\ OwnOnly("offers.manage", Ppo)

(* The cached verdicts, one per student: a request to evaluate names any   *)
(* student, and the roster of a drive evaluates them all and keeps what it *)
(* computes (eligibility.service.ts:207, 300).                             *)
VerdictWritesOwn(students, drives) ==
  /\ \A s \in students :
       LET Evaluate(u, scope) == evaluateEligibility(u, scope, s)
       IN  user.role \notin {"STUDENT", "FACULTY_COORD"} => OwnOnly("drives.manage", Evaluate)
  /\ \A d \in drives :
       LET Roster(u, scope) == IF getEligibility(u, scope, d).status = 200
                                 THEN Ok(students) ELSE Refuse(403)
       IN  user.role # "FACULTY_COORD" => OwnOnly("drives.manage", Roster)

(* A thread, by the userId of its author: a new one is the caller's, and a *)
(* reply sets the status or the time of the thread it answers.             *)
BoardWritesOwn(threads) ==
  \A t \in threads :
    LET Create(u, scope) == createThread(u, scope, [t EXCEPT !.userId = u.sub])
        Reply(u, scope) == addReply(u, scope, t)
    IN  /\ OwnOnly("mentorship.community", Create)
        /\ user.role # "STUDENT" => OwnOnly("mentorship.community", Reply)

(* A policy rule has no column that would make it anyone's own.            *)
PolicyWritesOwn(rules) ==
  \A r \in rules :
    LET Write(u, scope) == policyRules(u, scope, r)
    IN  OwnOnly("policy.rules", Write)

(* A write of a controller behind the two guards reaches no row that is not*)
(* its caller's own, however its service repeats the check                 *)
(* (applications.service.ts:129, 239, 286, offers.service.ts:148,          *)
(* drives.controller.ts:149), but for three that ask for no such thing: a  *)
(* student or a coordinator evaluates any student                          *)
(* (eligibility.controller.ts:17), a coordinator's roster every student    *)
(* (drives.controller.ts:85), and a student's reply touches the thread of  *)
(* another (mentorship.service.ts:195).                                    *)
WritesStayInScope ==
  user # None =>
    /\ StudentWritesOwn(Students)
    /\ CompanyWritesOwn(Companies)
    /\ DriveWritesOwn(Drives)
    /\ ApplicationWritesOwn(Applications)
    /\ OfferWritesOwn(OfferRows)
    /\ VerdictWritesOwn(Students, Drives)
    /\ BoardWritesOwn(Threads)
    /\ PolicyWritesOwn(PolicyRows)

-----------------------------------------------------------------------------

MCDepartmentOf == "ana" :> "CSE" @@ "ben" :> "ECE"

CountsAgree(offers) ==
  LET List(u, scope) == listOffers(u, scope, offers, AnyRow)
      counts == getRecruiterSummary(offers, user.companyId)
  IN  \A status \in DOMAIN counts :
        counts[status] = Cardinality({o \in Shown("offers.manage", List) : o.status = status})

(* A number and the list behind it agree, for every scope and metric and   *)
(* for the accepted offers the CTC statistics are made of: the aggregate is*)
(* SQL, the drilldown a query per metric, and only the accepted offers     *)
(* share a predicate (analytics-query.service.ts:238-246).  The same goes  *)
(* for a recruiter's counts and the offers the offers page lists for them. *)
KpiMatchesDrilldown ==
  /\ cohort # None =>
       \A scope \in Department \cup {Null} :
         LET numbers == computeScopedAggregate(cohort, scope)
         IN  /\ \A metric \in Metric :
                  numbers[metric] = Cardinality(getDrilldown(cohort, scope, metric))
             /\ numbers.accepted = getDrilldown(cohort, scope, "ACCEPTED_OFFERS")
  /\ user # None /\ user.role = "RECRUITER" /\ user.companyId # None =>
       CountsAgree([userId : {"ana", "ben"}, companyId : {"acme", "bolt", "ppo"},
                    status : OfferStatus \ {"REVOKED"}])

-----------------------------------------------------------------------------

(* The rows of a tenant: each student has at most one application to a     *)
(* drive and one offer of a company, in statuses the worlds go through.    *)
StudentOf(name, department, placement, cgpa) ==
  [userId |-> name, departmentId |-> department, departmentCode |-> department,
   placementStatus |-> placement, mentorOptIn |-> placement = "PLACED",
   cgpa |-> cgpa, tenthPercent |-> 1, twelfthPercent |-> 1, activeBacklogs |-> 1,
   backlogHistory |-> 1, gapYears |-> 0, diplomaFlag |-> FALSE, category |-> Missing]

DriveOf(company, status) ==
  [companyId |-> company, status |-> status,
   eligiblePrograms |-> IF status = "ONGOING" THEN {"CSE"} ELSE {},
   minCriteria |-> IF company = "acme" THEN [f \in {"minCgpa"} |-> 2]
                   ELSE [f \in {"maxActiveBacklogs"} |-> 0]]

World(applicationStatus, offerStatus) ==
  LET students == {StudentOf("ana", "CSE", "UNPLACED", 2), StudentOf("ben", "ECE", "PLACED", 3),
                   StudentOf("cal", "CSE", "DEBARRED", Missing)}
      drives == {DriveOf(c, s) : c \in {"acme", "bolt"},
                   s \in {"DRAFT", "SCHEDULED", "ONGOING", "COMPLETED", "CANCELLED"}}
  IN  [students |-> students, drives |-> drives, departments |-> {"CSE", "ECE"},
       companies |-> Companies, jobDescriptions |-> Companies, criteria |-> <<>>,
       applications |->
         {[userId |-> s.userId, departmentId |-> s.departmentId, companyId |-> d.companyId,
           drive |-> d, status |-> applicationStatus] : s \in students,
            d \in {e \in drives : e.companyId = "bolt" /\ e.status \in {"ONGOING", "COMPLETED"}}},
       offers |-> {[userId |-> s.userId, companyId |-> c, status |-> offerStatus] :
                     s \in students, c \in {"acme", "ppo"}},
       rules |-> [status : {"DRAFT", "ACTIVE", "ARCHIVED"}],
       threads |-> [thread : {"q1", "q2"}]]

Worlds ==
  {World("APPLIED", "PENDING"), World("SHORTLISTED", "EXTENDED"), World("IN_ROUND", "ACCEPTED"),
   World("SELECTED", "REJECTED"), World("REJECTED", "REVOKED"), World("WITHDRAWN", "EXTENDED")}

(* A user whose token names what its role needs.                           *)
SignedIn ==
  /\ user # None
  /\ user.role = "STUDENT" => user.sub \in {"ana", "ben", "cal"}
  /\ user.role = "FACULTY_COORD" => user.departmentId # None
  /\ user.role = "RECRUITER" => user.companyId # None

Linked == (commands(user) \ {"logout"}) \cup visibleLinks(user)

(* Every query of a page is answered, and with the department it asked for.*)
PageAnswered(db, href) ==
  \A query \in {r.query : r \in Page(user, db, href).reads} :
    LET key == query.key
        departments == {row.departmentId : row \in Data(query)}
    IN  /\ \/ query.answer.status = 200
           \/ href = "/offers" /\ user.role = "SUPER_ADMIN" /\ key[1] = "applications"
        /\ \/ key[1] # "analytics" \/ Len(key) < 4
           \/ key[Len(key)] \in {None} \cup departments
           \/ href = "/reports" /\ user.role = "FACULTY_COORD"

(* So is every page a user is given a link to, though navigation.ts, the   *)
(* pages, the permission registry and the row checks each decide on their  *)
(* own who sees what.  Two exceptions: the offer dialog lists applications *)
(* for a super admin, who may not (offers/page.tsx:256), and in the report *)
(* each branch row of a coordinator is of the coordinator's department     *)
(* (reports/page.tsx:112).                                                 *)
PagesAnswered ==
  SignedIn => \A db \in Worlds, href \in Linked : PageAnswered(db, href)

(* No button of a page is for a request the API refuses.                   *)
PageAccepted(db, href) ==
  \A m \in Page(user, db, href).sends :
    \/ m.answer.status = 200
    \/ m.name = "apply" /\ href = "/applications"
    \/ m.name = "apply" /\ \E me \in Me(user, db) : me.placementStatus = "DEBARRED"
    \/ m.name = "createReply" /\ user.role = "FACULTY_COORD"
    \/ m.name = "recordRoundResult" /\ m.answer.status = 409

(* No button is offered for a request the API refuses to that user or in   *)
(* that status of the row.  What is refused all the same: the apply dialog *)
(* lists drives whatever the student's record says (it tells the user to   *)
(* check, applications/page.tsx:265), the home page has no look at a       *)
(* debarment (student-home.tsx:66), a coordinator is shown a reply form the*)
(* API does not accept (mentors/page.tsx:172), and a round result can be   *)
(* typed in for a withdrawn application (applications/page.tsx:393).       *)
ButtonsAccepted ==
  SignedIn => \A db \in Worlds, href \in Linked : PageAccepted(db, href)

(* A query that shows facts a mutation writes has a key the mutation       *)
(* invalidates, or a longer one.                                           *)
PageRefreshed(db, href) ==
  LET page == Page(user, db, href)
  IN  \A m \in page.sends, r \in page.reads :
        m.writes \cap r.shows # {} =>
          \E k \in m.invalidates : Seqs!IsPrefix(k, r.query.key)

(* After a mutation sent from a page no query mounted there still shows    *)
(* the facts it wrote.                                                     *)
MutationsRefresh ==
  SignedIn => \A db \in Worlds, href \in Linked : PageRefreshed(db, href)

(* The home page's preview never hides a drive from a student the engine   *)
(* would let through, "the API remains the source of truth on apply"       *)
(* (student-home.tsx:65): it looks at some of the merged criteria only and *)
(* takes a missing CGPA for zero.                                          *)
FitNeverHidesEligible ==
  candidate # None =>
    \A institution \in Optional("minCgpa", {1, 2}) \cup Optional("maxActiveBacklogs", {0}),
       jd \in Criteria, programs \in {{}, {"CSE"}} :
      runEligibilityEvaluators(candidate, mergeCriteria(institution, jd), programs).eligible
        => assessFit([minCriteria |-> jd, eligiblePrograms |-> programs], candidate)
=============================================================================

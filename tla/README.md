# PMS: a TLA+ model of the placement management system

PMS is a multi-tenant service with which a college runs campus placements:
companies post job descriptions, drives with a pipeline of rounds are held,
students apply, offers are extended, accepted and revoked under the
institution's policies, and dashboards summarise the season. The API is NestJS
over Postgres (Prisma) and Redis (BullMQ), the web client is Next.js.

Most modules here model parts in which requests race: each request is a handful
of SQL statements in READ COMMITTED transactions, and many are in flight at
once. The others model what has no state of its own (rules, permissions,
aggregates, which page asks what) as operators, and check each against what it
has to agree with. TLC checks small instances; TLAPS proves most of the safety
properties for every number of rows, requests and tabs.

Contents: [the system](#the-system), [modules](#modules), [runs](#runs),
[fairness](#fairness), [proofs](#proofs), [findings](#findings),
[what is not modelled](#what-is-not-modelled), [plan](#plan).

## The system

Paths are below `src/`; `api` stands for `apps/api/src/modules`, `web` for
`apps/web`.

| Component | State | Operations | Correct when |
|---|---|---|---|
| Offers (`api/offers/offers.service.ts`) | `offers`, `students.placement_status`, `audit_events` | create, createPpo, approve, accept, reject, revoke | caps and tiers hold, placement follows the accepted offers, statuses follow the lifecycle |
| Offer rules (`offer-eligibility.util.ts`, `slab.service.ts`) | none | checkOfferEligibility, classifySlab | the gates are the documented rule |
| Policy rules (`api/policy`) | `policy_rules` | create, createVersion, activate | one ACTIVE rule per family, never a gap |
| Drives (`api/drives`) | `drives`, `rounds` | create, updateStatus, addRound | coordinators change only DRAFT drives |
| Applications (`api/applications`) | `applications`, `round_results` | apply, withdraw, shortlist, recordRoundResult | status and results agree, only those allowed apply |
| Eligibility (`api/eligibility`) | `eligibility_evaluations` (a cache) | evaluate, evaluateDriveBatch, dryRun | what is served was true of that student, a refresh reaches the batches, a dry run foretells |
| Sessions (`api/auth`) | `sessions`, `magic_link_tokens` | login, magic link, refresh, logout | one rotation per token, reuse detected only when there was one, a link starts one session |
| Web API client (`web/lib`) | auth store per tab, localStorage, `refreshPromise` | apiFetch, refresh, logout | calls end, one refresh at a time |
| Institutions (`api/institutions`, `api/operator`) | `institutions`, the console page | register, suspend, reactivate | no login during a suspension, the page shows what is |
| Analytics (`api/analytics`) | `placement_summaries`, the BullMQ queue | listener, throttled queue, recompute, conditional GET, drilldown | a row was true, one row per scope, the dashboard catches up, a number equals its list |
| Mentorship (`api/mentorship`) | profiles, threads, replies | opt in, ask, reply | mentors were placed, ANSWERED means answered |
| Resumes (`api/resumes`, `web` resume page) | `resumes`, the editor | get-or-create, upsert; load, edit, save | the last save is kept, a clean page is a stored one |
| RBAC, guards | a static table | resolve the scope, check the row | lists, single reads and writes agree on who may |
| Web pages and hooks | React Query caches | query, mutate, invalidate | no link to a refused page, no refused button, no stale list |
| Students, companies, job descriptions | their tables | CRUD | only one's own rows |

How they interact:

- Every operation runs in `TenantPrismaService.run`
  (`apps/api/src/database/tenant-prisma.service.ts:31-40`): one interactive
  transaction, no isolation level given (so READ COMMITTED: each statement has a
  snapshot of its own), 5 s timeout, a thrown error rolls it back. Some
  operations use several transactions one after another (`apply`, `addRound`,
  `refresh`, the logins).
- Offers read the ACTIVE policy rules inside their transaction; the evaluators
  read the ACTIVE institution rule; applications read `placement_status`, which
  the offer handlers write; all emit events that make analytics recompute the
  summaries.
- The client holds an access and a refresh token; a 401 starts one refresh that
  the other calls of the tab wait for. Pages reach the API through hooks that
  cache by key and invalidate by prefix.

What is hard: statements of concurrent transactions interleave and only offers
take a row lock; a row read before the lock or by another statement may be stale
when it is written by id; a request may fail between any two steps; the unique
indexes do not see null columns; events leave before their transaction commits;
the queue drops what it takes for a duplicate; answers of the refresh endpoint
get lost; tabs share tokens through localStorage; the pages decide for
themselves what the API will accept. `PROJECT.json` lists each such place with
its line under `hazards`.

## Modules

| Module | Models | Checked by |
|---|---|---|
| `OfferPolicy` | the pure offer rules | `MCRules` |
| `Offers` (extends `OfferPolicy`) | the offer transactions | `MCOffers` |
| `OfferLedger` | the abstract specification `Offers` implements | `MCOffers` |
| `PolicyRules` | versions of policy rules and their activation | `MCPolicyRules` |
| `Applications` | drives, rounds, applications, results | `MCApplications` |
| `Evaluators` | the ten rule evaluators and the merge of criteria | `MCRules`, `MCEligibility` |
| `Eligibility` (extends `Evaluators`) | evaluations, batches and dry runs over the verdict cache | `MCEligibility` |
| `Sessions` | rotation in the API, the client of each tab, the network | `MCSessions` |
| `Accounts` | institutions, logins, magic links | `MCCampus` |
| `Mentorship`, `Resumes` | the board; the one resume of each student | `MCCampus` |
| `ResumeStudio`, `Console` | the resume page; the operator's page | `MCCampus` |
| `Summaries` | aggregates and drilldowns | `MCRules`, `MCAnalytics` |
| `Analytics` (extends `Summaries`) | events, queue, workers, summaries, dashboard | `MCAnalytics` |
| `Access` | permission table, guards, the row checks of the controllers | `MCRules` |
| `Hooks` (extends `Access`, `Evaluators`) | query keys, answers, invalidations | `MCRules` |
| `Pages` (extends `Hooks`) | the queries and buttons of each page for each user | `MCRules` |
| `Offers_proofs`, `PolicyRules_proofs`, `Applications_proofs`, `Eligibility_proofs`, `Sessions_proofs`, `Campus_proofs`, `Analytics_proofs` | theorems about the module of that name (`Campus_proofs`: `Accounts`, `Mentorship`, `Resumes`, `ResumeStudio`, `Console`) | |
| `Rules_proofs` | theorems about `OfferPolicy`, `Evaluators`, `Summaries`, `Access`, `Hooks` and `Pages`, and the properties of `MCRules` | |

Definitions keep the names of the source. A definition called a *mutant* in its
comment is a deliberately wrong variant of the one below it; it is used by no
specification and serves to show that a property can fail.

**Offers.** The columns of the tables are variables (`status`, `slab`, `owner`,
`placement`), `lock` is the FOR UPDATE on a student row, and `tx[r]` is what the
open transaction of request `r` has read. The handlers' first statements (and
their guards) are the actions `create` ... `revoke`; the row they read is never
read again in the code, so `tx[r].seen` may be stale from there on.
`lockStudent` waits for the row; `assertOfferAllowed`, `countRejections` and
`countRemaining` read under it and either decide or roll back; a `...Commit`
action makes the writes visible at once. `abort` may happen at any step. A
proposed (PENDING) offer takes no lock in the code, but its insert needs the
foreign key's share lock on the student, so it waits for a FOR UPDATE held by
another transaction. Approving, accepting and extending read three policy rows
in statements of their own; the cap is read with the lock and the re-eligibility
rule with the offers, so an activation may fall between them. OPTED_OUT as a
placement status is left out (nothing in the code sets it).

**OfferLedger** says what the handlers promise together: one book per student in
which a tier is held by one offer at a time, an accepted offer is topped only by
a higher one, and nobody with an accepted offer counts as unplaced; every
operation is one step. `Offers!Ledger` maps the rows to the book, each commit to
a ledger step and every other statement, retry and failure to a stutter. A write
on a stale reading is visible there as a legal step on the offer's own line (a
released offer that is accepted again) and never as a second holder of a tier.

**PolicyRules.** `activate` reads the rule (DRAFT), `scan` takes the snapshot of
the `updateMany`, `archive` waits for the rows and re-checks them, `setActive`
updates by id and commits. `overlapped` is auxiliary: the families in which two
activations were ever open at once. The properties promise one ACTIVE rule only
for the others.

**Applications.** A request is one HTTP call: it serves one operation from its
first read to its last write, and an operation is `Begin` (read and guard),
further reads, and a step that writes and ends. Nothing is locked, except the
result row that `upsertResult` holds. The verdict of the evaluators is a choice,
except that a debarred student is refused; `setPlacement` stands for the writes
of the offer handlers. The unique indexes are guards or conditional writes.

**Eligibility.** A cached row is named by student, rule version and a number, so
that two rows of the null version can exist, which the unique index allows.
`evaluate` and `evaluateDriveBatch` are split at their statements; the write of a
transaction and its commit are one step. `setPlacementStatus` and `activate`
stand for the offer and policy handlers. `had`, `predicted` and `refreshed` are
histories. `contended` holds, for an open request, the students whose row it has
not found and another request has inserted since; `doubled` the students whose
row such a request inserted all the same. Neither is read by a guard. Marks are numbers, null columns `Missing`, criteria functions on the
fields that are set.

**Sessions.** A session is its refresh token. `rpc[b, c]` is the refresh that
call `c` of tab `b` has started: sent, read by the API (`seen`), answered
(`got`). `rotateRead` and `rotateOk` are separate because the code reads the
session in one statement and updates it by id in another. Lost requests and
answers are `refreshLost`, a failure after the rotation is `lookupFails`, a
reload or another tab is `openTab`, and `closeTab` leaves localStorage as it
is. `alarm` and `disturbed` are auxiliary: `disturbed` records that some token
got a second holder, by a lost answer, by a second tab, or by a logout that
overlapped a refresh of its tab. These are the cases in which the code's reuse
detection does revoke the user's sessions; the properties say that nothing else
can make it.

**Accounts, Mentorship, Resumes, ResumeStudio, Console** share no row. `MCCampus`
composes them: a behaviour is one of any of them (`moving`) while the others
stay at rest, which explores each in full. `Accounts` splits self-registration,
SSO and magic-link logins at their transactions and, where it matters (the read
and the consumption of a link), at their statements. `Mentorship` and `Resumes`
have one read and one write per request. `ResumeStudio` has the two queries and
two mutations of the page, token rotations, typing and saving; `Console` has
overlapping loads and changes whose answers may be lost. Behind an open console
institutes register on the public page (`POST /institutions/register` asks for no
key) and other holders of the platform key change their status:
`changedOutside`, with the institutes concerned in `outside` until the next list
is read.

**Analytics.** `write` emits its event, `commit` or `rollback` follows at any
later time; `onEvent` adds a job unless the deduplication key lives; a worker
goes through `process`, the season aggregate, then aggregate, find and write for
each row; `crash` loses what is in memory and hands running jobs out again;
`poll` is the dashboard's conditional GET. `pending` and `overlapped` are
histories: a change no recompute will see, and recomputes that overlapped.

**Access, Hooks, Pages** are operators over a caller and the rows of the tenant.
A request is the guards, the scope of the permission table, and the row check of
the controller or service, and gives a status and the rows shown or changed. A
hook is a query key and its answer, or a mutation with its answer, the facts it
writes and the keys it invalidates. A page is the set of its queries and of the
requests its buttons can send. An answer goes as far as the caller and the
statuses of rows decide it: the 404 of a summary before its first recompute is
not given. Facts are named by hand and are those a mutation writes itself, so
what follows from it in rows of another kind (verdicts, summaries) is not part of
`MutationsRefresh`; `Eligibility` and `Analytics` have it.

**What `crossed` says.** Most handlers check a row and update it by id later, so
their promises cannot hold for every interleaving. `Offers` and `Applications`
record, in an auxiliary variable that no guard reads, which offers, applications
and drives are affected: a row is *crossed* when a request writes it (or what a
check on it relied on: a drive's status, a student's debarring, the rounds of a
drive) while another request has read it and not ended. Crossed rows stay
crossed. The properties of the second group then hold for every row that is not
crossed. That makes them statements about which races matter: two requests on
different offers of one student, an insert next to an accept, a policy change in
between or a failure half-way break none of them; only a write between the read
and the write of another request on the same row does. The two kinds of
guarantee are thus what the student lock and the unique indexes give (always)
and what checking before writing gives (until crossed). `overlapped`, `disturbed`,
`contended` and `loadsCrossed` play the same part in the other modules.

## Runs

All specifications may stop: ids are bounded and users need not send anything
more, so every cfg says `CHECK_DEADLOCK FALSE`.

| Run | Instance | Shows |
|---|---|---|
| `rules` | all inputs up to the bounds below | what has no state of its own agrees with what it must: offer rules, evaluators, permissions, aggregates, pages, invalidations, Fit score |
| `offers_concurrent` | 1 student, 2 offers, 2 requests, 2 tiers, policies activated at any time | always: tiers stay apart, accepts climb, UNPLACED students have no accepted offer, the ledger is implemented. Until crossed: PLACED means accepted, legal lifecycle, truthful audit rows |
| `offers_strict` | 1 student, 2 offers without a tier, 2 requests, total cap | one active offer in all; every request ends |
| `offers_accept_race` | as concurrent, default policies | *violation*: an accept overwrites a revoke |
| `policy_rules` | 4 rules, 2 families, 2 requests | one ACTIVE rule unless overlapped, never a gap, ARCHIVED stays |
| `policy_race` | same | *violation*: two ACTIVE rules |
| `applications` | 1 student, 1 drive, 2 rounds, 2 requests | always: statuses follow results. Until crossed: the history of an application, who may apply and when, rounds proposed in DRAFT |
| `sessions` | 2 tabs, 3 calls, 3 tokens | no false alarm, the stored token is good, one rotation per token, calls end |
| `eligibility` | 2 students, 2 rules, 2 requests, 3 evaluations, 1 status change | verdicts served were true, a second row or a failed insert only where another insert overtook the search, a refresh reaches the batches, a dry run foretells |
| `analytics` | 1 student, 2 scopes, 2 workers, 2 changes, 1 crash | summaries were true, one row per scope, the dashboard catches up |
| `campus` | 2 institutions, 2 links, 2 logins; 2 students, 1 thread, 2 requests; 2 resume requests; 2 texts; 2 clients, 2 requests | no login during a suspension, links used once unless verified twice at a time, a consistent board, kept resumes, honest pages |
| `magic_link_race` | same | *violation*: one link, two sessions |

Some properties are conjunctions of named parts, so that one run answers one
question: `OfferRulesAgree` (reference rule, monotone in the policy, thresholds),
`PlacedIffAccepted`, `OfferHistory` (lifecycle, audit rows), `StatusHistory`
(applying again, withdrawing, deciding, selecting), `BoardConsistent` (mentors
were placed, ANSWERED means a reply that counts), `ResumeKept` (the last save
kept, failures only under contention), `OneRowUnlessOvertaken` (second rows, rows
in the way of an insert, a row for all whom a batch has answered about),
`WritesStayInScope` (one part per table; the three writes that reach rows of
others are named in it, see Findings).

**The `rules` run** enumerates, in its states, one kind of input each: up to 3
existing offers with every proposal, cap, set of transitions, threshold and CTC
0..3; every record of a candidate over two values per column that matters, with
every combination of criteria; every role with ids of its own kind or another's;
six tenants (`Worlds`) that take every status of applications and offers in
turn; and every batch of two students in two departments. `PagesAnswered` and
`ButtonsAccepted` name the exceptions the code has today (see Findings); a new
one fails them.

**Why the bounds are enough.** A race needs two requests, and every property
relates at most two offers, two rules, two cached rows or one application. Two
offers give each pair of statuses, among them the revocation of one of two
accepted offers. `offers_strict` takes offers without a tier, because only the
total cap refuses those; both kinds meet in `rules` and in the proofs. Two
families show that activations of different families do not interfere. Two
positions (1 and 3) give a last and an earlier round, and a round appended
later. The drive statuses are one per class the code distinguishes (draft, open,
closed). In `eligibility`, the two students are one above the thresholds and one
with a missing mark, and three evaluations fit a verdict, its refresh and a
batch. In `analytics` one student is in two scopes, which is the shortest list
of rows a job goes through, and two workers overlap.

`sessions` has a `CONSTRAINT Bounded`: the second tab makes one call at a time,
and once `disturbed` it is closed. The safety properties claim nothing of
disturbed states, so they lose nothing by the second part. `CallsEnd` is shown of
both tabs before a disturbance and of one tab after it; no call has to start, so
a fair behaviour in which the second tab stays closed is a behaviour of the
specification, and calls of different tabs wait for nothing in common. `campus`
has a `CONSTRAINT ConsoleUndisturbed`: of the console no state is looked at after
two loads were under way at once or the answer of a change was lost. Neither flag
is ever reset, and the console's property says nothing of such states.

Symmetry sets are used in runs of safety properties only (invariants and action
properties); the initial states and the properties name no particular row.

## Fairness

- `Offers!FairSpec`: a transaction whose next statement can run runs it (weak
  fairness; Postgres executes, or the 5 s timeout aborts), and a waiter for a row
  lock that is freed again and again gets it (strong fairness of `lockStudent`
  and `proposeCommit`; Postgres queues the waiters of a row). Nothing is assumed
  of new requests, failures or policy changes.
- `Sessions!FairSpec`: a refresh the API received is worked on, an answer is
  delivered or `fetch` rejects, a call that was sent is answered. Delivery is not
  assumed: losing the answer satisfies the assumption too. No fairness of logins,
  logouts, tabs or expiry.
- `Analytics!FairSpec`: an open transaction ends, the listener handles its
  events, Redis expires the key and hands out jobs, a worker goes on or fails,
  and the dashboard refetches (its query has an interval). Nothing is assumed of
  writes, and crashes are bounded by `MaxCrashes`.

## Proofs

Each `_proofs` module extends its specification and has one lemma per kind of
step; the theorems close with PTL. The assumptions are those the modules declare
on constants: values such as `None` are not rows, proposed tiers are tiers,
positions are integers, a student's record is a function on the students, the
students of a batch are finitely many and each has a department.

**Offers** (`Invariance`, `TypeCorrect`, `TiersStayApart`,
`UnplacedMeansNoAccepted`, `AcceptedOffersClimb`, `TotalCapHolds`). "No two
active offers in a tier" is not inductive: it needs that what a transaction
decided is still true when it commits. `IInv` adds that rows have an owner and a
tier that an open transaction carries unchanged (`RowsInv`, `TxInv`), that a
transaction past its in-lock reads holds the student's lock (`LockInv`), and what
each decision implies about the other offers of that student until the commit
(`DecidedInv`). Writes of another transaction touch another student, or go
through the lock, or (a PENDING insert) are not active. `AcceptClimbs` is an
action property from the same invariant. `TotalCapHolds` assumes that the
institution's cap is ONE_TOTAL throughout (`CapPolicies = {"ONE_TOTAL"}`).

**Refinement** (`OffersImplementLedger`, in `Offers_proofs`): the initial
states map to the ledger's, and under `IInv` every step maps to a ledger step or
a stutter. Inserts, approvals and extensions are `Extend`, accepts `Accept`,
rejections and revocations `Release`; `DecidedInv` is what gives the guards of
the ledger step at the commit.

The second layer of `Offers_proofs` (`UncrossedInvariance`, `PlacedMeansAccepted`,
`FollowsLifecycle`, `AuditIsTruthful`, and the two properties as the runs state
them, `PlacementTellsAcceptance`, `HistoryIsLegal`) shows that `UncrossedInv` is
inductive relative to `IInv`. `SeenInv` says that the status a transaction has
read is still the offer's unless the offer is crossed, and is one its handler
accepts. `RemainInv` says that a revoke that leaves its student PLACED has found
another accepted offer, which the lock keeps there.

**PolicyRules** (`Invariance`, `OneActive`, `AlwaysARule`, `ArchivedStays`).
`AloneInv`: an activation whose family was never overlapped still has in its
snapshot exactly the ACTIVE rules, and its rule is still a DRAFT. `AlwaysARule`
needs no such condition: a transaction that archives also activates, in one
commit.

**Applications** (`StatusesExplained`, `ResultsOfOwnDrive`, `Invariance` and the
rules of an application's history). In `BaseInv`, `TxInv` keeps, for a result
about to be committed, that the status to be set derives from the result to be
written, for some set of rounds; with that, `StatusExplained` survives the other
steps because results are only ever replaced together with the status. `IInv`
adds `FreshInv`: what an open request has read is still so, or what it works on
is crossed. The proof has one lemma per action; those of the writing steps show
that every request whose reading they spoil is among those they cross.

**Eligibility** (`ServedWereTrue`, `RowsUnlessOvertaken`, `RefreshReaches`,
`DryRunForetold`). `IInv` follows a verdict from the status a transaction read,
through the cache, to the answer: at every place it is one the evaluators gave
for a status the student has had. The evaluators stay closed; a step changes no
column but the placement status and not the job description, so a verdict once
given stays one (`GivenKept`). `FreshInv` says what is of the present: a
refreshed key has the present verdict and no transaction holds an older status of
that student (`RefreshedFresh`); nothing has been made under a DRAFT rule
(`DraftUnused`); all that was made under a rule since it was foretold agrees with
the foretelling (`ForetoldFresh`). The two writing steps share one lemma
(`CommitFresh`). `RowsInv` gives the rows of a key: one, until its
student is in `doubled`; a request that is to insert one where there is a row is
in `contended`, and what a
batch has found or served is still there, since no row is ever deleted.

**Analytics** (`SummariesWereTrue`, `RowPerScope`). A worker carries an aggregate
that its scope has had, and the row it found; what the tables hold now has been
seen. For a department the unique index gives the one row, for the batch, whose
department is null, that a worker alone still finds what it has searched for.

**Sessions** (`SessionsTypes`, `AlarmOnlyDisturbed`, `StoredTokensLive`,
`TokensRotateOnce`). Until disturbed, every token has one holder: the store of
one tab, localStorage beside it, or the refresh of that tab, and a tab has at
most one refresh. From that the token a refresh presents is not yet revoked when
it is read, nor when it is written.

**Accounts** (`AccountsTypes`, `NoLoginInSuspension`, `LinksUsedOnce`) and the
other parts in `Campus_proofs` (`BoardStaysConsistent`, `ResumeStaysKept`, `CleanPageIsStored`,
`RowsStayCurrent`): each invariant ties what a request has read to the row while
nothing has come between; for the pages, what an answer under way will bring to
what is stored.

**Rules** (`Rules_proofs`). The `rules` run enumerates inputs; the general
theorems are about any input, and those with `Spec` say that the inputs of the
run are such. `OfferRulesHold` is about every finite set of a student's offers:
the re-eligibility gates compare with one offer or with all, and agree with the
documented reading because a finite set has an offer of the highest tier.
`NobodyLosesByImproving` and `FitHidesNothing` split a verdict into its ten
rules, each monotone in the columns it reads, for any criteria, where the run has
two thresholds. `NumbersAreLists` and `RecruiterCountsAreLists` are about any
students and offers. `AnyRowsAgree` and `AnyWriteIsOwn` (every write of the guarded
controllers, but for the three named in Findings) are about any caller and
whatever the tables hold, provided that foreign keys are set and that `userId` is
unique among students (both are in the schema): for each resource a lemma says
which scope the registry gives a role, and the controllers are compared role by
role. A caller's ids are assumed to be none of the texts the code puts in the
place of a missing one (`"__none__"` and the empty text).

`EveryPage` is about the pages, for any signed-in user and whatever rows a
tenant has (`Signed`: a student has a record, a coordinator a department, a
recruiter a company). Each component of a page has a lemma: its queries are
answered by the scopes above, and its buttons are for rows whose status and owner
the service accepts, because the lists hold only such rows (`OwnRows`,
`WithdrawAccepted`). What a mutation refreshes follows from the keys alone: a
query that shows a fact is keyed below the section of the cache that the
mutation of that fact invalidates (`ReadKeyed`, `SendKeyed`, `KeyedRefreshes`).
`LinkedRoles` gives each page the roles it is linked for. The home page's apply
button needs more (`Previewed`): an institution without criteria of its own, and
drives that only limit what the preview compares, with a positive CGPA, for which
a missing one counts as too low both in the preview and in the engine. Elsewhere
the preview can offer a button the engine refuses, as its comment says. The other
exceptions of the buttons are those of `PageAccepted`, which Findings list.
`PagesAnswer`, `ButtonsWork` and `PagesRefresh` apply `EveryPage` to the tenants
of the run.

Only model-checked: liveness (`RequestsFinish`, `CallsEnd`,
`DashboardCatchesUp`), which is out of the prover's reach. Every other property
of a passing run is a theorem.

## Findings

With a run that shows it:

- `offers_accept_race`: `accept` checks the offer before it takes the student
  lock and never again, so an accept that waits behind a revoke turns the REVOKED
  offer into an ACCEPTED one, against the comment at `offers.service.ts:288-290`.
- `policy_race`: two overlapping activations in a family leave two ACTIVE rules,
  against the comment at `policy-rules.service.ts:104-106`.
- `magic_link_race`: a link is read and consumed in two statements, so two
  verifications that overlap both start a session, against the comment at
  `auth.service.ts:102-104`.

Seen while modelling, without a run of their own; where a property makes an
exception for one, its comment says so:

- "FAIL is always terminal" (`application-status.util.ts:4`) does not hold for a
  result recorded in another round afterwards (`Applications!FailIsTerminal`).
- The answer of a refresh that a logout overlapped sets a new session after the
  store was cleared (`use-logout.ts:12-13`; `Sessions!LoggedOutStays`).
- `requireInstitution` refuses suspended tenants at login, but neither
  `verifyMagicLink` nor a refresh asks for it (`auth.service.ts:174-177`), and
  each rotation renews the 7 days.
- A batch serves "eligible" from the cache for a student who was debarred since;
  only `evaluate` for that student brings it up to date.
- Two requests that compute a student's verdict at the same time while no rule is
  ACTIVE both insert a row of the null version (`eligibility.service.ts:198-215`,
  `300`); a later `evaluate` brings one of them up to date. Under a rule the later
  batch fails as a whole.
- Three writes reach rows that are not their caller's own (`WritesStayInScope`):
  `POST /eligibility/evaluate` asks for `drives.manage` only, so a student or a
  coordinator refreshes the cached verdict of any student
  (`eligibility.controller.ts:17-28`); the roster `GET /drives/:id/eligibility`
  keeps the verdicts of all students when a coordinator asks for it
  (`drives.controller.ts:85-99`); a student's reply sets the status of the thread,
  or the time of its last change, whoever began it (`mentorship.service.ts:195`).
  The first two write what the evaluators give, whoever asks.
- `createThread` accepts a mentor who opted in and is no longer PLACED.
- The queue's "debounce" is a throttle: an event near the end of the window adds
  no job, and the last change may wait for the next event.
- The summary's ETag is its own `computedAt`; a year-on-year answer also depends
  on last year's row (`analytics.controller.ts:116`).
- Pages: a coordinator gets a reply form the API does not accept; a round result
  can be entered for a WITHDRAWN application; a debarred student is offered
  Apply on the home page; the apply dialog says "Applying for myself" to staff;
  a super admin's offers page asks for applications it may not list; the
  report's branch rows of a coordinator all show the own department; the comment
  that staff backfill applications onto completed drives
  (`applications/page.tsx:238-239`) meets a 409 (`applications.service.ts:157`).
- Policy page: unsubmitted forms of three families send a definition the schema
  refuses; clearing the categories means nobody, not any.
- The query cache outlives a logout, and the analytics and mentorship keys hold
  no token.
- Resume page: a token rotation drops unsaved edits, text typed during a save
  is lost or shown as saved, and Save works before the first load. Operator
  console: overlapping loads, a lost answer, or a change made elsewhere (a
  registration on the public page) leave stale rows.

## What is not modelled

- Row-level security: each model is one tenant, all rows are its own.
- The text of requests and answers, form validation, formatting and layout, the
  marketing, login and verification pages, the UI package: no state that another
  part relies on.
- The signing, hashing and formatting of tokens: they are model values.
- The ATS score of a resume: a heuristic with no other definition to agree with.
- Columns of students, companies and job descriptions beyond those a check or a
  page's decision reads; each of their writes is one statement.
- Counts on the operator's list, the comparison of the platform key.
- SQL as such: aggregates are set expressions over the rows their queries name.
- One query cache used by two users in turn (see the last hazard).
- Seeds, migrations, build and deployment files.
- Numbers are compared, hardly ever added: integers without a width. Time is
  absent: a timeout is a failure that may happen at any step, an expiry an event
  that may happen at any moment.

## Plan

Everything of the first plan is built. What would add most next:

1. `Applications` with the verdict taken from `Eligibility` in the place of a
   choice, so that an evaluation in `apply` and one in a batch meet in one cache.
2. An abstract specification of a session (one user, one holder of one token)
   that `Sessions` implements until disturbed.
3. Two users after each other on one browser: the query cache beside `Sessions`.

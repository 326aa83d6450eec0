---------------------------- MODULE Eligibility ----------------------------
(***************************************************************************)
(* apps/api/src/modules/eligibility/eligibility.service.ts: verdicts of    *)
(* one job description, computed by the rule evaluators and cached in      *)
(* eligibility_evaluations under (student, job description, rule version). *)
(* evaluate() recomputes and upserts one verdict, evaluateDriveBatch()     *)
(* serves what is cached and inserts the rest, dryRun() computes the       *)
(* verdicts a proposed institution rule would give and stores nothing.     *)
(*                                                                         *)
(* A transaction is READ COMMITTED, so each of its statements is a step    *)
(* that sees what is committed then; its write and its commit are the last *)
(* step (a second insert of a key waits for the first one and then fails). *)
(* Verdicts of different job descriptions share nothing, so there is one.  *)
(* A student's marks do not change through the API; the placement status   *)
(* does (module Offers), and a rule becomes ACTIVE (module PolicyRules).   *)
(***************************************************************************)
EXTENDS Evaluators, FiniteSets, TLC

CONSTANTS Student, Rule, Request,
          Marks,                \* what Init may choose as the students' records
          Programs,             \* ... as the job description's programs
          MinCriteria,          \* ... as its criteria, Malformed among them
          Definition,           \* the criteria of each institution rule
          MaxChanges,           \* bound: changes of a placement status
          MaxRequests,          \* bound: evaluations and batches begun
          None

ASSUME BoundsAssumption == MaxChanges \in Nat /\ MaxRequests \in Nat
ASSUME MarksAssumption == \A marks \in Marks : DOMAIN marks = Student
ASSUME NoneAssumption == None \notin Rule

VARIABLES
  record,       \* students: their columns
  jd,           \* the job description
  ruleStatus,   \* policy_rules of the institution default's family
  cache,        \* eligibility_evaluations: row to verdict
  tx,           \* the transaction a request is in
  served,       \* the last answer of evaluateDriveBatch, None before it
  had,          \* history: the placement statuses a student has had
  predicted,    \* history: the students a dry run of a DRAFT rule lets through
  refreshed,    \* history: keys evaluated since the student's last change
  contended,    \* history: <<r, s>>, another inserted the row of s that r had not found
  doubled,      \* history: students whose row a contended request inserted all the same
  changes, begun

races == <<contended, doubled>>
vars == <<record, jd, ruleStatus, cache, tx, served, had, predicted, refreshed,
          races, changes, begun>>

PlacementStatus == {"UNPLACED", "PLACED", "DEBARRED"}

Idle == [pc |-> "idle"]

RuleVersion == Rule \cup {None}

ACTIVE == {q \in Rule : ruleStatus[q] = "ACTIVE"}

(* The id under which a verdict is cached: one of the ACTIVE rules         *)
(* (findFirst without an order), null when there is none.                  *)
CurrentVersions == IF ACTIVE = {} THEN {None} ELSE ACTIVE

InstitutionCriteria(rv) ==
  IF rv = None THEN <<>> ELSE parseCriteria(Definition[rv])

resolveCriteria(rv) ==
  mergeCriteria(InstitutionCriteria(rv), parseCriteria(jd.minCriteria))

toEvaluatorStudent(s, status) == [record[s] EXCEPT !.placementStatus = status]

(* The verdict of the evaluators on student s, were its status so.         *)
Verdict(s, status, rv) ==
  runEligibilityEvaluators(toEvaluatorStudent(s, status), resolveCriteria(rv),
                           jd.eligiblePrograms)

(* A row is named by its student, its rule version and its number among the*)
(* rows that agree in both.                                                *)
RowsOf(s, rv) == {row \in DOMAIN cache : row[1] = s /\ row[2] = rv}

NewRow(s, rv) == <<s, rv, Cardinality(RowsOf(s, rv)) + 1>>

(* The cache with new rows, each with the verdict on its student.          *)
WithRows(new, verdict) ==
  [row \in DOMAIN cache \cup new |->
     IF row \in new THEN verdict[row[1]] ELSE cache[row]]

EligibleAmong(verdict) == {s \in Student : verdict[s].eligible}

Init ==
  /\ record \in Marks
  /\ jd \in [minCriteria : MinCriteria, eligiblePrograms : Programs]
  /\ ruleStatus = [q \in Rule |-> "DRAFT"]
  /\ cache = <<>>
  /\ tx = [r \in Request |-> Idle]
  /\ served = None
  /\ had = [s \in Student |-> {record[s].placementStatus}]
  /\ predicted = [q \in Rule |-> None]
  /\ refreshed = {} /\ contended = {} /\ doubled = {}
  /\ changes = 0 /\ begun = 0

-----------------------------------------------------------------------------

(* accept() and revoke() of an offer set PLACED and UNPLACED, a rejection  *)
(* may set DEBARRED; each may find any earlier status.                     *)
setPlacementStatus(s, status) ==
  /\ record[s].placementStatus # status
  /\ changes < MaxChanges
  /\ record' = [record EXCEPT ![s].placementStatus = status]
  /\ had' = [had EXCEPT ![s] = @ \cup {status}]
  /\ predicted' = [q \in Rule |-> None]
  /\ refreshed' = {k \in refreshed : k[1] # s}
  /\ changes' = changes + 1
  /\ UNCHANGED <<jd, ruleStatus, cache, tx, served, races, begun>>

(* activate() archives the ACTIVE rules it sees: all of them, unless an    *)
(* activation overlaps with it and its rule is the one unseen.             *)
activate(q, unseen) ==
  /\ ruleStatus[q] = "DRAFT"
  /\ ruleStatus' = [p \in Rule |->
       CASE p = q -> "ACTIVE"
         [] p \in ACTIVE \ unseen -> "ARCHIVED"
         [] OTHER -> ruleStatus[p]]
  /\ UNCHANGED <<record, jd, cache, tx, served, had, predicted, refreshed, races,
                 changes, begun>>

-----------------------------------------------------------------------------

Goto(r, t) ==
  /\ tx' = [tx EXCEPT ![r] = t]
  /\ contended' = {c \in contended : c[1] # r}
  /\ UNCHANGED <<record, jd, ruleStatus, cache, served, had, predicted, refreshed,
                 doubled, changes>>

Begin(r, t) ==
  /\ tx[r] = Idle
  /\ begun < MaxRequests
  /\ begun' = begun + 1
  /\ Goto(r, t)

Step(r, t) == Goto(r, t) /\ UNCHANGED begun

evaluate(r, s) ==
  Begin(r, [pc |-> "resolve", student |-> s, status |-> record[s].placementStatus])

evaluateResolve(r) ==
  /\ tx[r].pc = "resolve"
  /\ \E rv \in CurrentVersions :
       Step(r, [pc |-> "find", student |-> tx[r].student,
                status |-> tx[r].status, ruleVersion |-> rv])

(* Mutant: the search before the insert is left out. *)
FindsNothing(r) ==
  /\ tx[r].pc = "find"
  /\ Step(r, [pc |-> "upsert", student |-> tx[r].student, status |-> tx[r].status,
              ruleVersion |-> tx[r].ruleVersion, existing |-> {}])

(* findFirst: one row of the key, whichever, if there is any.              *)
evaluateFind(r) ==
  LET t == tx[r]
      rows == RowsOf(t.student, t.ruleVersion)
  IN  /\ t.pc = "find"
      /\ \E existing \in IF rows = {} THEN {{}} ELSE {{row} : row \in rows} :
           Step(r, [pc |-> "upsert", student |-> t.student, status |-> t.status,
                    ruleVersion |-> t.ruleVersion, existing |-> existing])

(* A row of the key is in the way of an insert.  The unique index counts   *)
(* null rule versions as different from each other.                        *)
UniqueViolation(s, rv) == rv # None /\ RowsOf(s, rv) # {}

Written(t) ==
  IF t.existing # {} THEN t.existing ELSE {NewRow(t.student, t.ruleVersion)}

(* Mutant: an existing row is left as it is. *)
CreateOnly(t, verdict) ==
  cache' = WithRows(Written(t) \ t.existing, [s \in {t.student} |-> verdict])

upsertCache(t, verdict) == cache' = WithRows(Written(t), [s \in {t.student} |-> verdict])

(* The students transaction t has found no row of, and will insert.        *)
ToInsert(t) ==
  {s \in Student : \/ t.pc = "upsert" /\ t.existing = {} /\ t.student = s
                   \/ t.pc = "insert" /\ s \notin DOMAIN t.hit}

(* r inserts the rows it has to, and others that wait to insert one of     *)
(* them have searched too early.                                           *)
Inserts(r) ==
  /\ contended' = {c \in Request \X Student :
       /\ c[1] # r
       /\ \/ c \in contended
          \/ /\ c[2] \in ToInsert(tx[r]) \cap ToInsert(tx[c[1]])
             /\ tx[c[1]].ruleVersion = tx[r].ruleVersion}
  /\ doubled' = doubled \cup {s \in ToInsert(tx[r]) : <<r, s>> \in contended}

(* Requests that hold an earlier status of s than the present one.         *)
HoldsStale(s) ==
  {r \in Request : \/ /\ tx[r].pc \in {"resolve", "find", "upsert"}
                      /\ tx[r].student = s
                      /\ tx[r].status # record[s].placementStatus
                   \/ /\ tx[r].pc \in {"cached", "insert"}
                      /\ tx[r].status[s] # record[s].placementStatus}

evaluateCommit(r) ==
  LET t == tx[r]
  IN  /\ t.pc = "upsert"
      /\ t.existing = {} => ~UniqueViolation(t.student, t.ruleVersion)
      /\ upsertCache(t, Verdict(t.student, t.status, t.ruleVersion))
      /\ refreshed' = IF HoldsStale(t.student) = {}
                        THEN refreshed \cup {<<t.student, t.ruleVersion>>}
                        ELSE refreshed
      /\ tx' = [tx EXCEPT ![r] = Idle]
      /\ Inserts(r)
      /\ UNCHANGED <<record, jd, ruleStatus, served, had, predicted, changes, begun>>

-----------------------------------------------------------------------------

evaluateDriveBatch(r) ==
  \E rv \in CurrentVersions : Begin(r, [pc |-> "students", ruleVersion |-> rv])

batchStudents(r) ==
  /\ tx[r].pc = "students"
  /\ Step(r, [pc |-> "cached", ruleVersion |-> tx[r].ruleVersion,
              status |-> [s \in Student |-> record[s].placementStatus]])

(* Mutant: the rows of every rule version are taken. *)
CachedOfAnyVersion(rv) ==
  [s \in Student |-> {row \in DOMAIN cache : row[1] = s}]

(* The rows a cached verdict may be taken from.                            *)
cachedRows(rv) == [s \in Student |-> RowsOf(s, rv)]

(* The map from students to cached rows keeps one row of a key, and rows   *)
(* come in no particular order.                                            *)
batchCached(r) ==
  LET t == tx[r]
      rows == cachedRows(t.ruleVersion)
      found == {s \in Student : rows[s] # {}}
  IN  /\ t.pc = "cached"
      /\ \E hit \in [found -> {cache[row] : row \in DOMAIN cache}] :
           /\ \A s \in found : hit[s] \in {cache[row] : row \in rows[s]}
           /\ Step(r, [pc |-> "insert", ruleVersion |-> t.ruleVersion,
                       status |-> t.status, hit |-> hit])

(* createMany inserts the missing rows in one statement: one row in the way*)
(* of them, and the whole batch fails.                                     *)
batchCommit(r) ==
  LET t == tx[r]
      verdict == [s \in Student |->
        IF s \in DOMAIN t.hit THEN t.hit[s] ELSE Verdict(s, t.status[s], t.ruleVersion)]
  IN  /\ t.pc = "insert"
      /\ \A s \in ToInsert(t) : ~UniqueViolation(s, t.ruleVersion)
      /\ LET new == {NewRow(s, t.ruleVersion) : s \in ToInsert(t)}
         IN  cache' = WithRows(new, verdict)
      /\ served' = [ruleVersion |-> t.ruleVersion, verdict |-> verdict]
      /\ tx' = [tx EXCEPT ![r] = Idle]
      /\ Inserts(r)
      /\ UNCHANGED <<record, jd, ruleStatus, had, predicted, refreshed, changes,
                 begun>>

-----------------------------------------------------------------------------

(* Mutant: the institution's proposal wins over the job description. *)
ProposalWins(q) ==
  {s \in Student :
     runEligibilityEvaluators(toEvaluatorStudent(s, record[s].placementStatus),
       mergeCriteria(parseCriteria(jd.minCriteria), parseCriteria(Definition[q])),
       jd.eligiblePrograms).eligible}

ProposedEligible(q) ==
  {s \in Student :
     runEligibilityEvaluators(toEvaluatorStudent(s, record[s].placementStatus),
       mergeCriteria(parseCriteria(Definition[q]), parseCriteria(jd.minCriteria)),
       jd.eligiblePrograms).eligible}

(* Of the proposal's definition.  Kept for the DRAFT rules it is made for, *)
(* unless an evaluation is under way that has read its student already.    *)
dryRun(q) ==
  /\ ruleStatus[q] = "DRAFT"
  /\ predicted' = [predicted EXCEPT ![q] =
       IF \E r \in Request : tx[r].pc = "resolve" THEN None ELSE ProposedEligible(q)]
  /\ UNCHANGED <<record, jd, ruleStatus, cache, tx, served, had, refreshed, races,
                 changes, begun>>

(* The transaction fails: on the unique index, at its 5 s timeout, or as   *)
(* the connection drops.  Nothing of it remains and the caller gets an     *)
(* error.                                                                  *)
abort(r) == tx[r] # Idle /\ Step(r, Idle)

Next ==
  \/ \E s \in Student, status \in PlacementStatus : setPlacementStatus(s, status)
  \/ \E q \in Rule : dryRun(q) \/ \E unseen \in SUBSET ACTIVE : activate(q, unseen)
  \/ \E r \in Request :
       \/ \E s \in Student : evaluate(r, s)
       \/ evaluateResolve(r) \/ evaluateFind(r) \/ evaluateCommit(r)
       \/ evaluateDriveBatch(r) \/ batchStudents(r) \/ batchCached(r) \/ batchCommit(r)
       \/ abort(r)

Spec == Init /\ [][Next]_vars

-----------------------------------------------------------------------------

(* Whatever evaluations, batches, activations and offers do at the same    *)
(* time, a verdict the batch serves is one the evaluators would have given *)
(* for that very student, under the rule version it is served for and a    *)
(* status the student has had: cached verdicts are never another rule's or *)
(* another student's (the stale-by-key argument of eligibility.service.ts: *)
(* 101-109).                                                               *)
VerdictsWereTrue ==
  served # None =>
    \A s \in Student : \E status \in had[s] :
      served.verdict[s] = Verdict(s, status, served.ruleVersion)

(* evaluate() and the batch search before they insert (eligibility.service.*)
(* ts:198, 246), in statements of their own.  A key gets a second row only *)
(* under the null version, which the unique index does not cover, and only *)
(* from a request whose search another's insert overtook; an insert finds  *)
(* a row in its way, and fails with the whole batch it is of (300), only   *)
(* when it was overtaken so; and a batch that answers has left a row of    *)
(* its version for every student.                                          *)
OneRowUnlessOvertaken ==
  /\ \A s \in Student, rv \in RuleVersion :
       Cardinality(RowsOf(s, rv)) <= 1 \/ (rv = None /\ s \in doubled)
  /\ \A r \in Request : \A s \in ToInsert(tx[r]) :
       RowsOf(s, tx[r].ruleVersion) # {} => <<r, s>> \in contended
  /\ served # None => \A s \in Student : RowsOf(s, served.ruleVersion) # {}

(* evaluate() is "what a TPO reaches for when they want an up-to-the-moment*)
(* answer" (136-143): once it has run for a student and the status has not *)
(* changed since, the batch, too, serves the up-to-date verdict, however   *)
(* old the row was.  Two rows of the null version break it (the refresh    *)
(* reaches one of them), as does an evaluation begun before the change.    *)
RefreshReachesBatch ==
  \A s \in Student, rv \in RuleVersion :
    <<s, rv>> \in refreshed =>
      \A row \in RowsOf(s, rv) :
        \/ cache[row] = Verdict(s, record[s].placementStatus, rv)
        \/ RowsOf(s, rv) # {row}

(* What the dry run of a DRAFT rule says is what the rule then does: when  *)
(* it is activated and a batch runs under it, with no status changed in    *)
(* between, exactly the students it foretold are eligible (325-333).       *)
DryRunForetells ==
  \A q \in Rule :
    served # None /\ served.ruleVersion = q =>
      predicted[q] \in {None, EligibleAmong(served.verdict)}

=============================================================================

------------------------- MODULE Eligibility_proofs -------------------------
(***************************************************************************)
(* Four properties of module Eligibility for every set of students, rules  *)
(* and requests, every record and criteria: what a batch serves is a       *)
(* verdict the evaluators gave for that student (VerdictsWereTrue), a key  *)
(* has one row, the null version's too, but for an insert that overtook    *)
(* another's search (OneRowUnlessOvertaken), a refreshed verdict stays the *)
(* present one until the student's status changes (RefreshReachesBatch),   *)
(* and a dry run foretells what the rule does once it is ACTIVE            *)
(* (DryRunForetells).                                                      *)
(*                                                                         *)
(* The first is read from an inductive invariant over the whole path of a  *)
(* verdict (IInv): a status is read into a transaction, a verdict is       *)
(* computed from it and cached, a batch reads cached rows and serves them. *)
(* The second rests on what the transactions have searched for (RowsInv),  *)
(* the last two on which transactions, rows and answers are of the present *)
(* (FreshInv).  The evaluators are never opened: all that matters is that  *)
(* a verdict depends on the student's record, whose status an action may   *)
(* change and nothing else, and on the job description, which none changes.*)
(***************************************************************************)
EXTENDS Eligibility, FiniteSetTheorems, TLAPS

(* v is the verdict on s under rv for some status s has had.               *)
Given(v, s, rv) == \E status \in had[s] : v = Verdict(s, status, rv)

StatusesHad ==
  /\ DOMAIN record = Student
  /\ DOMAIN had = Student
  /\ \A s \in Student : record[s].placementStatus \in had[s]

CachedGiven ==
  \A row \in DOMAIN cache : row[1] \in Student /\ Given(cache[row], row[1], row[2])

(* What a transaction has read so far.                                     *)
HeldGiven(t) ==
  /\ t.pc \in {"resolve", "find", "upsert"} =>
       t.student \in Student /\ t.status \in had[t.student]
  /\ t.pc = "upsert" => t.existing \subseteq RowsOf(t.student, t.ruleVersion)
  /\ t.pc \in {"cached", "insert"} => \A s \in Student : t.status[s] \in had[s]
  /\ t.pc = "insert" =>
       \A s \in Student : s \in DOMAIN t.hit => Given(t.hit[s], s, t.ruleVersion)

TransactionsGiven ==
  DOMAIN tx = Request /\ \A r \in Request : HeldGiven(tx[r])

IInv ==
  StatusesHad /\ CachedGiven /\ TransactionsGiven /\ VerdictsWereTrue

-----------------------------------------------------------------------------

(* Overwriting the status of a record twice leaves the second.             *)
LEMMA StatusOverwritten ==
  ASSUME NEW student, NEW a, NEW b
  PROVE  [[student EXCEPT !.placementStatus = a] EXCEPT !.placementStatus = b]
           = [student EXCEPT !.placementStatus = b]
  OBVIOUS

(* A step changes nothing of a record but its placement status, and nothing*)
(* of the job description.                                                 *)
LEMMA VerdictKept ==
  ASSUME StatusesHad, [Next]_vars, NEW s \in Student, NEW status, NEW rv
  PROVE  Verdict(s, status, rv)' = Verdict(s, status, rv)
<1>1. /\ jd' = jd
      /\ \/ record' = record
         \/ \E t \in Student, st \in PlacementStatus :
              record' = [record EXCEPT ![t].placementStatus = st]
  BY DEF Next, vars, setPlacementStatus, activate, evaluate, evaluateResolve,
         evaluateFind, evaluateCommit, evaluateDriveBatch, batchStudents,
         batchCached, batchCommit, dryRun, abort, Begin, Step, Goto
<1>2. toEvaluatorStudent(s, status)' = toEvaluatorStudent(s, status)
  <2>1. CASE record' = record
    BY <2>1 DEF toEvaluatorStudent
  <2>2. ASSUME NEW t \in Student, NEW st,
               record' = [record EXCEPT ![t].placementStatus = st]
        PROVE  toEvaluatorStudent(s, status)' = toEvaluatorStudent(s, status)
    <3>1. record'[s] = record[s] \/ record'[s] = [record[s] EXCEPT !.placementStatus = st]
      BY <2>2 DEF StatusesHad
    <3>2. QED
      BY <3>1, StatusOverwritten DEF toEvaluatorStudent
  <2>3. QED
    BY <1>1, <2>1, <2>2
<1>3. resolveCriteria(rv)' = resolveCriteria(rv)
  BY <1>1 DEF resolveCriteria, InstitutionCriteria
<1>4. QED
  BY <1>1, <1>2, <1>3 DEF Verdict

(* A student's history of statuses only grows.                             *)
LEMMA HadKept ==
  ASSUME StatusesHad, [Next]_vars, NEW s \in Student
  PROVE  had[s] \subseteq had'[s]
<1>1. \/ had' = had
      \/ \E t \in Student, status \in PlacementStatus :
           had' = [had EXCEPT ![t] = @ \cup {status}]
  BY DEF Next, vars, setPlacementStatus, activate, evaluate, evaluateResolve,
         evaluateFind, evaluateCommit, evaluateDriveBatch, batchStudents,
         batchCached, batchCommit, dryRun, abort, Begin, Step, Goto
<1>2. QED
  BY <1>1 DEF StatusesHad

(* So a verdict once given stays one.                                      *)
LEMMA GivenKept ==
  ASSUME StatusesHad, [Next]_vars, NEW s \in Student, NEW v, NEW rv, Given(v, s, rv)
  PROVE  Given(v, s, rv)'
<1>1. PICK status \in had[s] : v = Verdict(s, status, rv)
  BY DEF Given
<1>2. status \in had'[s] /\ v = Verdict(s, status, rv)'
  BY <1>1, HadKept, VerdictKept
<1>3. QED
  BY <1>2 DEF Given

-----------------------------------------------------------------------------

LEMMA InitIInv == Init => IInv
<1> SUFFICES ASSUME Init PROVE IInv
  OBVIOUS
<1>1. StatusesHad
  BY MarksAssumption DEF Init, StatusesHad
<1>2. TransactionsGiven
  BY DEF Init, TransactionsGiven, HeldGiven, Idle
<1>3. CachedGiven
  BY DEF Init, CachedGiven
<1>4. QED
  BY <1>1, <1>2, <1>3 DEF IInv, Init, VerdictsWereTrue

LEMMA StatusesHadKept ==
  ASSUME StatusesHad, [Next]_vars
  PROVE  StatusesHad'
<1>1. CASE UNCHANGED <<record, had>>
  BY <1>1 DEF StatusesHad
<1>2. ASSUME NEW s \in Student, NEW status \in PlacementStatus,
             setPlacementStatus(s, status)
      PROVE  StatusesHad'
  <2>1. /\ DOMAIN record' = Student
        /\ DOMAIN had' = Student
    BY <1>2 DEF StatusesHad, setPlacementStatus
  <2>2. ASSUME NEW t \in Student
        PROVE  record'[t].placementStatus \in had'[t]
    <3>1. CASE t = s
      <4>1. had'[t] = had[s] \cup {status}
        BY <1>2, <3>1 DEF StatusesHad, setPlacementStatus
      <4>2. record'[t] = [record[s] EXCEPT !.placementStatus = status]
        BY <1>2, <3>1 DEF StatusesHad, setPlacementStatus
      <4>3. \/ record'[t].placementStatus = status
            \/ record'[t].placementStatus = record[s].placementStatus
        BY <4>2
      <4>4. QED
        BY <4>1, <4>3 DEF StatusesHad
    <3>2. CASE t # s
      BY <1>2, <3>2 DEF StatusesHad, setPlacementStatus
    <3>3. QED
      BY <3>1, <3>2
  <2>3. QED
    BY <2>1, <2>2 DEF StatusesHad
<1>3. QED
  BY <1>1, <1>2
  DEF Next, vars, activate, evaluate, evaluateResolve, evaluateFind, evaluateCommit,
      evaluateDriveBatch, batchStudents, batchCached, batchCommit, dryRun, abort,
      Begin, Step, Goto

-----------------------------------------------------------------------------
(* Rows and transactions *)

(* New rows with given verdicts keep every row's verdict given.            *)
LEMMA RowsAdded ==
  ASSUME IInv, [Next]_vars, NEW new, NEW verdict,
         \A row \in new : row[1] \in Student /\ Given(verdict[row[1]], row[1], row[2]),
         cache' = WithRows(new, verdict)
  PROVE  CachedGiven'
<1>1. \A row \in DOMAIN cache' :
        /\ row[1] \in Student
        /\ Given(cache'[row], row[1], row[2])
  BY DEF WithRows, IInv, CachedGiven
<1>2. QED
  BY <1>1, GivenKept DEF IInv, CachedGiven

(* So does leaving the rows alone. *)
LEMMA RowsAlone ==
  ASSUME IInv, [Next]_vars, cache' = cache
  PROVE  CachedGiven'
BY GivenKept DEF IInv, CachedGiven

(* What a transaction holds stays good while the cache keeps its rows.     *)
LEMMA HeldKept ==
  ASSUME IInv, [Next]_vars, DOMAIN cache \subseteq DOMAIN cache', NEW t, HeldGiven(t)
  PROVE  HeldGiven(t)'
<1>1. ASSUME t.pc \in {"resolve", "find", "upsert"}
      PROVE  t.student \in Student /\ t.status \in had'[t.student]
  BY <1>1, HadKept DEF IInv, HeldGiven
<1>2. ASSUME t.pc = "upsert"
      PROVE  t.existing \subseteq RowsOf(t.student, t.ruleVersion)'
  BY <1>2 DEF HeldGiven, RowsOf
<1>3. ASSUME t.pc \in {"cached", "insert"}
      PROVE  \A s \in Student : t.status[s] \in had'[s]
  BY <1>3, HadKept DEF IInv, HeldGiven
<1>4. ASSUME t.pc = "insert", NEW s \in Student, s \in DOMAIN t.hit
      PROVE  Given(t.hit[s], s, t.ruleVersion)'
  BY <1>4, GivenKept DEF IInv, HeldGiven
<1>5. QED
  BY <1>1, <1>2, <1>3, <1>4 DEF HeldGiven

(* So the invariant on transactions is about the one that moves.           *)
LEMMA OneMoves ==
  ASSUME IInv, [Next]_vars, DOMAIN cache \subseteq DOMAIN cache',
         NEW r \in Request, NEW t, tx' = [tx EXCEPT ![r] = t], HeldGiven(t)'
  PROVE  TransactionsGiven'
<1>1. ASSUME NEW p \in Request
      PROVE  HeldGiven(tx[p])'
  <2>1. CASE p = r
    BY <2>1 DEF IInv, TransactionsGiven
  <2>2. CASE p # r
    <3>1. tx'[p] = tx[p] /\ HeldGiven(tx[p])
      BY <2>2 DEF IInv, TransactionsGiven
    <3>2. HeldGiven(tx[p])'
      BY <3>1, HeldKept
    <3>3. QED
      BY <3>1, <3>2
  <2>3. QED
    BY <2>1, <2>2
<1>2. QED
  BY <1>1 DEF IInv, TransactionsGiven

(* A step that changes neither the rows nor the last answer.               *)
LEMMA OnlyTransaction ==
  ASSUME IInv, [Next]_vars, NEW r \in Request, NEW t, HeldGiven(t), Goto(r, t)
  PROVE  IInv'
<1>1. TransactionsGiven'
  BY OneMoves, HeldKept DEF Goto
<1>2. VerdictsWereTrue'
  BY GivenKept DEF Goto, IInv, VerdictsWereTrue, Given
<1>3. QED
  BY <1>1, <1>2, RowsAlone, StatusesHadKept DEF IInv, Goto

(* A step of no transaction. *)
LEMMA NoTransaction ==
  ASSUME IInv, [Next]_vars, UNCHANGED <<cache, tx, served>>
  PROVE  IInv'
<1>1. TransactionsGiven'
  BY HeldKept DEF IInv, TransactionsGiven
<1>2. VerdictsWereTrue'
  BY GivenKept DEF IInv, VerdictsWereTrue, Given
<1>3. QED
  BY <1>1, <1>2, RowsAlone, StatusesHadKept DEF IInv

LEMMA IdleGiven == HeldGiven(Idle)
BY DEF HeldGiven, Idle

-----------------------------------------------------------------------------
(* The steps of a transaction *)

LEMMA EvaluateKeeps ==
  ASSUME IInv, [Next]_vars, NEW r \in Request,
         \/ \E s \in Student : evaluate(r, s)
         \/ evaluateResolve(r)
         \/ evaluateFind(r)
  PROVE  IInv'
<1>1. ASSUME NEW s \in Student, evaluate(r, s)
      PROVE  IInv'
  <2>1. HeldGiven([pc |-> "resolve", student |-> s,
                   status |-> record[s].placementStatus])
    BY DEF IInv, StatusesHad, HeldGiven
  <2>2. QED
    BY <1>1, <2>1, OnlyTransaction DEF evaluate, Begin
<1>2. ASSUME evaluateResolve(r)
      PROVE  IInv'
  <2>1. PICK rv \in CurrentVersions :
          Goto(r, [pc |-> "find", student |-> tx[r].student,
                   status |-> tx[r].status, ruleVersion |-> rv])
    BY <1>2 DEF evaluateResolve, Step
  <2>2. HeldGiven([pc |-> "find", student |-> tx[r].student,
                   status |-> tx[r].status, ruleVersion |-> rv])
    BY <1>2 DEF evaluateResolve, IInv, TransactionsGiven, HeldGiven
  <2>3. QED
    BY <2>1, <2>2, OnlyTransaction
<1>3. ASSUME evaluateFind(r)
      PROVE  IInv'
  <2> DEFINE rows == RowsOf(tx[r].student, tx[r].ruleVersion)
             found(existing) == [pc |-> "upsert", student |-> tx[r].student,
                                 status |-> tx[r].status,
                                 ruleVersion |-> tx[r].ruleVersion,
                                 existing |-> existing]
  <2>1. PICK existing \in IF rows = {} THEN {{}} ELSE {{row} : row \in rows} :
          Goto(r, found(existing))
    BY <1>3 DEF evaluateFind, Step
  <2>2. HeldGiven(found(existing))
    BY <1>3 DEF evaluateFind, IInv, TransactionsGiven, HeldGiven
  <2>3. QED
    BY <2>1, <2>2, OnlyTransaction
<1>4. QED
  BY <1>1, <1>2, <1>3

LEMMA BatchKeeps ==
  ASSUME IInv, [Next]_vars, NEW r \in Request,
         evaluateDriveBatch(r) \/ batchStudents(r) \/ batchCached(r) \/ abort(r)
  PROVE  IInv'
<1>1. ASSUME evaluateDriveBatch(r)
      PROVE  IInv'
  <2>1. PICK rv \in CurrentVersions : Goto(r, [pc |-> "students", ruleVersion |-> rv])
    BY <1>1 DEF evaluateDriveBatch, Begin
  <2>2. HeldGiven([pc |-> "students", ruleVersion |-> rv])
    BY DEF HeldGiven
  <2>3. QED
    BY <2>1, <2>2, OnlyTransaction
<1>2. ASSUME batchStudents(r)
      PROVE  IInv'
  <2>1. HeldGiven([pc |-> "cached", ruleVersion |-> tx[r].ruleVersion,
                   status |-> [s \in Student |-> record[s].placementStatus]])
    BY DEF IInv, StatusesHad, HeldGiven
  <2>2. QED
    BY <1>2, <2>1, OnlyTransaction DEF batchStudents, Step
<1>3. ASSUME batchCached(r)
      PROVE  IInv'
  <2> DEFINE rv == tx[r].ruleVersion
             read(hit) == [pc |-> "insert", ruleVersion |-> rv,
                           status |-> tx[r].status, hit |-> hit]
  <2>1. PICK hit : /\ DOMAIN hit \subseteq Student
                   /\ \A s \in DOMAIN hit :
                        hit[s] \in {cache[row] : row \in RowsOf(s, rv)}
                   /\ Goto(r, read(hit))
    BY <1>3 DEF batchCached, cachedRows, Step
  <2>2. ASSUME NEW s \in DOMAIN hit
        PROVE  Given(hit[s], s, rv)
    BY <2>1, <2>2 DEF RowsOf, IInv, CachedGiven
  <2>3. HeldGiven(read(hit))
    BY <1>3, <2>2 DEF batchCached, IInv, TransactionsGiven, HeldGiven
  <2>4. QED
    BY <2>1, <2>3, OnlyTransaction
<1>4. ASSUME abort(r)
      PROVE  IInv'
  BY <1>4, IdleGiven, OnlyTransaction DEF abort, Step
<1>5. QED
  BY <1>1, <1>2, <1>3, <1>4

-----------------------------------------------------------------------------
(* The commits, which write the cache *)

LEMMA EvaluateCommitKeeps ==
  ASSUME IInv, [Next]_vars, NEW r \in Request, evaluateCommit(r)
  PROVE  IInv'
<1> DEFINE t == tx[r]
           verdict == Verdict(t.student, t.status, t.ruleVersion)
<1>1. /\ t.student \in Student
      /\ t.status \in had[t.student]
      /\ t.existing \subseteq RowsOf(t.student, t.ruleVersion)
  BY DEF evaluateCommit, IInv, TransactionsGiven, HeldGiven
<1>2. Given(verdict, t.student, t.ruleVersion)
  BY <1>1 DEF Given
<1>3. DOMAIN cache \subseteq DOMAIN cache' /\ CachedGiven'
  <2>1. cache' = WithRows(Written(t), [s \in {t.student} |-> verdict])
    BY DEF evaluateCommit, upsertCache
  <2>2. \A row \in Written(t) : row[1] = t.student /\ row[2] = t.ruleVersion
    BY <1>1 DEF Written, RowsOf, NewRow
  <2>3. CachedGiven'
    BY <2>1, <2>2, <1>1, <1>2, RowsAdded
  <2>4. QED
    BY <2>1, <2>3 DEF WithRows
<1>4. TransactionsGiven'
  <2>1. tx' = [tx EXCEPT ![r] = Idle]
    BY DEF evaluateCommit
  <2>2. HeldGiven(Idle)'
    BY DEF HeldGiven, Idle
  <2>3. QED
    BY <2>1, <2>2, <1>3, OneMoves
<1>5. VerdictsWereTrue'
  <2>1. served' = served
    BY DEF evaluateCommit
  <2>2. QED
    BY <2>1, GivenKept DEF IInv, VerdictsWereTrue, Given
<1>6. QED
  BY <1>3, <1>4, <1>5, StatusesHadKept DEF IInv

LEMMA BatchCommitKeeps ==
  ASSUME IInv, [Next]_vars, NEW r \in Request, batchCommit(r)
  PROVE  IInv'
<1> DEFINE rv == tx[r].ruleVersion
           verdict == [s \in Student |->
             IF s \in DOMAIN tx[r].hit THEN tx[r].hit[s]
             ELSE Verdict(s, tx[r].status[s], rv)]
           new == {NewRow(s, rv) : s \in ToInsert(tx[r])}
<1>1. ASSUME NEW s \in Student
      PROVE  Given(verdict[s], s, rv)
  <2>1. s \in DOMAIN tx[r].hit => Given(tx[r].hit[s], s, rv)
    BY DEF batchCommit, IInv, TransactionsGiven, HeldGiven
  <2>2. tx[r].status[s] \in had[s]
    BY DEF batchCommit, IInv, TransactionsGiven, HeldGiven
  <2>3. Given(Verdict(s, tx[r].status[s], rv), s, rv)
    BY <2>2 DEF Given
  <2>4. QED
    BY <2>1, <2>3
<1>2. /\ cache' = WithRows(new, verdict)
      /\ served' = [ruleVersion |-> rv, verdict |-> verdict]
      /\ tx' = [tx EXCEPT ![r] = Idle]
      /\ tx[r].pc = "insert"
  BY DEF batchCommit
<1>3. \A row \in new : row[1] \in ToInsert(tx[r]) /\ row[2] = rv
  BY DEF NewRow
<1> HIDE DEF verdict, new
<1>5. CachedGiven'
  <2>1. \A row \in new : row[1] \in Student /\ Given(verdict[row[1]], row[1], row[2])
    BY <1>1, <1>3 DEF ToInsert
  <2>2. QED
    BY <1>2, <2>1, RowsAdded
<1>6. DOMAIN cache' = DOMAIN cache \cup new
  BY <1>2 DEF WithRows
<1>8. TransactionsGiven'
  <2>1. HeldGiven(Idle)'
    BY DEF HeldGiven, Idle
  <2>2. QED
    BY <1>2, <1>6, <2>1, OneMoves
<1>9. VerdictsWereTrue'
  <2>1. /\ served'.verdict = verdict
        /\ served'.ruleVersion = rv
    BY <1>2
  <2>2. ASSUME NEW s \in Student
        PROVE  Given(served.verdict[s], s, served.ruleVersion)'
    BY <1>1, <2>1, GivenKept DEF IInv
  <2>3. QED
    BY <2>2 DEF VerdictsWereTrue, Given
<1>10. QED
  BY <1>5, <1>8, <1>9, StatusesHadKept DEF IInv

-----------------------------------------------------------------------------

LEMMA NextKeeps == IInv /\ [Next]_vars => IInv'
<1> SUFFICES ASSUME IInv, [Next]_vars
             PROVE  IInv'
  OBVIOUS
<1>1. CASE UNCHANGED vars
  BY <1>1, NoTransaction DEF vars
<1>2. ASSUME NEW s \in Student, NEW status, setPlacementStatus(s, status)
      PROVE  IInv'
  BY <1>2, NoTransaction DEF setPlacementStatus
<1>3. ASSUME NEW q \in Rule,
             dryRun(q) \/ \E unseen \in SUBSET ACTIVE : activate(q, unseen)
      PROVE  IInv'
  BY <1>3, NoTransaction DEF dryRun, activate
<1>4. ASSUME NEW r \in Request,
             \/ \E s \in Student : evaluate(r, s)
             \/ evaluateResolve(r) \/ evaluateFind(r) \/ evaluateCommit(r)
             \/ evaluateDriveBatch(r) \/ batchStudents(r) \/ batchCached(r)
             \/ batchCommit(r) \/ abort(r)
      PROVE  IInv'
  BY <1>4, EvaluateKeeps, EvaluateCommitKeeps, BatchKeeps, BatchCommitKeeps
<1>5. QED
  BY <1>1, <1>2, <1>3, <1>4 DEF Next

LEMMA Invariance == Spec => []IInv
BY InitIInv, NextKeeps, PTL DEF Spec

(* A verdict a batch serves is one the evaluators gave for that student    *)
(* under the rule version it is served for and a status the student has    *)
(* had, whatever evaluations, batches, activations, offers and failures    *)
(* run at the same time (eligibility.service.ts:101-109, 225-323).         *)
THEOREM ServedWereTrue == Spec => []VerdictsWereTrue
<1>1. IInv => VerdictsWereTrue
  BY DEF IInv
<1>2. QED
  BY <1>1, Invariance, PTL

-----------------------------------------------------------------------------
(* What has been searched for: the rows of a key                           *)

KeysUnique ==
  \A a, b \in DOMAIN cache :
    a[1] = b[1] /\ a[2] = b[2] /\ ~(a[2] = None /\ a[1] \in doubled) => a = b

(* Who waits to insert a row that is there has been overtaken.             *)
Overtaken(t, r) ==
  \A s \in ToInsert(t) : RowsOf(s, t.ruleVersion) # {} => <<r, s>> \in contended

(* A cached verdict comes from a row.                                      *)
HitsStored(t) ==
  t.pc = "insert" =>
    \A s \in Student : s \in DOMAIN t.hit => RowsOf(s, t.ruleVersion) # {}

SearchesKnown == \A r \in Request : Overtaken(tx[r], r) /\ HitsStored(tx[r])

AnswerStored ==
  served # None => \A s \in Student : RowsOf(s, served.ruleVersion) # {}

RowsInv == KeysUnique /\ SearchesKnown /\ AnswerStored

LEMMA InitRows == Init => RowsInv
BY DEF Init, RowsInv, KeysUnique, SearchesKnown, AnswerStored, Overtaken, HitsStored,
       ToInsert, Idle

(* Steps that leave rows, answers and searches alone.                      *)
LEMMA StandsRows ==
  ASSUME RowsInv, UNCHANGED <<cache, tx, served, contended, doubled>>
  PROVE  RowsInv'
BY DEF RowsInv, KeysUnique, SearchesKnown, AnswerStored, Overtaken, HitsStored, ToInsert,
       RowsOf

(* A transaction moves on, knowing what it has searched for.               *)
LEMMA GotoRows ==
  ASSUME IInv, RowsInv, NEW r \in Request, NEW t, Goto(r, t),
         \A s \in ToInsert(t) : RowsOf(s, t.ruleVersion) = {},
         HitsStored(t)
  PROVE  RowsInv'
<1>1. /\ tx' = [tx EXCEPT ![r] = t]
      /\ contended' = {c \in contended : c[1] # r}
      /\ UNCHANGED <<cache, served, doubled>>
  BY DEF Goto
<1>2. \A s, rv : RowsOf(s, rv)' = RowsOf(s, rv)
  BY <1>1 DEF RowsOf
<1>3. ASSUME NEW p \in Request
      PROVE  Overtaken(tx[p], p)' /\ HitsStored(tx[p])'
  <2>1. CASE p = r
    <3>1. tx'[p] = t
      BY <2>1, <1>1 DEF IInv, TransactionsGiven
    <3>2. QED
      BY <3>1, <1>2 DEF Overtaken, HitsStored, ToInsert
  <2>2. CASE p # r
    <3>1. tx'[p] = tx[p]
      BY <2>2, <1>1 DEF IInv, TransactionsGiven
    <3>2. Overtaken(tx[p], p) /\ HitsStored(tx[p])
      BY DEF RowsInv, SearchesKnown
    <3>3. ASSUME NEW s \in ToInsert(tx[p]), RowsOf(s, tx[p].ruleVersion) # {}
          PROVE  <<p, s>> \in contended'
      <4>1. <<p, s>> \in contended
        BY <3>2, <3>3 DEF Overtaken
      <4>2. QED
        BY <4>1, <2>2, <1>1
    <3>4. QED
      BY <3>1, <3>2, <3>3, <1>2 DEF Overtaken, HitsStored, ToInsert
  <2>3. QED
    BY <2>1, <2>2
<1>4. KeysUnique' /\ AnswerStored'
  BY <1>1, <1>2 DEF RowsInv, KeysUnique, AnswerStored
<1>5. QED
  BY <1>3, <1>4 DEF RowsInv, SearchesKnown

LEMMA SearchRows ==
  ASSUME IInv, RowsInv, NEW r \in Request,
         \/ \E s \in Student : evaluate(r, s)
         \/ evaluateResolve(r) \/ evaluateFind(r)
         \/ evaluateDriveBatch(r) \/ batchStudents(r) \/ batchCached(r) \/ abort(r)
  PROVE  RowsInv'
<1>1. ASSUME NEW t, Goto(r, t), t.pc \notin {"upsert", "insert"}
      PROVE  RowsInv'
  <2>1. ToInsert(t) = {} /\ HitsStored(t)
    BY <1>1 DEF ToInsert, HitsStored
  <2>2. QED
    BY <1>1, <2>1, GotoRows
<1>2. CASE (\E s \in Student : evaluate(r, s)) \/ evaluateResolve(r)
  BY <1>2, <1>1 DEF evaluate, evaluateResolve, Begin, Step
<1>3. CASE evaluateDriveBatch(r) \/ batchStudents(r) \/ abort(r)
  BY <1>3, <1>1 DEF evaluateDriveBatch, batchStudents, abort, Begin, Step, Idle
<1>4. CASE evaluateFind(r)
  <2> DEFINE student == tx[r].student
             rv == tx[r].ruleVersion
             rows == RowsOf(student, rv)
             t(existing) == [pc |-> "upsert", student |-> student,
                             status |-> tx[r].status, ruleVersion |-> rv,
                             existing |-> existing]
  <2>1. PICK existing \in IF rows = {} THEN {{}} ELSE {{row} : row \in rows} :
          Goto(r, t(existing))
    BY <1>4 DEF evaluateFind, Step
  <2>2. existing = {} => rows = {}
    BY <2>1
  <2>3. \A s \in ToInsert(t(existing)) : RowsOf(s, t(existing).ruleVersion) = {}
    BY <2>2 DEF ToInsert
  <2>4. HitsStored(t(existing))
    BY DEF HitsStored
  <2> HIDE DEF t
  <2>5. QED
    BY <2>1, <2>3, <2>4, GotoRows
<1>5. CASE batchCached(r)
  <2> DEFINE rv == tx[r].ruleVersion
             found == {s \in Student : RowsOf(s, rv) # {}}
             t(hit) == [pc |-> "insert", ruleVersion |-> rv, status |-> tx[r].status,
                        hit |-> hit]
  <2>1. PICK hit : DOMAIN hit = found /\ Goto(r, t(hit))
    BY <1>5 DEF batchCached, cachedRows, Step
  <2>2. \A s \in ToInsert(t(hit)) : RowsOf(s, t(hit).ruleVersion) = {}
    BY <2>1 DEF ToInsert
  <2>3. HitsStored(t(hit))
    BY <2>1 DEF HitsStored
  <2> HIDE DEF t
  <2>4. QED
    BY <2>1, <2>2, <2>3, GotoRows
<1>6. QED
  BY <1>2, <1>3, <1>4, <1>5

(* Transaction r ends, and of the rows new that it wrote those not there   *)
(* before are of the students it had found no row of.                      *)
LEMMA CommitRows ==
  ASSUME IInv, RowsInv, NEW r \in Request, NEW new,
         tx' = [tx EXCEPT ![r] = Idle], Inserts(r),
         DOMAIN cache' = DOMAIN cache \cup new,
         \A a \in new \ DOMAIN cache :
           a[1] \in ToInsert(tx[r]) /\ a[2] = tx[r].ruleVersion,
         \A a, b \in new \ DOMAIN cache : a[1] = b[1] => a = b,
         \A s \in ToInsert(tx[r]) : ~UniqueViolation(s, tx[r].ruleVersion)
  PROVE  KeysUnique' /\ SearchesKnown'
<1>1. KeysUnique'
  <2>1. ASSUME NEW a \in new \ DOMAIN cache, NEW b \in DOMAIN cache,
               a[1] = b[1], a[2] = b[2]
        PROVE  a[2] = None /\ a[1] \in doubled'
    <3>1. a[1] \in ToInsert(tx[r]) /\ a[2] = tx[r].ruleVersion
      BY <2>1
    <3>2. b \in RowsOf(a[1], tx[r].ruleVersion)
      BY <2>1, <3>1 DEF RowsOf
    <3>3. a[2] = None
      BY <3>1, <3>2 DEF UniqueViolation
    <3>4. <<r, a[1]>> \in contended
      BY <3>1, <3>2 DEF RowsInv, SearchesKnown, Overtaken
    <3>5. QED
      BY <3>1, <3>3, <3>4 DEF Inserts
  <2>2. doubled \subseteq doubled'
    BY DEF Inserts
  <2>3. ASSUME NEW a \in DOMAIN cache', NEW b \in DOMAIN cache',
               a[1] = b[1], a[2] = b[2], ~(a[2] = None /\ a[1] \in doubled')
        PROVE  a = b
    <3>1. CASE a \in DOMAIN cache /\ b \in DOMAIN cache
      BY <2>2, <2>3, <3>1 DEF RowsInv, KeysUnique
    <3>2. CASE a \notin DOMAIN cache /\ b \notin DOMAIN cache
      BY <2>3, <3>2
    <3>3. CASE a \notin DOMAIN cache /\ b \in DOMAIN cache
      BY <2>1, <2>3, <3>3
    <3>4. CASE a \in DOMAIN cache /\ b \notin DOMAIN cache
      <4>1. b \in new \ DOMAIN cache
        BY <3>4
      <4>2. b[2] = None /\ b[1] \in doubled'
        BY <2>1, <2>3, <3>4, <4>1
      <4>3. QED
        BY <2>3, <4>2
    <3>5. QED
      BY <3>1, <3>2, <3>3, <3>4
  <2>4. QED
    BY <2>3 DEF KeysUnique
<1>2. ASSUME NEW p \in Request
      PROVE  Overtaken(tx[p], p)' /\ HitsStored(tx[p])'
  <2>1. CASE p = r
    <3>1. tx'[p] = Idle
      BY <2>1 DEF IInv, TransactionsGiven
    <3>2. QED
      BY <3>1 DEF Overtaken, HitsStored, ToInsert, Idle
  <2>2. CASE p # r
    <3>1. tx'[p] = tx[p]
      BY <2>2 DEF IInv, TransactionsGiven
    <3>2. Overtaken(tx[p], p) /\ HitsStored(tx[p])
      BY DEF RowsInv, SearchesKnown
    <3>3. ASSUME NEW s \in ToInsert(tx[p]), RowsOf(s, tx[p].ruleVersion)' # {}
          PROVE  <<p, s>> \in contended'
      <4>1. s \in Student
        BY DEF ToInsert
      <4>2. CASE RowsOf(s, tx[p].ruleVersion) # {}
        <5>1. <<p, s>> \in contended
          BY <3>2, <4>2 DEF Overtaken
        <5>2. QED
          BY <2>2, <4>1, <5>1 DEF Inserts
      <4>3. CASE RowsOf(s, tx[p].ruleVersion) = {}
        <5>1. PICK a \in new \ DOMAIN cache : a[1] = s /\ a[2] = tx[p].ruleVersion
          BY <3>1, <3>3, <4>3 DEF RowsOf
        <5>2. s \in ToInsert(tx[r]) /\ tx[r].ruleVersion = tx[p].ruleVersion
          BY <5>1
        <5>3. QED
          BY <2>2, <4>1, <5>2 DEF Inserts
      <4>4. QED
        BY <4>2, <4>3
    <3>4. \A s, rv : RowsOf(s, rv) # {} => RowsOf(s, rv)' # {}
      BY DEF RowsOf
    <3>5. QED
      BY <3>1, <3>2, <3>3, <3>4 DEF Overtaken, HitsStored, ToInsert
  <2>3. QED
    BY <2>1, <2>2
<1>3. QED
  BY <1>1, <1>2 DEF SearchesKnown

LEMMA EvaluateCommitRows ==
  ASSUME IInv, RowsInv, NEW r \in Request, evaluateCommit(r)
  PROVE  RowsInv'
<1> DEFINE t == tx[r]
           new == Written(t)
<1>1. /\ t.pc = "upsert"
      /\ t.student \in Student
      /\ t.existing \subseteq RowsOf(t.student, t.ruleVersion)
      /\ t.existing = {} => ~UniqueViolation(t.student, t.ruleVersion)
      /\ tx' = [tx EXCEPT ![r] = Idle]
      /\ Inserts(r)
      /\ served' = served
      /\ cache' = WithRows(new, [s \in {t.student} |-> Verdict(t.student, t.status, t.ruleVersion)])
  BY DEF evaluateCommit, upsertCache, IInv, TransactionsGiven, HeldGiven
<1>2. ToInsert(t) = IF t.existing = {} THEN {t.student} ELSE {}
  BY <1>1 DEF ToInsert
<1>3. \A a \in new \ DOMAIN cache :
        /\ t.existing = {}
        /\ a = NewRow(t.student, t.ruleVersion)
  BY <1>1 DEF Written, RowsOf
<1>4. /\ NewRow(t.student, t.ruleVersion)[1] = t.student
      /\ NewRow(t.student, t.ruleVersion)[2] = t.ruleVersion
  BY DEF NewRow
<1>5. DOMAIN cache' = DOMAIN cache \cup new
  BY <1>1 DEF WithRows
<1> HIDE DEF new
<1>6. KeysUnique' /\ SearchesKnown'
  <2>1. \A a \in new \ DOMAIN cache : a[1] \in ToInsert(t) /\ a[2] = t.ruleVersion
    BY <1>2, <1>3, <1>4
  <2>2. \A a, b \in new \ DOMAIN cache : a[1] = b[1] => a = b
    BY <1>3
  <2>3. \A s \in ToInsert(t) : ~UniqueViolation(s, t.ruleVersion)
    BY <1>1, <1>2
  <2> HIDE DEF t
  <2>4. QED
    BY <1>1, <1>5, <2>1, <2>2, <2>3, CommitRows DEF t
<1>7. AnswerStored'
  BY <1>1, <1>5 DEF RowsInv, AnswerStored, RowsOf
<1>8. QED
  BY <1>6, <1>7 DEF RowsInv

LEMMA BatchCommitRows ==
  ASSUME IInv, RowsInv, NEW r \in Request, batchCommit(r)
  PROVE  RowsInv'
<1> DEFINE t == tx[r]
           rv == t.ruleVersion
           new == {NewRow(s, rv) : s \in ToInsert(t)}
<1>1. /\ t.pc = "insert"
      /\ \A s \in ToInsert(t) : ~UniqueViolation(s, rv)
      /\ tx' = [tx EXCEPT ![r] = Idle]
      /\ Inserts(r)
      /\ served'.ruleVersion = rv
      /\ DOMAIN cache' = DOMAIN cache \cup new
  BY DEF batchCommit, WithRows
<1>2. \A a \in new : a[1] \in ToInsert(t) /\ a[2] = rv
  BY DEF NewRow
<1>3. \A a, b \in new : a[1] = b[1] => a = b
  BY DEF NewRow
<1>4. ASSUME NEW s \in ToInsert(t)
      PROVE  \E a \in new : a[1] = s /\ a[2] = rv
  <2>1. NewRow(s, rv) \in new
    OBVIOUS
  <2>2. NewRow(s, rv)[1] = s /\ NewRow(s, rv)[2] = rv
    BY DEF NewRow
  <2>3. QED
    BY <2>1, <2>2
<1> HIDE DEF new
<1>5. KeysUnique' /\ SearchesKnown'
  BY <1>1, <1>2, <1>3, CommitRows
<1>6. AnswerStored'
  <2>1. ASSUME NEW s \in Student
        PROVE  \E a \in DOMAIN cache' : a[1] = s /\ a[2] = rv
    <3>1. CASE s \in ToInsert(t)
      BY <1>1, <1>4, <3>1
    <3>2. CASE s \notin ToInsert(t)
      <4>1. s \in DOMAIN t.hit
        BY <1>1, <3>2 DEF ToInsert
      <4>2. RowsOf(s, rv) # {}
        BY <1>1, <4>1 DEF RowsInv, SearchesKnown, HitsStored
      <4>3. QED
        BY <1>1, <4>2 DEF RowsOf
    <3>3. QED
      BY <3>1, <3>2
  <2>2. QED
    BY <1>1, <2>1 DEF AnswerStored, RowsOf
<1>7. QED
  BY <1>5, <1>6 DEF RowsInv

LEMMA RowsStep == IInv /\ RowsInv /\ [Next]_vars => RowsInv'
<1> SUFFICES ASSUME IInv, RowsInv, [Next]_vars
             PROVE  RowsInv'
  OBVIOUS
<1>1. CASE UNCHANGED vars
  BY <1>1, StandsRows DEF vars, races
<1>2. ASSUME NEW s \in Student, NEW status, setPlacementStatus(s, status)
      PROVE  RowsInv'
  BY <1>2, StandsRows DEF setPlacementStatus, races
<1>3. ASSUME NEW q \in Rule,
             dryRun(q) \/ \E unseen \in SUBSET ACTIVE : activate(q, unseen)
      PROVE  RowsInv'
  BY <1>3, StandsRows DEF dryRun, activate, races
<1>4. ASSUME NEW r \in Request,
             \/ \E s \in Student : evaluate(r, s)
             \/ evaluateResolve(r) \/ evaluateFind(r) \/ evaluateCommit(r)
             \/ evaluateDriveBatch(r) \/ batchStudents(r) \/ batchCached(r)
             \/ batchCommit(r) \/ abort(r)
      PROVE  RowsInv'
  BY <1>4, SearchRows, EvaluateCommitRows, BatchCommitRows
<1>5. QED
  BY <1>1, <1>2, <1>3, <1>4 DEF Next

LEMMA RowsInvariance == Spec => []RowsInv
<1>1. IInv /\ RowsInv /\ [Next]_vars => RowsInv'
  BY RowsStep
<1>2. QED
  BY <1>1, InitRows, Invariance, PTL DEF Spec

(* Whatever evaluations and batches run at the same time, a student gets a *)
(* second row only of the null version, from a request that had searched   *)
(* before another inserted the first; an insert finds a row in its way     *)
(* only so; and an answered batch leaves a row for every student           *)
(* (190-216, 246-300).                                                     *)
THEOREM RowsUnlessOvertaken == Spec => []OneRowUnlessOvertaken
<1>1. ASSUME RowsInv, NEW s \in Student, NEW rv \in RuleVersion,
             ~(rv = None /\ s \in doubled)
      PROVE  Cardinality(RowsOf(s, rv)) <= 1
  <2>1. \A a, b \in RowsOf(s, rv) : a = b
    BY <1>1 DEF RowsOf, RowsInv, KeysUnique
  <2>2. CASE RowsOf(s, rv) = {}
    BY <2>2, FS_EmptySet
  <2>3. ASSUME NEW a \in RowsOf(s, rv)
        PROVE  Cardinality(RowsOf(s, rv)) <= 1
    <3>1. RowsOf(s, rv) = {a}
      BY <2>1, <2>3
    <3>2. Cardinality({a}) = 1
      BY FS_Singleton
    <3>3. QED
      BY <3>1, <3>2
  <2>4. QED
    BY <2>2, <2>3
<1>2. RowsInv => OneRowUnlessOvertaken
  BY <1>1 DEF RowsInv, OneRowUnlessOvertaken, SearchesKnown, Overtaken, AnswerStored
<1>3. QED
  BY <1>2, RowsInvariance, PTL

-----------------------------------------------------------------------------
(* What is fresh: the second invariant                                     *)

Now(s) == record[s].placementStatus

VerdictNow(s, rv) == Verdict(s, Now(s), rv)

(* What transaction t has read of student s is still so.                   *)
HoldsNow(t, s) ==
  /\ t.pc \in {"resolve", "find", "upsert"} /\ t.student = s => t.status = Now(s)
  /\ t.pc \in {"cached", "insert"} => t.status[s] = Now(s)

(* A refreshed key has the present verdict in its row, and nobody is left  *)
(* who could overwrite it with an older one.                               *)
RefreshedFresh ==
  \A s \in Student, rv \in RuleVersion :
    <<s, rv>> \in refreshed =>
      /\ \A r \in Request : HoldsNow(tx[r], s)
      /\ RowsOf(s, rv) # {}
      /\ \A row : RowsOf(s, rv) = {row} => cache[row] = VerdictNow(s, rv)

(* Transactions that have taken up a rule version.                         *)
Under(t, q) ==
  t.pc \in {"find", "upsert", "students", "cached", "insert"} /\ t.ruleVersion = q

(* Nothing has been made under a rule that was never ACTIVE.               *)
DraftUnused ==
  \A q \in Rule :
    ruleStatus[q] = "DRAFT" =>
      /\ \A row \in DOMAIN cache : row[2] # q
      /\ \A r \in Request : ~Under(tx[r], q)
      /\ served # None => served.ruleVersion # q

(* All that is made under a rule since it was foretold is of the present.  *)
ForetoldFresh ==
  \A q \in Rule :
    predicted[q] # None =>
      /\ predicted[q] = {s \in Student : VerdictNow(s, q).eligible}
      /\ \A row \in DOMAIN cache : row[2] = q => cache[row] = VerdictNow(row[1], q)
      /\ \A r \in Request, s \in Student :
           tx[r].pc = "resolve" \/ Under(tx[r], q) => HoldsNow(tx[r], s)
      /\ \A r \in Request, s \in Student :
           tx[r].pc = "insert" /\ tx[r].ruleVersion = q /\ s \in DOMAIN tx[r].hit =>
             tx[r].hit[s] = VerdictNow(s, q)
      /\ served # None /\ served.ruleVersion = q =>
           \A s \in Student : served.verdict[s] = VerdictNow(s, q)

FreshInv ==
  /\ DOMAIN predicted = Rule /\ DOMAIN ruleStatus = Rule
  /\ RefreshedFresh /\ DraftUnused /\ ForetoldFresh

LEMMA NowKept ==
  ASSUME IInv, [Next]_vars, record' = record
  PROVE  \A s \in Student : \A rv : VerdictNow(s, rv)' = VerdictNow(s, rv)
BY VerdictKept DEF VerdictNow, Now, IInv

LEMMA StaleIsNotNow ==
  ASSUME NEW s
  PROVE  HoldsStale(s) = {} <=> \A r \in Request : HoldsNow(tx[r], s)
BY DEF HoldsStale, HoldsNow, Now

LEMMA InitFresh == Init => FreshInv
BY DEF Init, FreshInv, RefreshedFresh, DraftUnused, ForetoldFresh, Under, Idle

-----------------------------------------------------------------------------
(* Steps outside the transactions                                          *)

LEMMA StatusFresh ==
  ASSUME IInv, FreshInv, [Next]_vars, NEW s \in Student, NEW status,
         setPlacementStatus(s, status)
  PROVE  FreshInv'
<1>1. /\ UNCHANGED <<cache, tx, ruleStatus, served>>
      /\ predicted' = [q \in Rule |-> None]
      /\ refreshed' = {k \in refreshed : k[1] # s}
      /\ \A u \in Student \ {s} : record'[u] = record[u]
  BY DEF setPlacementStatus, IInv, StatusesHad
<1>2. RefreshedFresh'
  <2>1. ASSUME NEW u \in Student, NEW rv \in RuleVersion, <<u, rv>> \in refreshed'
        PROVE  /\ \A r \in Request : HoldsNow(tx[r], u)'
               /\ RowsOf(u, rv)' # {}
               /\ \A row : RowsOf(u, rv)' = {row} => cache'[row] = VerdictNow(u, rv)'
    <3>1. <<u, rv>> \in refreshed /\ u # s
      BY <2>1, <1>1
    <3>2. Now(u)' = Now(u)
      BY <3>1, <1>1 DEF Now
    <3>3. VerdictNow(u, rv)' = VerdictNow(u, rv)
      BY <3>2, VerdictKept DEF VerdictNow, IInv
    <3>4. \A r \in Request : HoldsNow(tx[r], u)'
      BY <3>1, <3>2, <1>1 DEF FreshInv, RefreshedFresh, HoldsNow
    <3>5. RowsOf(u, rv)' = RowsOf(u, rv)
      BY <1>1 DEF RowsOf
    <3>6. QED
      BY <3>1, <3>3, <3>4, <3>5, <1>1 DEF FreshInv, RefreshedFresh
  <2>2. QED
    BY <2>1 DEF RefreshedFresh, RuleVersion
<1>3. DraftUnused' /\ ForetoldFresh'
  BY <1>1 DEF FreshInv, DraftUnused, ForetoldFresh, Under
<1>4. QED
  BY <1>1, <1>2, <1>3 DEF FreshInv

LEMMA RuleFresh ==
  ASSUME IInv, FreshInv, [Next]_vars, NEW q \in Rule, NEW unseen, activate(q, unseen)
  PROVE  FreshInv'
<1>1. /\ UNCHANGED <<record, cache, tx, served, predicted, refreshed>>
      /\ DOMAIN ruleStatus' = Rule
      /\ \A p \in Rule : ruleStatus'[p] = "DRAFT" => ruleStatus[p] = "DRAFT"
  BY DEF activate, FreshInv
<1>2. \A s \in Student : \A rv : VerdictNow(s, rv)' = VerdictNow(s, rv)
  BY <1>1, NowKept
<1>3. DraftUnused'
  BY <1>1 DEF FreshInv, DraftUnused, Under
<1>4. RefreshedFresh'
  BY <1>1, <1>2 DEF FreshInv, RefreshedFresh, HoldsNow, Now, RowsOf
<1>5. ForetoldFresh'
  <2>1. \A row \in DOMAIN cache : row[1] \in Student
    BY DEF IInv, CachedGiven
  <2>2. QED
    BY <1>1, <1>2, <2>1 DEF FreshInv, ForetoldFresh, HoldsNow, Now, Under
<1>6. QED
  BY <1>1, <1>3, <1>4, <1>5 DEF FreshInv

(* The dry run computes what the batch would, under a rule nobody uses yet.*)
LEMMA DryRunFresh ==
  ASSUME IInv, FreshInv, [Next]_vars, NEW q \in Rule, dryRun(q)
  PROVE  FreshInv'
<1>1. /\ UNCHANGED <<record, jd, ruleStatus, cache, tx, served, refreshed>>
      /\ ruleStatus[q] = "DRAFT"
      /\ DOMAIN predicted' = Rule
      /\ \A p \in Rule \ {q} : predicted'[p] = predicted[p]
      /\ predicted'[q] # None =>
           /\ predicted'[q] = ProposedEligible(q)
           /\ \A r \in Request : tx[r].pc # "resolve"
  BY DEF dryRun, FreshInv
<1>2. \A s \in Student : \A rv : VerdictNow(s, rv)' = VerdictNow(s, rv)
  BY <1>1, NowKept
<1>3. RefreshedFresh' /\ DraftUnused'
  BY <1>1, <1>2 DEF FreshInv, RefreshedFresh, DraftUnused, HoldsNow, Now, RowsOf, Under
<1>4. ProposedEligible(q) = {s \in Student : VerdictNow(s, q).eligible}
  BY NoneAssumption
  DEF ProposedEligible, VerdictNow, Now, Verdict, resolveCriteria, InstitutionCriteria
<1>5. ForetoldFresh'
  <2>1. \A row \in DOMAIN cache : row[1] \in Student
    BY DEF IInv, CachedGiven
  <2>2. \A r \in Request : ~Under(tx[r], q)
    BY <1>1 DEF FreshInv, DraftUnused
  <2>3. \A r \in Request : tx[r].pc = "insert" => tx[r].ruleVersion # q
    BY <2>2 DEF Under
  <2>4. ASSUME NEW p \in Rule, predicted'[p] # None
        PROVE  /\ predicted'[p] = {s \in Student : VerdictNow(s, p)'.eligible}
               /\ \A row \in DOMAIN cache :
                    row[2] = p => cache[row] = VerdictNow(row[1], p)'
               /\ \A r \in Request, s \in Student :
                    tx[r].pc = "resolve" \/ Under(tx[r], p) => HoldsNow(tx[r], s)
               /\ \A r \in Request, s \in Student :
                    tx[r].pc = "insert" /\ tx[r].ruleVersion = p /\ s \in DOMAIN tx[r].hit =>
                      tx[r].hit[s] = VerdictNow(s, p)'
               /\ served # None /\ served.ruleVersion = p =>
                    \A s \in Student : served.verdict[s] = VerdictNow(s, p)'
    <3>1. CASE p = q
      BY <3>1, <2>2, <2>3, <2>4, <1>1, <1>2, <1>4 DEF FreshInv, DraftUnused
    <3>2. CASE p # q
      BY <3>2, <2>1, <2>4, <1>1, <1>2 DEF FreshInv, ForetoldFresh
    <3>3. QED
      BY <3>1, <3>2
  <2>5. QED
    BY <2>4, <1>1 DEF ForetoldFresh, Under, HoldsNow, Now
<1>6. QED
  BY <1>1, <1>3, <1>5 DEF FreshInv

-----------------------------------------------------------------------------
(* Steps of a transaction that write nothing                               *)

LEMMA GotoFresh ==
  ASSUME IInv, FreshInv, [Next]_vars, NEW r \in Request, NEW t, Goto(r, t),
         \A s \in Student :
           (\A p \in Request : HoldsNow(tx[p], s)) => HoldsNow(t, s),
         \A q \in Rule : Under(t, q) => ruleStatus[q] # "DRAFT",
         \A q \in Rule, s \in Student :
           predicted[q] # None /\ (t.pc = "resolve" \/ Under(t, q)) => HoldsNow(t, s),
         \A q \in Rule, s \in Student :
           predicted[q] # None /\ t.pc = "insert" /\ t.ruleVersion = q /\ s \in DOMAIN t.hit
             => t.hit[s] = VerdictNow(s, q)
  PROVE  FreshInv'
<1>1. /\ tx' = [tx EXCEPT ![r] = t]
      /\ UNCHANGED <<record, ruleStatus, cache, served, predicted, refreshed>>
  BY DEF Goto
<1>2. \A p \in Request : tx'[p] = IF p = r THEN t ELSE tx[p]
  BY <1>1 DEF IInv, TransactionsGiven
<1>3. \A s \in Student : \A rv : VerdictNow(s, rv)' = VerdictNow(s, rv)
  BY <1>1, NowKept
<1>4. \A s \in Student, p \in Request : HoldsNow(tx[p], s)' <=> HoldsNow(tx'[p], s)
  BY <1>1 DEF HoldsNow, Now
<1>5. RefreshedFresh'
  <2>1. ASSUME NEW s \in Student, NEW rv \in RuleVersion, <<s, rv>> \in refreshed
        PROVE  \A p \in Request : HoldsNow(tx[p], s)'
    BY <2>1, <1>2, <1>4 DEF FreshInv, RefreshedFresh
  <2>2. QED
    BY <2>1, <1>1, <1>3 DEF FreshInv, RefreshedFresh, RowsOf, RuleVersion
<1>6. DraftUnused'
  BY <1>1, <1>2 DEF FreshInv, DraftUnused, Under
<1>7. ForetoldFresh'
  <2>1. \A row \in DOMAIN cache : row[1] \in Student
    BY DEF IInv, CachedGiven
  <2>2. ASSUME NEW q \in Rule, predicted[q] # None, NEW p \in Request, NEW s \in Student
        PROVE  /\ tx'[p].pc = "resolve" \/ Under(tx'[p], q) => HoldsNow(tx[p], s)'
               /\ tx'[p].pc = "insert" /\ tx'[p].ruleVersion = q /\ s \in DOMAIN tx'[p].hit =>
                    tx'[p].hit[s] = VerdictNow(s, q)
    BY <2>2, <1>2, <1>4 DEF FreshInv, ForetoldFresh
  <2>3. QED
    BY <2>1, <2>2, <1>1, <1>3 DEF FreshInv, ForetoldFresh, Under
<1>8. QED
  BY <1>1, <1>5, <1>6, <1>7 DEF FreshInv

(* A transaction takes up an ACTIVE rule or none.                          *)
LEMMA TakesActive ==
  ASSUME NEW rv \in CurrentVersions, NEW q \in Rule, rv = q
  PROVE  ruleStatus[q] # "DRAFT"
BY NoneAssumption DEF CurrentVersions, ACTIVE

LEMMA EvaluateFresh ==
  ASSUME IInv, FreshInv, [Next]_vars, NEW r \in Request,
         \/ \E s \in Student : evaluate(r, s)
         \/ evaluateResolve(r)
         \/ evaluateFind(r)
  PROVE  FreshInv'
<1>1. ASSUME NEW s \in Student, evaluate(r, s)
      PROVE  FreshInv'
  <2> DEFINE t == [pc |-> "resolve", student |-> s, status |-> record[s].placementStatus]
  <2>1. Goto(r, t)
    BY <1>1 DEF evaluate, Begin
  <2>2. (\A u \in Student : HoldsNow(t, u)) /\ (\A q \in Rule : ~Under(t, q))
    BY DEF HoldsNow, Now, Under
  <2>3. t.pc # "insert"
    OBVIOUS
  <2> HIDE DEF t
  <2>4. QED
    BY <2>1, <2>2, <2>3, GotoFresh
<1>2. ASSUME evaluateResolve(r)
      PROVE  FreshInv'
  <2> DEFINE t(rv) == [pc |-> "find", student |-> tx[r].student,
                       status |-> tx[r].status, ruleVersion |-> rv]
  <2>1. PICK rv \in CurrentVersions : Goto(r, t(rv))
    BY <1>2 DEF evaluateResolve, Step
  <2>2. /\ \A s \in Student : HoldsNow(tx[r], s) => HoldsNow(t(rv), s)
        /\ tx[r].pc = "resolve"
        /\ t(rv).pc = "find"
        /\ t(rv).ruleVersion = rv
    BY <1>2 DEF evaluateResolve, HoldsNow
  <2> HIDE DEF t
  <2>3. \A q \in Rule : Under(t(rv), q) => ruleStatus[q] # "DRAFT"
    BY <2>2, TakesActive DEF Under
  <2>4. ASSUME NEW q \in Rule, NEW s \in Student, predicted[q] # None
        PROVE  HoldsNow(t(rv), s)
    BY <2>2, <2>4 DEF FreshInv, ForetoldFresh
  <2>5. QED
    BY <2>1, <2>2, <2>3, <2>4, GotoFresh
<1>3. ASSUME evaluateFind(r)
      PROVE  FreshInv'
  <2> DEFINE t(existing) == [pc |-> "upsert", student |-> tx[r].student,
                             status |-> tx[r].status,
                             ruleVersion |-> tx[r].ruleVersion,
                             existing |-> existing]
  <2>1. PICK existing : Goto(r, t(existing))
    BY <1>3 DEF evaluateFind, Step
  <2>2. /\ \A s \in Student : HoldsNow(tx[r], s) => HoldsNow(t(existing), s)
        /\ \A q : Under(t(existing), q) => Under(tx[r], q)
        /\ t(existing).pc = "upsert"
    BY <1>3 DEF evaluateFind, HoldsNow, Under
  <2> HIDE DEF t
  <2>3. \A q \in Rule : Under(t(existing), q) => ruleStatus[q] # "DRAFT"
    BY <2>2 DEF FreshInv, DraftUnused
  <2>4. ASSUME NEW q \in Rule, NEW s \in Student, predicted[q] # None, Under(t(existing), q)
        PROVE  HoldsNow(t(existing), s)
    BY <2>2, <2>4 DEF FreshInv, ForetoldFresh
  <2>5. QED
    BY <2>1, <2>2, <2>3, <2>4, GotoFresh
<1>4. QED
  BY <1>1, <1>2, <1>3

LEMMA BatchFresh ==
  ASSUME IInv, FreshInv, [Next]_vars, NEW r \in Request,
         evaluateDriveBatch(r) \/ batchStudents(r) \/ batchCached(r) \/ abort(r)
  PROVE  FreshInv'
<1>1. ASSUME evaluateDriveBatch(r)
      PROVE  FreshInv'
  <2> DEFINE t(rv) == [pc |-> "students", ruleVersion |-> rv]
  <2>1. PICK rv \in CurrentVersions : Goto(r, t(rv))
    BY <1>1 DEF evaluateDriveBatch, Begin
  <2>2. (\A s \in Student : HoldsNow(t(rv), s)) /\ t(rv).pc = "students"
    BY DEF HoldsNow
  <2>3. \A q \in Rule : Under(t(rv), q) => ruleStatus[q] # "DRAFT"
    BY TakesActive DEF Under
  <2> HIDE DEF t
  <2>4. QED
    BY <2>1, <2>2, <2>3, GotoFresh
<1>2. ASSUME batchStudents(r)
      PROVE  FreshInv'
  <2> DEFINE t == [pc |-> "cached", ruleVersion |-> tx[r].ruleVersion,
                   status |-> [s \in Student |-> record[s].placementStatus]]
  <2>1. Goto(r, t)
    BY <1>2 DEF batchStudents, Step
  <2>2. /\ \A s \in Student : HoldsNow(t, s)
        /\ \A q : Under(t, q) => Under(tx[r], q)
        /\ t.pc = "cached"
    BY <1>2 DEF batchStudents, HoldsNow, Now, Under
  <2> HIDE DEF t
  <2>3. \A q \in Rule : Under(t, q) => ruleStatus[q] # "DRAFT"
    BY <2>2 DEF FreshInv, DraftUnused
  <2>4. QED
    BY <2>1, <2>2, <2>3, GotoFresh
<1>3. ASSUME batchCached(r)
      PROVE  FreshInv'
  <2> DEFINE rv == tx[r].ruleVersion
             t(hit) == [pc |-> "insert", ruleVersion |-> rv,
                        status |-> tx[r].status, hit |-> hit]
  <2>1. PICK hit : /\ DOMAIN hit \subseteq Student
                   /\ \A s \in DOMAIN hit :
                        hit[s] \in {cache[row] : row \in RowsOf(s, rv)}
                   /\ Goto(r, t(hit))
    BY <1>3 DEF batchCached, cachedRows, Step
  <2>2. /\ \A s \in Student : HoldsNow(tx[r], s) => HoldsNow(t(hit), s)
        /\ \A q : Under(t(hit), q) => Under(tx[r], q)
        /\ t(hit).pc = "insert" /\ t(hit).ruleVersion = rv /\ t(hit).hit = hit
    BY <1>3 DEF batchCached, HoldsNow, Under
  <2> HIDE DEF t
  <2>3. \A q \in Rule : Under(t(hit), q) => ruleStatus[q] # "DRAFT"
    BY <2>2 DEF FreshInv, DraftUnused
  <2>4. ASSUME NEW q \in Rule, NEW s \in Student, predicted[q] # None, Under(t(hit), q)
        PROVE  HoldsNow(t(hit), s)
    BY <2>2, <2>4 DEF FreshInv, ForetoldFresh
  <2>5. ASSUME NEW q \in Rule, NEW s \in Student, predicted[q] # None, rv = q,
               s \in DOMAIN hit
        PROVE  hit[s] = VerdictNow(s, q)
    <3>1. PICK row \in RowsOf(s, q) : hit[s] = cache[row]
      BY <2>1, <2>5
    <3>2. QED
      BY <2>5, <3>1 DEF FreshInv, ForetoldFresh, RowsOf
  <2>6. QED
    BY <2>1, <2>2, <2>3, <2>4, <2>5, GotoFresh
<1>4. ASSUME abort(r)
      PROVE  FreshInv'
  <2>1. /\ \A s : HoldsNow(Idle, s)
        /\ \A q : ~Under(Idle, q)
        /\ Idle.pc = "idle"
    BY DEF HoldsNow, Under, Idle
  <2>2. QED
    BY <1>4, <2>1, GotoFresh DEF abort, Step
<1>5. QED
  BY <1>1, <1>2, <1>3, <1>4

-----------------------------------------------------------------------------
(* The commits                                                             *)

(* Transaction r ends, having written the rows new under rule version rv,  *)
(* each from the status it held.                                           *)
Writes(r, new, rv) ==
  /\ tx' = [tx EXCEPT ![r] = Idle]
  /\ UNCHANGED <<record, ruleStatus, predicted>>
  /\ Under(tx[r], rv)
  /\ DOMAIN cache' = DOMAIN cache \cup new
  /\ \A a \in DOMAIN cache \ new : cache'[a] = cache[a]
  /\ \A a \in new :
       /\ a[1] \in Student /\ a[2] = rv
       /\ HoldsNow(tx[r], a[1]) => cache'[a] = VerdictNow(a[1], rv)

(* Keys are refreshed by the new rows when nobody holds an older status.   *)
Refreshes(new) ==
  \A k \in refreshed' :
    \/ k \in refreshed
    \/ \E a \in new :
         k = <<a[1], a[2]>> /\ \A p \in Request : HoldsNow(tx[p], a[1])

(* The answer, if any, is of the present where it was foretold.            *)
Answers(rv) ==
  \/ served' = served
  \/ /\ served'.ruleVersion = rv
     /\ \A q \in Rule : rv = q /\ predicted[q] # None =>
          \A s \in Student : served'.verdict[s] = VerdictNow(s, q)

LEMMA CommitFresh ==
  ASSUME IInv, FreshInv, [Next]_vars, NEW r \in Request, NEW new, NEW rv,
         Writes(r, new, rv), Refreshes(new), Answers(rv)
  PROVE  FreshInv'
<1> USE DEF Writes, Refreshes, Answers
<1>1. \A p \in Request : tx'[p] = IF p = r THEN Idle ELSE tx[p]
  BY DEF IInv, TransactionsGiven
<1>2. \A s \in Student : \A k : VerdictNow(s, k)' = VerdictNow(s, k)
  BY NowKept
<1>3. ASSUME NEW p \in Request, NEW s
      PROVE  HoldsNow(tx[p], s) => HoldsNow(tx[p], s)'
  BY <1>1 DEF HoldsNow, Now, Idle
<1>4. \A p \in Request : \A q : Under(tx'[p], q) => p # r /\ Under(tx[p], q)
  BY <1>1 DEF Under, Idle
<1>5. RefreshedFresh'
  <2>1. ASSUME NEW s \in Student, NEW k \in RuleVersion, <<s, k>> \in refreshed'
        PROVE  /\ \A p \in Request : HoldsNow(tx[p], s)'
               /\ RowsOf(s, k)' # {}
               /\ \A row : RowsOf(s, k)' = {row} => cache'[row] = VerdictNow(s, k)'
    <3>1. CASE <<s, k>> \in refreshed
      <4>1. /\ \A p \in Request : HoldsNow(tx[p], s)
            /\ RowsOf(s, k) # {}
            /\ \A row : RowsOf(s, k) = {row} => cache[row] = VerdictNow(s, k)
        BY <3>1 DEF FreshInv, RefreshedFresh
      <4>2. RowsOf(s, k) \subseteq RowsOf(s, k)'
        BY DEF RowsOf
      <4>3. ASSUME NEW row, RowsOf(s, k)' = {row}
            PROVE  cache'[row] = VerdictNow(s, k)'
        <5>1. RowsOf(s, k) = {row} /\ row \in DOMAIN cache /\ row[1] = s /\ row[2] = k
          BY <4>1, <4>2, <4>3 DEF RowsOf
        <5>2. QED
          BY <5>1, <4>1, <1>2
      <4>4. QED
        BY <4>1, <4>2, <4>3, <1>3
    <3>2. CASE <<s, k>> \notin refreshed
      <4>1. PICK a \in new : /\ <<s, k>> = <<a[1], a[2]>>
                             /\ \A p \in Request : HoldsNow(tx[p], a[1])
        BY <2>1, <3>2
      <4>2. a[1] = s /\ a[2] = k
        BY <4>1
      <4>3. a \in RowsOf(s, k)'
        BY <4>2 DEF RowsOf
      <4>4. cache'[a] = VerdictNow(s, k)
        BY <4>1, <4>2
      <4>5. QED
        BY <4>1, <4>2, <4>3, <4>4, <1>2, <1>3
    <3>3. QED
      BY <3>1, <3>2
  <2>2. QED
    BY <2>1 DEF RefreshedFresh, RuleVersion
<1>6. DraftUnused'
  <2>1. ASSUME NEW q \in Rule, ruleStatus[q] = "DRAFT"
        PROVE  /\ \A row \in DOMAIN cache' : row[2] # q
               /\ \A p \in Request : ~Under(tx'[p], q)
               /\ served' # None => served'.ruleVersion # q
    <3>1. rv # q
      BY <2>1 DEF FreshInv, DraftUnused
    <3>2. QED
      BY <2>1, <3>1, <1>4 DEF FreshInv, DraftUnused
  <2>2. QED
    BY <2>1 DEF DraftUnused, Under
<1>7. ForetoldFresh'
  <2>1. ASSUME NEW q \in Rule, predicted[q] # None
        PROVE  /\ predicted[q] = {s \in Student : VerdictNow(s, q)'.eligible}
               /\ \A row \in DOMAIN cache' :
                    row[2] = q => cache'[row] = VerdictNow(row[1], q)'
               /\ \A p \in Request, s \in Student :
                    tx'[p].pc = "resolve" \/ Under(tx'[p], q) => HoldsNow(tx[p], s)'
               /\ \A p \in Request, s \in Student :
                    tx'[p].pc = "insert" /\ tx'[p].ruleVersion = q /\ s \in DOMAIN tx'[p].hit
                      => tx'[p].hit[s] = VerdictNow(s, q)'
               /\ served' # None /\ served'.ruleVersion = q =>
                    \A s \in Student : served'.verdict[s] = VerdictNow(s, q)'
    <3>1. predicted[q] = {s \in Student : VerdictNow(s, q)'.eligible}
      BY <2>1, <1>2 DEF FreshInv, ForetoldFresh
    <3>2. ASSUME NEW row \in DOMAIN cache', row[2] = q
          PROVE  cache'[row] = VerdictNow(row[1], q)'
      <4>1. CASE row \in new
        <5>1. HoldsNow(tx[r], row[1])
          BY <2>1, <3>2, <4>1 DEF FreshInv, ForetoldFresh
        <5>2. QED
          BY <3>2, <4>1, <5>1, <1>2
      <4>2. CASE row \notin new
        <5>1. row \in DOMAIN cache /\ row[1] \in Student
          BY <4>2 DEF IInv, CachedGiven
        <5>2. QED
          BY <2>1, <3>2, <4>2, <5>1, <1>2 DEF FreshInv, ForetoldFresh
      <4>3. QED
        BY <4>1, <4>2
    <3>3. \A p \in Request, s \in Student :
            tx'[p].pc = "resolve" \/ Under(tx'[p], q) => HoldsNow(tx[p], s)'
      <4>1. \A p \in Request : tx'[p].pc = "resolve" => tx[p].pc = "resolve"
        BY <1>1 DEF Idle
      <4>2. QED
        BY <2>1, <4>1, <1>3, <1>4 DEF FreshInv, ForetoldFresh
    <3>4. ASSUME NEW p \in Request, NEW s \in Student,
                 tx'[p].pc = "insert", tx'[p].ruleVersion = q, s \in DOMAIN tx'[p].hit
          PROVE  tx'[p].hit[s] = VerdictNow(s, q)'
      <4>1. tx'[p] = tx[p]
        BY <3>4, <1>1 DEF Idle
      <4>2. QED
        BY <2>1, <3>4, <4>1, <1>2 DEF FreshInv, ForetoldFresh
    <3>5. ASSUME served' # None, served'.ruleVersion = q
          PROVE  \A s \in Student : served'.verdict[s] = VerdictNow(s, q)'
      BY <2>1, <3>5, <1>2 DEF FreshInv, ForetoldFresh
    <3>6. QED
      BY <3>1, <3>2, <3>3, <3>4, <3>5
  <2>2. QED
    BY <2>1 DEF ForetoldFresh, Under
<1>8. QED
  BY <1>5, <1>6, <1>7 DEF FreshInv

LEMMA EvaluateCommitFresh ==
  ASSUME IInv, FreshInv, [Next]_vars, NEW r \in Request, evaluateCommit(r)
  PROVE  FreshInv'
<1> DEFINE s == tx[r].student
           rv == tx[r].ruleVersion
           verdict == Verdict(s, tx[r].status, rv)
           new == Written(tx[r])
<1>1. /\ s \in Student
      /\ tx[r].existing \subseteq RowsOf(s, rv)
      /\ Under(tx[r], rv)
  BY DEF evaluateCommit, IInv, TransactionsGiven, HeldGiven, Under
<1>2. /\ tx' = [tx EXCEPT ![r] = Idle]
      /\ UNCHANGED <<record, ruleStatus, served, predicted>>
      /\ refreshed' = IF HoldsStale(s) = {} THEN refreshed \cup {<<s, rv>>} ELSE refreshed
      /\ cache' = WithRows(new, [u \in {s} |-> verdict])
  BY DEF evaluateCommit, upsertCache
<1>3. new # {} /\ \A row \in new : row[1] = s /\ row[2] = rv
  <2>1. NewRow(s, rv)[1] = s /\ NewRow(s, rv)[2] = rv
    BY DEF NewRow
  <2>2. new = tx[r].existing \/ new = {NewRow(s, rv)}
    BY DEF Written
  <2>3. \A row \in tx[r].existing : row[1] = s /\ row[2] = rv
    BY <1>1 DEF RowsOf
  <2>4. new # {}
    BY DEF Written
  <2>5. QED
    BY <2>1, <2>2, <2>3, <2>4
<1>4. /\ DOMAIN cache' = DOMAIN cache \cup new
      /\ \A a \in DOMAIN cache \ new : cache'[a] = cache[a]
      /\ \A a \in new : cache'[a] = verdict
  BY <1>2, <1>3 DEF WithRows
<1>5. HoldsNow(tx[r], s) => verdict = VerdictNow(s, rv)
  BY DEF evaluateCommit, HoldsNow, VerdictNow
<1>6. ASSUME NEW k \in refreshed', k \notin refreshed
      PROVE  k = <<s, rv>> /\ \A p \in Request : HoldsNow(tx[p], s)
  BY <1>2, <1>6, StaleIsNotNow
<1> HIDE DEF s, rv, verdict, new
<1>7. \A a \in new :
        /\ a[1] \in Student /\ a[2] = rv
        /\ HoldsNow(tx[r], a[1]) => cache'[a] = VerdictNow(a[1], rv)
  BY <1>1, <1>3, <1>4, <1>5
<1>8. Writes(r, new, rv)
  BY <1>1, <1>2, <1>4, <1>7 DEF Writes
<1>9. Refreshes(new) /\ Answers(rv)
  BY <1>2, <1>3, <1>6 DEF Refreshes, Answers
<1>10. QED
  BY <1>8, <1>9, CommitFresh

LEMMA BatchCommitFresh ==
  ASSUME IInv, FreshInv, [Next]_vars, NEW r \in Request, batchCommit(r)
  PROVE  FreshInv'
<1> DEFINE rv == tx[r].ruleVersion
           verdict == [s \in Student |->
             IF s \in DOMAIN tx[r].hit THEN tx[r].hit[s]
             ELSE Verdict(s, tx[r].status[s], rv)]
           new == {NewRow(s, rv) : s \in ToInsert(tx[r])}
<1>1. /\ cache' = WithRows(new, verdict)
      /\ served' = [ruleVersion |-> rv, verdict |-> verdict]
      /\ tx' = [tx EXCEPT ![r] = Idle]
      /\ UNCHANGED <<record, ruleStatus, predicted, refreshed>>
      /\ Under(tx[r], rv)
      /\ tx[r].pc = "insert"
  BY DEF batchCommit, Under
<1>2. \A row \in new : row[1] \in ToInsert(tx[r]) /\ row[2] = rv
  BY DEF NewRow
<1>3. ASSUME NEW s \in ToInsert(tx[r]), HoldsNow(tx[r], s)
      PROVE  verdict[s] = VerdictNow(s, rv)
  BY <1>1, <1>3 DEF ToInsert, HoldsNow, VerdictNow
<1>4. ASSUME NEW q \in Rule, rv = q, predicted[q] # None, NEW s \in Student
      PROVE  verdict[s] = VerdictNow(s, q)
  <2>1. CASE s \in DOMAIN tx[r].hit
    BY <2>1, <1>1, <1>4 DEF FreshInv, ForetoldFresh
  <2>2. CASE s \notin DOMAIN tx[r].hit
    <3>1. HoldsNow(tx[r], s)
      BY <1>1, <1>4 DEF FreshInv, ForetoldFresh
    <3>2. QED
      BY <2>2, <3>1, <1>1, <1>3, <1>4 DEF ToInsert
  <2>3. QED
    BY <2>1, <2>2
<1>5. served'.ruleVersion = rv /\ served'.verdict = verdict
  BY <1>1
<1> HIDE DEF rv, verdict, new
<1>6. /\ DOMAIN cache' = DOMAIN cache \cup new
      /\ \A a \in DOMAIN cache \ new : cache'[a] = cache[a]
      /\ \A a \in new : cache'[a] = verdict[a[1]]
  BY <1>1 DEF WithRows
<1>7. \A a \in new :
        /\ a[1] \in Student /\ a[2] = rv
        /\ HoldsNow(tx[r], a[1]) => cache'[a] = VerdictNow(a[1], rv)
  BY <1>2, <1>3, <1>6 DEF ToInsert
<1>8. \A q \in Rule : rv = q /\ predicted[q] # None =>
        \A s \in Student : served'.verdict[s] = VerdictNow(s, q)
  BY <1>4, <1>5
<1>9. Writes(r, new, rv)
  BY <1>1, <1>6, <1>7 DEF Writes
<1>10. Refreshes(new) /\ Answers(rv)
  BY <1>1, <1>5, <1>8 DEF Refreshes, Answers
<1>11. QED
  BY <1>9, <1>10, CommitFresh

-----------------------------------------------------------------------------

LEMMA StandsFresh ==
  ASSUME FreshInv, UNCHANGED vars
  PROVE  FreshInv'
BY DEF FreshInv, RefreshedFresh, DraftUnused, ForetoldFresh, vars, Under, HoldsNow,
       Now, VerdictNow, Verdict, toEvaluatorStudent, resolveCriteria,
       InstitutionCriteria, RowsOf, RuleVersion

LEMMA FreshStep == IInv /\ FreshInv /\ [Next]_vars => FreshInv'
<1> SUFFICES ASSUME IInv, FreshInv, [Next]_vars
             PROVE  FreshInv'
  OBVIOUS
<1>1. CASE UNCHANGED vars
  BY <1>1, StandsFresh
<1>2. ASSUME NEW s \in Student, NEW status, setPlacementStatus(s, status)
      PROVE  FreshInv'
  BY <1>2, StatusFresh
<1>3. ASSUME NEW q \in Rule, dryRun(q)
      PROVE  FreshInv'
  BY <1>3, DryRunFresh
<1>4. ASSUME NEW q \in Rule, NEW unseen \in SUBSET ACTIVE, activate(q, unseen)
      PROVE  FreshInv'
  BY <1>4, RuleFresh
<1>5. ASSUME NEW r \in Request,
             \/ \E s \in Student : evaluate(r, s)
             \/ evaluateResolve(r) \/ evaluateFind(r) \/ evaluateCommit(r)
             \/ evaluateDriveBatch(r) \/ batchStudents(r) \/ batchCached(r)
             \/ batchCommit(r) \/ abort(r)
      PROVE  FreshInv'
  BY <1>5, EvaluateFresh, EvaluateCommitFresh, BatchFresh, BatchCommitFresh
<1>6. QED
  BY <1>1, <1>2, <1>3, <1>4, <1>5 DEF Next

LEMMA FreshInvariance == Spec => []FreshInv
<1>1. IInv /\ FreshInv /\ [Next]_vars => FreshInv'
  BY FreshStep
<1>2. QED
  BY <1>1, InitFresh, Invariance, PTL DEF Spec

(* Once evaluate() has run for a student, and until the placement status   *)
(* changes, the only row of that student and rule version holds the verdict*)
(* of the present, which the next batch serves: no other evaluation or     *)
(* batch, begun when it may, puts an older one there (136-143, 190-216).   *)
THEOREM RefreshReaches == Spec => []RefreshReachesBatch
<1>1. FreshInv => RefreshReachesBatch
  BY DEF FreshInv, RefreshedFresh, RefreshReachesBatch, VerdictNow, Now
<1>2. QED
  BY <1>1, FreshInvariance, PTL

(* The students a dry run lets through under a proposed rule are exactly   *)
(* those a batch lets through once the rule is ACTIVE, as long as no status*)
(* changes in between (325-375).                                           *)
THEOREM DryRunForetold == Spec => []DryRunForetells
<1>1. ASSUME FreshInv, NEW q \in Rule, served # None, served.ruleVersion = q,
             predicted[q] # None
      PROVE  predicted[q] = EligibleAmong(served.verdict)
  BY <1>1 DEF FreshInv, ForetoldFresh, EligibleAmong
<1>2. FreshInv => DryRunForetells
  BY <1>1 DEF DryRunForetells
<1>3. QED
  BY <1>2, FreshInvariance, PTL

=============================================================================

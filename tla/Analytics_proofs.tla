------------------------- MODULE Analytics_proofs -------------------------
(***************************************************************************)
(* Two properties of module Analytics for every number of students,        *)
(* departments, workers, writes and crashes: a stored summary is what its  *)
(* scope was at one moment (SummaryWasTrue), and a scope has one row, the  *)
(* batch until two recomputes overlap (OneRowPerScope).                    *)
(*                                                                         *)
(* The first follows an aggregate from the statement that computes it,     *)
(* through the worker, into the row.  The second is the argument of the    *)
(* unique index for a department, and for the batch, which the index does  *)
(* not cover, that a worker alone still finds what it has searched for.    *)
(***************************************************************************)
EXTENDS Analytics, FiniteSetTheorems, TLAPS

(* A worker is at one of the batch's scopes.                               *)
Placed(t) ==
  t.pc \in {"aggregate", "find", "write"} => t.at \in DOMAIN ScopesOfBatch

(* It carries an aggregate its scope has had, and the row it has found.    *)
Carries(t) ==
  /\ t.pc \in {"find", "write"} => t.data \in seen[ScopesOfBatch[t.at]]
  /\ t.pc = "write" => t.existing \subseteq RowsOf(ScopesOfBatch[t.at])

WorkersSound ==
  /\ DOMAIN worker = Worker
  /\ \A w \in Worker : Placed(worker[w]) /\ Carries(worker[w])

(* What is in the tables now has been seen.                                *)
PresentSeen ==
  /\ DOMAIN seen = Scope
  /\ \A scope \in Scope : computeScopedAggregate(db, scope) \in seen[scope]

RowsNamed ==
  /\ IsFiniteSet(DOMAIN summaries)
  /\ \A row \in DOMAIN summaries : row[1] \in Scope

OneRow(scope) == \A a, b \in RowsOf(scope) : a = b

OneRowPerDepartment == \A scope \in Department : OneRow(scope)

Busy(w) == worker[w] # Idle

(* While no recompute has met another, the one there is still finds none   *)
(* where it found none.                                                    *)
AloneSound ==
  ~overlapped =>
    /\ OneRow(Null)
    /\ \A v, w \in Worker : Busy(v) /\ Busy(w) => v = w
    /\ \A w \in Worker :
         worker[w].pc = "write" /\ worker[w].existing = {} =>
           RowsOf(ScopesOfBatch[worker[w].at]) = {}

IInv ==
  /\ WorkersSound /\ PresentSeen /\ RowsNamed /\ SummaryWasTrue
  /\ OneRowPerDepartment /\ AloneSound

-----------------------------------------------------------------------------
(* The list of scopes                                                      *)

LEMMA DepartmentsListed ==
  LET departments == {DepartmentOf[s] : s \in Student}
  IN  \E q \in [1..Cardinality(departments) -> Department] :
        {q[i] : i \in DOMAIN q} = departments
<1> DEFINE departments == {DepartmentOf[s] : s \in Student}
           n == Cardinality(departments)
<1>1. DepartmentOf \in Surjection(Student, departments)
  BY BatchAssumption DEF Surjection
<1>2. IsFiniteSet(departments)
  BY <1>1, FS_Surjection, BatchAssumption
<1>3. ExistsBijection(1..n, departments)
  BY <1>2, FS_CardinalityType
<1>4. PICK q : q \in Bijection(1..n, departments)
  BY <1>3 DEF ExistsBijection
<1>5. q \in Surjection(1..n, departments)
  BY <1>4 DEF Bijection
<1>6. /\ q \in [1..n -> departments]
      /\ \A d \in departments : \E i \in 1..n : q[i] = d
  BY <1>5 DEF Surjection
<1>7. departments \subseteq Department
  BY BatchAssumption
<1>8. q \in [1..n -> Department] /\ {q[i] : i \in DOMAIN q} = departments
  BY <1>6, <1>7
<1>9. QED
  BY <1>8

(* A list of scopes, the batch first.                                      *)
LEMMA ScopesListed ==
  /\ Len(ScopesOfBatch) \in Nat
  /\ DOMAIN ScopesOfBatch = 1..Len(ScopesOfBatch)
  /\ 1 \in DOMAIN ScopesOfBatch
  /\ \A i \in DOMAIN ScopesOfBatch : ScopesOfBatch[i] \in Scope
<1> DEFINE n == Cardinality({DepartmentOf[s] : s \in Student})
           q == CHOOSE f \in [1..n -> Department] :
                  {f[i] : i \in DOMAIN f} = {DepartmentOf[s] : s \in Student}
<1>1. q \in [1..n -> Department]
  BY DepartmentsListed
<1>2. n \in Nat
  <2>1. DepartmentOf \in Surjection(Student, {DepartmentOf[s] : s \in Student})
    BY BatchAssumption DEF Surjection
  <2>2. QED
    BY <2>1, FS_Surjection, FS_CardinalityType, BatchAssumption
<1>3. ScopesOfBatch = <<Null>> \o q
  BY DEF ScopesOfBatch
<1> HIDE DEF q, n
<1>4. q \in Seq(Scope) /\ <<Null>> \in Seq(Scope)
  BY <1>1, <1>2 DEF Scope
<1>5. ScopesOfBatch \in Seq(Scope) /\ Len(ScopesOfBatch) = 1 + Len(q)
  BY <1>3, <1>4
<1>6. QED
  BY <1>4, <1>5

-----------------------------------------------------------------------------

LEMMA InitIInv == Init => IInv
<1> SUFFICES ASSUME Init PROVE IInv
  OBVIOUS
<1>1. WorkersSound
  BY DEF Init, WorkersSound, Placed, Carries, Idle
<1>2. PresentSeen
  BY DEF Init, PresentSeen
<1>3. DOMAIN summaries = {}
  BY DEF Init
<1>4. RowsNamed /\ SummaryWasTrue /\ OneRowPerDepartment /\ OneRow(Null)
  BY <1>3, FS_EmptySet DEF RowsNamed, SummaryWasTrue, OneRowPerDepartment, OneRow, RowsOf
<1>5. AloneSound
  BY <1>4 DEF Init, AloneSound, Busy, Idle
<1>6. QED
  BY <1>1, <1>2, <1>4, <1>5 DEF IInv

-----------------------------------------------------------------------------
(* Steps that leave the workers and the rows alone                         *)

LEMMA OthersKeep ==
  ASSUME IInv, UNCHANGED <<worker, summaries, overlapped>>,
         PresentSeen', \A scope \in Scope : seen[scope] \subseteq seen'[scope]
  PROVE  IInv'
<1>1. WorkersSound'
  <2>1. ASSUME NEW w \in Worker
        PROVE  Placed(worker[w])' /\ Carries(worker[w])'
    <3>1. Placed(worker[w]) /\ Carries(worker[w])
      BY DEF IInv, WorkersSound
    <3>2. worker[w].pc \in {"find", "write"} => ScopesOfBatch[worker[w].at] \in Scope
      BY <3>1, ScopesListed DEF Placed
    <3>3. QED
      BY <3>1, <3>2 DEF Placed, Carries, RowsOf
  <2>2. QED
    BY <2>1 DEF IInv, WorkersSound
<1>2. RowsNamed' /\ OneRowPerDepartment' /\ AloneSound'
  BY DEF IInv, RowsNamed, OneRowPerDepartment, OneRow, AloneSound, Busy, RowsOf
<1>3. SummaryWasTrue'
  BY DEF IInv, SummaryWasTrue, RowsNamed
<1>4. QED
  BY <1>1, <1>2, <1>3 DEF IInv

(* A change of the data is seen as it commits.                             *)
LEMMA ChangeSeen ==
  ASSUME IInv, seen' = See(db')
  PROVE  PresentSeen' /\ \A scope \in Scope : seen[scope] \subseteq seen'[scope]
BY DEF See, IInv, PresentSeen

LEMMA NoRecompute ==
  ASSUME IInv,
         \/ \E s \in Student : shortlistSilently(s)
         \/ \E s \in Student : \E row \in EmittingWrites(db[s]) : write(s, row)
         \/ commit \/ rollback \/ updateDriveStatus \/ onEvent \/ expireKey \/ poll
         \/ UNCHANGED vars
  PROVE  IInv'
<1>1. ASSUME commit \/ \E s \in Student : shortlistSilently(s)
      PROVE  IInv'
  BY <1>1, ChangeSeen, OthersKeep DEF commit, shortlistSilently
<1>2. ASSUME UNCHANGED <<worker, summaries, overlapped, db, seen>>
      PROVE  IInv'
  <2>1. PresentSeen'
    BY <1>2 DEF IInv, PresentSeen
  <2>2. QED
    BY <1>2, <2>1, OthersKeep
<1>3. QED
  BY <1>1, <1>2
  DEF vars, write, rollback, updateDriveStatus, onEvent, expireKey, poll

LEMMA CrashKeeps ==
  ASSUME IInv, crash
  PROVE  IInv'
<1>1. worker' = [w \in Worker |-> Idle] /\ UNCHANGED <<db, seen, summaries, overlapped>>
  BY DEF crash
<1>2. WorkersSound'
  BY <1>1 DEF WorkersSound, Placed, Carries, Idle
<1>3. PresentSeen' /\ RowsNamed' /\ SummaryWasTrue' /\ OneRowPerDepartment'
  BY <1>1
  DEF IInv, PresentSeen, RowsNamed, SummaryWasTrue, OneRowPerDepartment, OneRow, RowsOf
<1>4. AloneSound'
  BY <1>1 DEF IInv, AloneSound, OneRow, RowsOf, Busy, Idle
<1>5. QED
  BY <1>2, <1>3, <1>4 DEF IInv

-----------------------------------------------------------------------------
(* Steps of a worker                                                       *)

(* A worker that goes on without writing.  It may have been idle only if it*)
(* has just been the first to take a job.                                  *)
LEMMA GotoKeeps ==
  ASSUME IInv, NEW w \in Worker, NEW t, Goto(w, t), UNCHANGED summaries,
         Placed(t), Carries(t),
         ~overlapped' => OneRow(Null),
         ~overlapped' => \A v \in Worker \ {w} : ~Busy(v),
         t.pc = "write" /\ t.existing = {} => RowsOf(ScopesOfBatch[t.at]) = {}
  PROVE  IInv'
<1>1. /\ worker' = [worker EXCEPT ![w] = t]
      /\ UNCHANGED <<db, seen, summaries>>
  BY DEF Goto
<1>2. \A v \in Worker : worker'[v] = IF v = w THEN t ELSE worker[v]
  BY <1>1 DEF IInv, WorkersSound
<1>3. WorkersSound'
  <2>1. ASSUME NEW v \in Worker
        PROVE  Placed(worker[v])' /\ Carries(worker[v])'
    <3>1. CASE v = w
      BY <3>1, <1>1, <1>2 DEF Placed, Carries, RowsOf
    <3>2. CASE v # w
      <4>1. worker'[v] = worker[v] /\ Placed(worker[v]) /\ Carries(worker[v])
        BY <3>2, <1>2 DEF IInv, WorkersSound
      <4>2. QED
        BY <4>1, <1>1 DEF Placed, Carries, RowsOf
    <3>3. QED
      BY <3>1, <3>2
  <2>2. QED
    BY <2>1, <1>1 DEF IInv, WorkersSound
<1>4. PresentSeen' /\ RowsNamed' /\ SummaryWasTrue' /\ OneRowPerDepartment'
  BY <1>1
  DEF IInv, PresentSeen, RowsNamed, SummaryWasTrue, OneRowPerDepartment, OneRow, RowsOf
<1>5. AloneSound'
  <2> SUFFICES ASSUME ~overlapped'
               PROVE  /\ OneRow(Null)'
                      /\ \A v, u \in Worker : Busy(v)' /\ Busy(u)' => v = u
                      /\ \A v \in Worker :
                           worker'[v].pc = "write" /\ worker'[v].existing = {} =>
                             RowsOf(ScopesOfBatch[worker[v].at])' = {}
    BY DEF AloneSound
  <2>1. OneRow(Null)'
    BY <1>1 DEF OneRow, RowsOf
  <2>2. \A v \in Worker \ {w} : worker'[v] = Idle
    BY <1>2 DEF Busy
  <2>3. \A v, u \in Worker : Busy(v)' /\ Busy(u)' => v = u
    BY <2>2 DEF Busy
  <2>4. ASSUME NEW v \in Worker, worker'[v].pc = "write", worker'[v].existing = {}
        PROVE  RowsOf(ScopesOfBatch[worker[v].at])' = {}
    <3>1. worker'[v] = t
      BY <2>2, <2>4, <1>2 DEF Idle
    <3>2. QED
      BY <2>4, <3>1, <1>1 DEF RowsOf
  <2>5. QED
    BY <2>1, <2>3, <2>4
<1>6. QED
  BY <1>3, <1>4, <1>5 DEF IInv

(* A worker at work, alone unless recomputes have overlapped.              *)
LEMMA AtWork ==
  ASSUME IInv, NEW w \in Worker, Busy(w), overlapped' = overlapped
  PROVE  /\ ~overlapped' => OneRow(Null)
         /\ ~overlapped' => \A v \in Worker \ {w} : ~Busy(v)
BY DEF IInv, AloneSound

(* One row at most by its count is one row at most.                        *)
LEMMA CountedOne ==
  ASSUME RowsNamed, NEW scope, Cardinality(RowsOf(scope)) <= 1
  PROVE  OneRow(scope)
<1>1. IsFiniteSet(RowsOf(scope))
  BY FS_Subset DEF RowsNamed, RowsOf
<1>2. Cardinality(RowsOf(scope)) \in Nat
  BY <1>1, FS_CardinalityType
<1>3. Cardinality(RowsOf(scope)) = 0 \/ Cardinality(RowsOf(scope)) = 1
  BY <1>2
<1>4. RowsOf(scope) = {} \/ \E x : RowsOf(scope) = {x}
  BY <1>1, <1>3, FS_EmptySet, FS_Singleton
<1>5. QED
  BY <1>4 DEF OneRow

LEMMA ProcessKeeps ==
  ASSUME IInv, NEW w \in Worker, process(w)
  PROVE  IInv'
<1> DEFINE t == [pc |-> "season"]
<1>1. ~overlapped' => OneRow(Null)
  <2>1. ASSUME ~overlapped'
        PROVE  Cardinality(RowsOf(Null)) <= 1
    <3>1. Null \in Scope /\ ~(Cardinality(RowsOf(Null)) > 1)
      BY <2>1 DEF process, Scope
    <3>2. Cardinality(RowsOf(Null)) \in Nat
      BY FS_Subset, FS_CardinalityType DEF IInv, RowsNamed, RowsOf
    <3>3. QED
      BY <3>1, <3>2
  <2>2. QED
    BY <2>1, CountedOne DEF IInv
<1>2. ~overlapped' => \A v \in Worker \ {w} : ~Busy(v)
  BY DEF process, Busy
<1>3. Placed(t) /\ Carries(t) /\ t.pc # "write"
  BY DEF Placed, Carries
<1>4. Goto(w, t) /\ UNCHANGED summaries
  BY DEF process
<1>5. QED
  BY <1>1, <1>2, <1>3, <1>4, GotoKeeps

LEMMA FailKeeps ==
  ASSUME IInv, NEW w \in Worker, fail(w)
  PROVE  IInv'
<1>1. Placed(Idle) /\ Carries(Idle) /\ Idle.pc # "write"
  BY DEF Placed, Carries, Idle
<1>2. QED
  BY <1>1, AtWork, GotoKeeps DEF fail, Busy

LEMMA ReadsKeep ==
  ASSUME IInv, NEW w \in Worker,
         computeSeasonAggregate(w) \/ aggregate(w) \/ find(w)
  PROVE  IInv'
<1>1. Placed(worker[w]) /\ Carries(worker[w])
  BY DEF IInv, WorkersSound
<1>2. Busy(w) /\ UNCHANGED <<summaries, overlapped>>
  BY DEF computeSeasonAggregate, aggregate, find, Busy, Idle
<1>3. ASSUME computeSeasonAggregate(w)
      PROVE  IInv'
  <2> DEFINE t == [pc |-> "aggregate", at |-> 1, season |-> activeDrives]
  <2>1. Placed(t) /\ Carries(t) /\ t.pc # "write"
    BY ScopesListed DEF Placed, Carries
  <2>2. Goto(w, t)
    BY <1>3 DEF computeSeasonAggregate
  <2>3. QED
    BY <1>2, <2>1, <2>2, AtWork, GotoKeeps
<1>4. ASSUME aggregate(w)
      PROVE  IInv'
  <2> DEFINE scope == ScopesOfBatch[worker[w].at]
             t == [pc |-> "find", at |-> worker[w].at, season |-> worker[w].season,
                   data |-> computeScopedAggregate(db, scope)]
  <2>1. worker[w].at \in DOMAIN ScopesOfBatch /\ scope \in Scope
    BY <1>1, <1>4, ScopesListed DEF Placed, aggregate
  <2>2. computeScopedAggregate(db, scope) \in seen[scope]
    BY <2>1 DEF IInv, PresentSeen
  <2>3. Placed(t) /\ Carries(t) /\ t.pc # "write"
    BY <2>1, <2>2 DEF Placed, Carries
  <2>4. Goto(w, t)
    BY <1>4 DEF aggregate
  <2>5. QED
    BY <1>2, <2>3, <2>4, AtWork, GotoKeeps
<1>5. ASSUME find(w)
      PROVE  IInv'
  <2> DEFINE rows == RowsOf(ScopesOfBatch[worker[w].at])
             t(found) == [pc |-> "write", at |-> worker[w].at,
                          season |-> worker[w].season, data |-> worker[w].data,
                          existing |-> found]
  <2>1. PICK found \in IF rows = {} THEN {{}} ELSE {{row} : row \in rows} :
          Goto(w, t(found))
    BY <1>5 DEF find
  <2>2. found \subseteq rows /\ (found = {} => rows = {})
    BY <2>1
  <2>3. /\ t(found).pc = "write"
        /\ t(found).at = worker[w].at
        /\ t(found).existing = found
        /\ t(found).data = worker[w].data
    OBVIOUS
  <2>4. Placed(t(found)) /\ Carries(t(found))
    BY <1>1, <1>5, <2>2, <2>3 DEF Placed, Carries, find
  <2>5. t(found).existing = {} => RowsOf(ScopesOfBatch[t(found).at]) = {}
    BY <2>2, <2>3
  <2> HIDE DEF t
  <2>6. QED
    BY <1>2, <2>1, <2>4, <2>5, AtWork, GotoKeeps
<1>6. QED
  BY <1>3, <1>4, <1>5

-----------------------------------------------------------------------------
(* The write of a row                                                      *)

LEMMA UpsertKeeps ==
  ASSUME IInv, NEW w \in Worker, upsertRow(w)
  PROVE  IInv'
<1> DEFINE t == worker[w]
           scope == ScopesOfBatch[t.at]
           row == UpsertedRow(t)
<1>1. /\ t.pc = "write"
      /\ t.at \in DOMAIN ScopesOfBatch
      /\ scope \in Scope
      /\ t.data \in seen[scope]
      /\ t.existing \subseteq RowsOf(scope)
  BY ScopesListed DEF upsertRow, IInv, WorkersSound, Placed, Carries
<1>2. /\ DOMAIN summaries' = DOMAIN summaries \cup {row}
      /\ summaries'[row].data = t.data
      /\ \A a \in DOMAIN summaries \ {row} : summaries'[a] = summaries[a]
  BY DEF upsertRow, DataToStore
<1>3. row[1] = scope
  <2>1. CASE t.existing # {}
    BY <2>1, <1>1 DEF UpsertedRow, RowsOf
  <2>2. CASE t.existing = {}
    BY <2>2 DEF UpsertedRow
  <2>3. QED
    BY <2>1, <2>2
<1>4. \/ row \in DOMAIN summaries
      \/ /\ t.existing = {}
         /\ scope # Null => RowsOf(scope) = {}
  <2>1. CASE t.existing # {}
    BY <2>1, <1>1 DEF UpsertedRow, RowsOf
  <2>2. CASE t.existing = {}
    BY <2>2 DEF upsertRow, UniqueViolation
  <2>3. QED
    BY <2>1, <2>2
<1>5. /\ worker' = [worker EXCEPT ![w] = NextRow(t)]
      /\ UNCHANGED <<db, seen, overlapped>>
  BY DEF upsertRow, Goto
<1>6. /\ Placed(NextRow(t))
      /\ NextRow(t).pc \notin {"find", "write"}
  <2>1. CASE t.at = Len(ScopesOfBatch)
    BY <2>1 DEF NextRow, Idle, Placed
  <2>2. CASE t.at # Len(ScopesOfBatch)
    <3>1. t.at + 1 \in DOMAIN ScopesOfBatch
      BY <2>2, <1>1, ScopesListed
    <3>2. QED
      BY <2>2, <3>1 DEF NextRow, Placed
  <2>3. QED
    BY <2>1, <2>2
<1> HIDE DEF row, t
<1>7. \A v \in Worker : worker'[v] = IF v = w THEN NextRow(t) ELSE worker[v]
  BY <1>5 DEF IInv, WorkersSound
<1>8. WorkersSound'
  <2>1. ASSUME NEW v \in Worker
        PROVE  Placed(worker[v])' /\ Carries(worker[v])'
    <3>1. CASE v = w
      BY <3>1, <1>6, <1>7 DEF Placed, Carries
    <3>2. CASE v # w
      <4>1. worker'[v] = worker[v] /\ Placed(worker[v]) /\ Carries(worker[v])
        BY <3>2, <1>7 DEF IInv, WorkersSound
      <4>2. QED
        BY <4>1, <1>2, <1>5 DEF Placed, Carries, RowsOf
    <3>3. QED
      BY <3>1, <3>2
  <2>2. QED
    BY <2>1, <1>5 DEF IInv, WorkersSound
<1>9. PresentSeen'
  BY <1>5 DEF IInv, PresentSeen
<1>10. RowsNamed'
  BY <1>1, <1>2, <1>3, FS_AddElement DEF IInv, RowsNamed
<1>11. SummaryWasTrue'
  BY <1>1, <1>2, <1>3, <1>5 DEF IInv, SummaryWasTrue
<1>12. ASSUME NEW d, OneRow(d), d # scope \/ row \in DOMAIN summaries \/ RowsOf(scope) = {}
       PROVE  OneRow(d)'
  <2>1. \A a \in DOMAIN summaries' : a \in DOMAIN summaries \/ a = row
    BY <1>2
  <2>2. QED
    BY <1>12, <1>3, <2>1 DEF OneRow, RowsOf
<1>13. OneRowPerDepartment'
  <2>1. ASSUME NEW d \in Department
        PROVE  OneRow(d)'
    <3>1. d # Null /\ OneRow(d)
      BY BatchAssumption DEF IInv, OneRowPerDepartment
    <3>2. QED
      BY <3>1, <1>4, <1>12
  <2>2. QED
    BY <2>1 DEF OneRowPerDepartment
<1>14. AloneSound'
  <2> SUFFICES ASSUME ~overlapped
               PROVE  AloneSound'
    BY <1>5 DEF AloneSound
  <2>1. \A v \in Worker \ {w} : worker[v] = Idle
    BY <1>1 DEF IInv, AloneSound, Busy, Idle, t
  <2>2. t.existing = {} => RowsOf(scope) = {}
    BY <1>1 DEF IInv, AloneSound, t
  <2>3. OneRow(Null)'
    BY <2>2, <1>4, <1>12 DEF IInv, AloneSound
  <2>4. \A v \in Worker \ {w} : worker'[v] = Idle
    BY <2>1, <1>7
  <2>5. \A v \in Worker : worker'[v].pc # "write"
    BY <2>4, <1>6, <1>7 DEF Idle
  <2>6. QED
    BY <2>3, <2>4, <2>5 DEF AloneSound, Busy
<1>15. QED
  BY <1>8, <1>9, <1>10, <1>11, <1>13, <1>14 DEF IInv

-----------------------------------------------------------------------------

LEMMA NextKeeps == IInv /\ [Next]_vars => IInv'
<1> SUFFICES ASSUME IInv, [Next]_vars
             PROVE  IInv'
  OBVIOUS
<1>1. ASSUME NEW w \in Worker,
             \/ process(w) \/ computeSeasonAggregate(w) \/ aggregate(w) \/ find(w)
             \/ upsertRow(w) \/ fail(w)
      PROVE  IInv'
  BY <1>1, ProcessKeeps, ReadsKeep, UpsertKeeps, FailKeeps
<1>2. QED
  BY <1>1, NoRecompute, CrashKeeps DEF Next

LEMMA Invariance == Spec => []IInv
BY InitIInv, NextKeeps, PTL DEF Spec

(* A stored summary, the numbers of a scope together, is what that scope   *)
(* was at one moment, for any number of writes between the statements of   *)
(* any number of recomputes (summary-recompute.service.ts:31-108).         *)
THEOREM SummariesWereTrue == Spec => []SummaryWasTrue
<1>1. IInv => SummaryWasTrue
  BY DEF IInv
<1>2. QED
  BY <1>1, Invariance, PTL

(* A department has one row, and the batch as a whole has one until two    *)
(* recomputes overlap (summary-recompute.service.ts:97-108).               *)
THEOREM RowPerScope == Spec => []OneRowPerScope
<1>1. ASSUME NEW scope, OneRow(scope)
      PROVE  Cardinality(RowsOf(scope)) <= 1
  <2>1. CASE RowsOf(scope) = {}
    BY <2>1, FS_EmptySet
  <2>2. ASSUME NEW a \in RowsOf(scope)
        PROVE  Cardinality(RowsOf(scope)) <= 1
    <3>1. RowsOf(scope) = {a}
      BY <1>1 DEF OneRow
    <3>2. Cardinality({a}) = 1
      BY FS_Singleton
    <3>3. QED
      BY <3>1, <3>2
  <2>3. QED
    BY <2>1, <2>2
<1>2. IInv => OneRowPerScope
  BY <1>1 DEF IInv, OneRowPerScope, OneRowPerDepartment, AloneSound, Scope
<1>3. QED
  BY <1>2, Invariance, PTL

=============================================================================

----------------------------- MODULE Analytics -----------------------------
(***************************************************************************)
(* apps/api/src/modules/analytics: from a write of the placement data to   *)
(* the number on the dashboard.  A write emits an event inside its         *)
(* transaction; the listener asks the queue for a recompute of the         *)
(* student's batch, which the queue drops while the deduplication key of an*)
(* earlier one lives; a worker aggregates the batch and each of its        *)
(* departments into placement_summaries; the dashboard polls its row with a*)
(* conditional GET.                                                        *)
(*                                                                         *)
(* Batches share nothing but the queue, so there is one.  A scope is the   *)
(* batch (Null, departmentId null in the code) or a department of it.      *)
(* READ COMMITTED: each statement of a transaction is a step, its write and*)
(* its commit are one.                                                     *)
(***************************************************************************)
EXTENDS Summaries, TLC

CONSTANTS Worker,
          MaxChanges,           \* bound: writes
          MaxCrashes            \* bound: crashes of the API process

ASSUME BoundsAssumption == MaxChanges \in Nat /\ MaxCrashes \in Nat
ASSUME BatchAssumption ==
  /\ IsFiniteSet(Student)
  /\ DepartmentOf \in [Student -> Department]
  /\ Null \notin Department

VARIABLES
  db,           \* students with their placement status, application, verdict, offer
  activeDrives, \* drives SCHEDULED or ONGOING
  tx,           \* a writing transaction that has emitted its event, or Null
  events,       \* events the listener has not handled
  dedupKey,     \* Redis: the key of the batch lives
  jobs,         \* Redis: recompute jobs waiting or delayed
  worker,       \* what each worker does
  summaries,    \* placement_summaries: row to its columns
  clock,        \* the last computedAt given out
  shown,        \* the dashboard: the summary it holds and its ETag
  pending,      \* history: a change no recompute has begun since, through no job
  overlapped,   \* history: two recomputes of the batch have overlapped
  seen,         \* history: the aggregates each scope has had
  changes, crashes

vars == <<db, activeDrives, tx, events, dedupKey, jobs, worker, summaries, clock,
          shown, pending, overlapped, seen, changes, crashes>>

Scope == Department \cup {Null}

(* The departments with a student in the batch, the batch's own row first. *)
ScopesOfBatch == <<Null>> \o
  CHOOSE q \in [1..Cardinality({DepartmentOf[s] : s \in Student}) -> Department] :
    {q[i] : i \in DOMAIN q} = {DepartmentOf[s] : s \in Student}

RowsOf(scope) == {row \in DOMAIN summaries : row[1] = scope}

Idle == [pc |-> "idle"]

AtFirst == [s \in Student |->
  [placementStatus |-> "UNPLACED", applications |-> {"APPLIED"}, eligible |-> TRUE,
   offers |-> {[status |-> "EXTENDED", ctc |-> 1]}]]

Init ==
  /\ db = AtFirst
  /\ activeDrives = 0
  /\ tx = Null /\ events = 0
  /\ dedupKey = FALSE /\ jobs = 0
  /\ worker = [w \in Worker |-> Idle]
  /\ summaries = <<>> /\ clock = 0
  /\ shown = [etag |-> 0, body |-> Null]
  /\ pending = FALSE /\ overlapped = FALSE
  /\ seen = [scope \in Scope |-> {computeScopedAggregate(AtFirst, scope)}]
  /\ changes = 0 /\ crashes = 0

-----------------------------------------------------------------------------

(* What a write that emits an event may make of a student's row.  All such *)
(* writes look the same from here, so the offers stand for the lot: one is *)
(* accepted, one accepted is revoked.                                      *)
EmittingWrites(row) ==
  LET Become(offer, status) ==
        {[row EXCEPT !.offers = {[status |-> offer, ctc |-> 1]},
                     !.placementStatus = status]}
      Some(status) == \E o \in row.offers : o.status = status
  IN  CASE Some("EXTENDED") -> Become("ACCEPTED", "PLACED")
        [] Some("ACCEPTED") -> Become("REVOKED", "UNPLACED")
        [] OTHER -> {}

(* The aggregates of the data a step leaves, added to what has been seen.  *)
See(rows) == [scope \in Scope |-> seen[scope] \cup {computeScopedAggregate(rows, scope)}]

(* The event is emitted as the last statement of the transaction, before   *)
(* its commit.                                                             *)
write(s, row) ==
  /\ tx = Null
  /\ changes < MaxChanges
  /\ row \in EmittingWrites(db[s])
  /\ tx' = [student |-> s, row |-> row]
  /\ events' = events + 1
  /\ changes' = changes + 1
  /\ UNCHANGED <<db, activeDrives, dedupKey, jobs, worker, summaries, clock, shown,
                 pending, overlapped, seen, crashes>>

(* Nothing is on its way that will read the change: lost, for now.         *)
commit ==
  /\ tx # Null
  /\ db' = [db EXCEPT ![tx.student].offers = tx.row.offers,
                       ![tx.student].placementStatus = tx.row.placementStatus]
  /\ seen' = See(db')
  /\ pending' = (pending \/ (events = 0 /\ jobs = 0))
  /\ tx' = Null
  /\ UNCHANGED <<activeDrives, events, dedupKey, jobs, worker, summaries, clock,
                 shown, overlapped, changes, crashes>>

(* The event is out, and the change is not.                                *)
rollback ==
  /\ tx # Null
  /\ tx' = Null
  /\ UNCHANGED <<db, activeDrives, events, dedupKey, jobs, worker, summaries, clock,
                 shown, pending, overlapped, seen, changes, crashes>>

(* shortlist() and a drive's updateStatus() emit nothing.                  *)
shortlistSilently(s) ==
  /\ changes < MaxChanges
  /\ db[s].applications = {"APPLIED"}
  /\ db' = [db EXCEPT ![s].applications = {"SHORTLISTED"}]
  /\ seen' = See(db')
  /\ pending' = TRUE
  /\ changes' = changes + 1
  /\ UNCHANGED <<activeDrives, tx, events, dedupKey, jobs, worker, summaries, clock,
                 shown, overlapped, crashes>>

updateDriveStatus ==
  /\ changes < MaxChanges
  /\ activeDrives' = 1 - activeDrives
  /\ pending' = TRUE
  /\ changes' = changes + 1
  /\ UNCHANGED <<db, tx, events, dedupKey, jobs, worker, summaries, clock, shown,
                 overlapped, seen, crashes>>

-----------------------------------------------------------------------------

(* The listener resolves the batch and calls scheduleRecompute(): a job, and*)
(* the key for DEBOUNCE_TTL_MS; nothing while the key lives.               *)
onEvent ==
  /\ events > 0
  /\ events' = events - 1
  /\ IF dedupKey
       THEN /\ pending' = (pending \/ jobs = 0)
            /\ UNCHANGED <<dedupKey, jobs>>
       ELSE /\ dedupKey' = TRUE
            /\ jobs' = jobs + 1
            /\ UNCHANGED pending
  /\ UNCHANGED <<db, activeDrives, tx, worker, summaries, clock, shown, overlapped,
                 seen, changes, crashes>>

(* DEBOUNCE_TTL_MS run out, whether or not the job has.                    *)
expireKey ==
  /\ dedupKey
  /\ dedupKey' = FALSE
  /\ UNCHANGED <<db, activeDrives, tx, events, jobs, worker, summaries, clock, shown,
                 pending, overlapped, seen, changes, crashes>>

-----------------------------------------------------------------------------

Goto(w, state) ==
  /\ worker' = [worker EXCEPT ![w] = state]
  /\ UNCHANGED <<db, activeDrives, tx, events, dedupKey, shown, seen, changes, crashes>>

(* process(): the job is the worker's from here on.                        *)
process(w) ==
  /\ worker[w] = Idle
  /\ jobs > 0
  /\ jobs' = jobs - 1
  /\ pending' = FALSE
  /\ overlapped' = \/ \E v \in Worker : worker[v] # Idle
                   \/ \E scope \in Scope : Cardinality(RowsOf(scope)) > 1
  /\ Goto(w, [pc |-> "season"])
  /\ UNCHANGED <<summaries, clock>>

computeSeasonAggregate(w) ==
  /\ worker[w].pc = "season"
  /\ Goto(w, [pc |-> "aggregate", at |-> 1, season |-> activeDrives])
  /\ UNCHANGED <<jobs, pending, overlapped, summaries, clock>>

(* upsertRow() in three statements.                                        *)
aggregate(w) ==
  LET t == worker[w]
  IN  /\ t.pc = "aggregate"
      /\ Goto(w, [pc |-> "find", at |-> t.at, season |-> t.season,
                  data |-> computeScopedAggregate(db, ScopesOfBatch[t.at])])
      /\ UNCHANGED <<jobs, pending, overlapped, summaries, clock>>

(* existing holds the row found, if any.                                   *)
find(w) ==
  LET t == worker[w]
      rows == RowsOf(ScopesOfBatch[t.at])
  IN  /\ t.pc = "find"
      /\ \E found \in IF rows = {} THEN {{}} ELSE {{row} : row \in rows} :
           Goto(w, [pc |-> "write", at |-> t.at, season |-> t.season,
                    data |-> t.data, existing |-> found])
      /\ UNCHANGED <<jobs, pending, overlapped, summaries, clock>>

(* The unique index takes null departments for different from each other.  *)
UniqueViolation(t) ==
  /\ t.existing = {}
  /\ ScopesOfBatch[t.at] # Null
  /\ RowsOf(ScopesOfBatch[t.at]) # {}

(* Mutant: the departments are left out. *)
BatchOnly(t) == Idle

(* After a row comes the next department's, in a transaction of its own.   *)
NextRow(t) ==
  IF t.at = Len(ScopesOfBatch) THEN Idle
  ELSE [pc |-> "aggregate", at |-> t.at + 1, season |-> t.season]

(* Mutant: a row is added without a search. *)
AlwaysCreate(t) ==
  <<ScopesOfBatch[t.at], Cardinality(RowsOf(ScopesOfBatch[t.at])) + 1>>

(* The row of the scope: the one found, or a new one.                      *)
UpsertedRow(t) ==
  IF t.existing # {} THEN CHOOSE row \in t.existing : TRUE
  ELSE <<ScopesOfBatch[t.at], Cardinality(RowsOf(ScopesOfBatch[t.at])) + 1>>

(* Mutant: the offers are queried again for the CTC columns. *)
OffersReadAgain(t) ==
  [t.data EXCEPT !.accepted =
     AcceptedOffers(db, {s \in Student : InScope(s, ScopesOfBatch[t.at])})]

DataToStore(t) == t.data

upsertRow(w) ==
  LET t == worker[w]
  IN  /\ t.pc = "write"
      /\ ~UniqueViolation(t)
      /\ summaries' = [row \in DOMAIN summaries \cup {UpsertedRow(t)} |->
           IF row = UpsertedRow(t)
             THEN [data |-> DataToStore(t), season |-> t.season, computedAt |-> clock + 1]
             ELSE summaries[row]]
      /\ clock' = clock + 1
      /\ Goto(w, NextRow(t))
      /\ UNCHANGED <<jobs, pending, overlapped>>

(* A transaction of the job fails, on the unique index or at its timeout,  *)
(* and the job with it; it has no further attempts.                        *)
fail(w) ==
  /\ worker[w] # Idle
  /\ Goto(w, Idle)
  /\ pending' = TRUE
  /\ UNCHANGED <<jobs, overlapped, summaries, clock>>

(* The API process restarts.  Redis keeps the queue and hands the jobs that*)
(* were running out again; what was in memory is gone.                     *)
crash ==
  /\ crashes < MaxCrashes
  /\ crashes' = crashes + 1
  /\ tx' = Null
  /\ events' = 0
  /\ pending' = (pending \/ events > 0)
  /\ jobs' = jobs + Cardinality({w \in Worker : worker[w] # Idle})
  /\ worker' = [w \in Worker |-> Idle]
  /\ UNCHANGED <<db, activeDrives, dedupKey, summaries, clock, shown, overlapped, seen,
                 changes>>

-----------------------------------------------------------------------------

ETag(row) == row.computedAt

(* The dashboard's refetch: getSummary() finds a row, and sendWithEtag()   *)
(* answers 304 without a body when the tag is the one the client sent.     *)
poll ==
  /\ \E row \in RowsOf(Null) :
       LET tag == ETag(summaries[row])
       IN  /\ tag # shown.etag
           /\ shown' = [etag |-> tag, body |-> [data |-> summaries[row].data,
                                                season |-> summaries[row].season]]
  /\ UNCHANGED <<db, activeDrives, tx, events, dedupKey, jobs, worker, summaries,
                 clock, pending, overlapped, seen, changes, crashes>>

Next ==
  \/ \E s \in Student : shortlistSilently(s) \/ \E row \in EmittingWrites(db[s]) : write(s, row)
  \/ commit \/ rollback \/ updateDriveStatus
  \/ onEvent \/ expireKey
  \/ \E w \in Worker :
       \/ process(w) \/ computeSeasonAggregate(w) \/ aggregate(w) \/ find(w)
       \/ upsertRow(w) \/ fail(w)
  \/ crash \/ poll

Spec == Init /\ [][Next]_vars

(* Transactions end, the listener and Redis answer, a worker that is there *)
(* works, and the dashboard refetches.                                     *)
Fairness ==
  /\ WF_vars(commit \/ rollback)
  /\ WF_vars(onEvent) /\ WF_vars(expireKey) /\ WF_vars(poll)
  /\ \A w \in Worker :
       /\ WF_vars(process(w)) /\ WF_vars(computeSeasonAggregate(w))
       /\ WF_vars(aggregate(w)) /\ WF_vars(find(w))
       /\ WF_vars(upsertRow(w) \/ fail(w))

FairSpec == Spec /\ Fairness

-----------------------------------------------------------------------------

(* Every stored row is what its scope really was at one moment, although   *)
(* writes commit between a job's statements and two jobs may run at once   *)
(* (summary-recompute.service.ts:31-43, one statement per row).            *)
SummaryWasTrue ==
  \A row \in DOMAIN summaries :
    summaries[row].data \in seen[row[1]]

(* One row per scope.  For a department the unique index sees to it; for   *)
(* the batch, whose department is null, the search before the insert does, *)
(* until two recomputes overlap (summary-recompute.service.ts:97-108).     *)
OneRowPerScope ==
  \A scope \in Scope :
    \/ Cardinality(RowsOf(scope)) <= 1
    \/ scope = Null /\ overlapped

UpToDate(scope) ==
  LET now == computeScopedAggregate(db, scope)
  IN  IF RowsOf(scope) = {} THEN now = computeScopedAggregate(AtFirst, scope)
      ELSE \A row \in RowsOf(scope) :
             summaries[row].data = now /\ summaries[row].season = activeDrives

Settled ==
  /\ \A i \in DOMAIN ScopesOfBatch : UpToDate(ScopesOfBatch[i])
  /\ RowsOf(Null) # {} => shown.body = [data |-> computeScopedAggregate(db, Null),
                                        season |-> activeDrives]

(* What the dashboard shows, and every row, catches up with the data once  *)
(* the writes stop, unless the last of them went unnoticed (pending): it   *)
(* emits no event, its event met a key whose job had already begun, it     *)
(* committed after its job began, its job failed, or the process restarted *)
(* with its event in memory; or recomputes overlapped (summary-recompute.  *)
(* queue.ts:12-37, summary-recompute.service.ts:40 "re-triggered by the    *)
(* next domain event anyway").                                             *)
DashboardCatchesUp == <>[](pending \/ overlapped \/ Settled)
=============================================================================

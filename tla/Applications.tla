---------------------------- MODULE Applications ----------------------------
(***************************************************************************)
(* Drives, their round pipelines and the applications of students to them  *)
(* (apps/api/src/modules/drives, apps/api/src/modules/applications), under *)
(* concurrent requests.                                                    *)
(*                                                                         *)
(* No handler takes a lock or reads a row a second time: each reads in one *)
(* step, checks what it read, and writes in a later step (READ COMMITTED). *)
(* apply() and a proposed round use several transactions, the others one;  *)
(* either way the step that writes is the one that commits.                *)
(*                                                                         *)
(* A round is its position: (drive, position) is unique.  An application   *)
(* is its student and drive, which are unique too.  Whether a student      *)
(* meets the criteria of a drive is a choice here, except for being        *)
(* debarred: apply() and the evaluator both look at that.                  *)
(***************************************************************************)
EXTENDS Integers

CONSTANTS
  Student, Drive, Request, None,
  Position,                     \* positions rounds are created at
  SetStatuses                   \* statuses a drive is given

DriveStatus == {"DRAFT", "SCHEDULED", "ONGOING", "COMPLETED", "CANCELLED"}
ApplicationStatus ==
  {"APPLIED", "SHORTLISTED", "IN_ROUND", "REJECTED", "SELECTED", "WITHDRAWN"}
RoundResultStatus == {"PENDING", "PASS", "FAIL"}

OPEN_DRIVE_STATUSES == {"SCHEDULED", "ONGOING"}
TERMINAL_APPLICATION_STATUSES == {"SELECTED", "REJECTED", "WITHDRAWN"}

ASSUME PositionAssumption == Position \subseteq Int
ASSUME StatusAssumption == SetStatuses \subseteq DriveStatus
ASSUME NoneAssumption ==
  /\ None \notin Student /\ None \notin Drive
  /\ None \notin Position /\ None \notin RoundResultStatus

Application == Student \X Drive

VARIABLES
  driveStatus, rounds,          \* drives: status, positions of the rounds
  applicationStatus,            \* applications
  result,                       \* round_results: by application and position
  debarred,                     \* students whose placement_status is DEBARRED
  audited,                      \* audit_events: blocked attempts to apply
  tx,                           \* what the request in progress has read
  crossed                       \* auxiliary: what was written by one request
                                \* while another acted on an earlier reading

drives == <<driveStatus, rounds>>
vars == <<drives, applicationStatus, result, debarred, audited, tx, crossed>>

Idle == [pc |-> "idle", op |-> None, drive |-> None, student |-> None,
         position |-> None, recorded |-> None, next |-> None]

TxOf(pc, op, d, s, p, rec) ==
  [pc |-> pc, op |-> op, drive |-> d, student |-> s, position |-> p,
   recorded |-> rec, next |-> None]

OpenTx ==
  [ pc : {"block", "evaluate", "upsert", "commit"},
    op : {"apply", "withdraw", "shortlist", "record", "round"},
    drive : Drive, student : Student \cup {None},
    position : Position \cup {None},
    recorded : RoundResultStatus \cup {None},
    next : ApplicationStatus \cup {None} ]

TableTypes ==
  /\ driveStatus \in [Drive -> DriveStatus \cup {"ABSENT"}]
  /\ rounds \in [Drive -> SUBSET Position]
  /\ applicationStatus \in [Application -> ApplicationStatus \cup {"ABSENT"}]
  /\ result \in [Application -> [Position -> RoundResultStatus \cup {None}]]
  /\ debarred \subseteq Student
  /\ audited \subseteq Application
  /\ tx \in [Request -> OpenTx \cup {Idle}]

TypeOK == TableTypes /\ crossed \subseteq Application \cup Drive

Init ==
  /\ driveStatus = [d \in Drive |-> "ABSENT"]
  /\ rounds = [d \in Drive |-> {}]
  /\ applicationStatus = [a \in Application |-> "ABSENT"]
  /\ result = [a \in Application |-> [p \in Position |-> None]]
  /\ debarred = {}
  /\ audited = {}
  /\ tx = [r \in Request |-> Idle]
  /\ crossed = {}

-----------------------------------------------------------------------------
(* Steps of a request.                                                     *)

Begin(r, t) ==
  /\ tx[r] = Idle
  /\ tx' = [tx EXCEPT ![r] = t]
  /\ UNCHANGED <<drives, applicationStatus, result, debarred, audited, crossed>>

End(r) == tx' = [tx EXCEPT ![r] = Idle]

App(r) == <<tx[r].student, tx[r].drive>>

(* The requests in Q go on with what they have read before this write.     *)
Cross(Q) ==
  crossed' = crossed \cup
    {IF tx[q].op = "round" THEN tx[q].drive ELSE App(q) : q \in Q}

-----------------------------------------------------------------------------
(* Drives.                                                                 *)

(* A proposed drive lands in DRAFT whatever status was asked for.          *)
createDrive(r, scope, d, asked) ==
  /\ tx[r] = Idle /\ driveStatus[d] = "ABSENT"
  /\ driveStatus' = [driveStatus EXCEPT ![d] =
                       IF scope = "PROPOSE" THEN "DRAFT" ELSE asked]
  /\ UNCHANGED <<rounds, applicationStatus, result, debarred, audited, tx, crossed>>

updateStatus(r, d, s) ==
  /\ tx[r] = Idle /\ driveStatus[d] # "ABSENT"
  /\ driveStatus' = [driveStatus EXCEPT ![d] = s]
  /\ Cross({q \in Request : tx[q].drive = d /\ tx[q].op \in {"apply", "round"}})
  /\ UNCHANGED <<rounds, applicationStatus, result, debarred, audited, tx>>

(* Mutant: anyone may propose a round at any time. *)
ProposeAnyRound(r, d, p) ==
  /\ driveStatus[d] # "ABSENT"
  /\ Begin(r, TxOf("commit", "round", d, None, p, None))

(* addRound by a coordinator: the DRAFT check is a transaction of its own. *)
proposeRound(r, d, p) ==
  /\ driveStatus[d] = "DRAFT"
  /\ Begin(r, TxOf("commit", "round", d, None, p, None))

(* Requests that have read the rounds to see which one is the last.        *)
Deriving(d) ==
  {q \in Request : tx[q].drive = d /\ tx[q].op = "record" /\ tx[q].pc = "commit"}

(* A second round at a position is refused by the unique index.            *)
proposeRoundCommit(r) ==
  /\ tx[r].pc = "commit" /\ tx[r].op = "round"
  /\ rounds' = [rounds EXCEPT ![tx[r].drive] = @ \cup {tx[r].position}]
  /\ Cross(Deriving(tx[r].drive))
  /\ End(r)
  /\ UNCHANGED <<driveStatus, applicationStatus, result, debarred, audited>>

createRound(r, d, p) ==
  /\ tx[r] = Idle /\ driveStatus[d] # "ABSENT" /\ p \notin rounds[d]
  /\ rounds' = [rounds EXCEPT ![d] = @ \cup {p}]
  /\ Cross(Deriving(d))
  /\ UNCHANGED <<driveStatus, applicationStatus, result, debarred, audited, tx>>

-----------------------------------------------------------------------------
(* apply().                                                                *)

(* The student and the drive are read; a debarred student's attempt is on  *)
(* its way to the audit log, one for a drive that is not open is refused.  *)
apply(r, s, d) ==
  /\ driveStatus[d] # "ABSENT"
  /\ \/ s \in debarred /\ Begin(r, TxOf("block", "apply", d, s, None, None))
     \/ /\ s \notin debarred /\ driveStatus[d] \in OPEN_DRIVE_STATUSES
        /\ Begin(r, TxOf("evaluate", "apply", d, s, None, None))

auditBlocked(r) ==
  /\ tx[r].pc = "block"
  /\ audited' = audited \cup {App(r)}
  /\ End(r)
  /\ UNCHANGED <<drives, applicationStatus, result, debarred, crossed>>

(* Mutant: the evaluator does not look at the placement status. *)
EvaluateAnyone(r) ==
  /\ tx[r].pc = "evaluate"
  /\ tx' = [tx EXCEPT ![r].pc = "commit"] \/ End(r)
  /\ UNCHANGED <<drives, applicationStatus, result, debarred, audited, crossed>>

(* EligibilityService.evaluate reads the student afresh: it refuses a      *)
(* debarred one, and any other who misses a criterion.                     *)
evaluate(r) ==
  /\ tx[r].pc = "evaluate"
  /\ \/ tx[r].student \notin debarred /\ tx' = [tx EXCEPT ![r].pc = "commit"]
     \/ End(r)
  /\ UNCHANGED <<drives, applicationStatus, result, debarred, audited, crossed>>

(* The unique index refuses a second application of the student (P2002).   *)
applyCommit(r) ==
  /\ tx[r].pc = "commit" /\ tx[r].op = "apply"
  /\ applicationStatus' =
       [applicationStatus EXCEPT ![App(r)] = IF @ = "ABSENT" THEN "APPLIED" ELSE @]
  /\ End(r)
  /\ UNCHANGED <<drives, result, debarred, audited, crossed>>

-----------------------------------------------------------------------------
(* The life of an application.                                             *)

withdraw(r, s, d) ==
  /\ applicationStatus[<<s, d>>] \notin TERMINAL_APPLICATION_STATUSES \cup {"ABSENT"}
  /\ Begin(r, TxOf("commit", "withdraw", d, s, None, None))

shortlist(r, s, d) ==
  /\ applicationStatus[<<s, d>>] = "APPLIED"
  /\ Begin(r, TxOf("commit", "shortlist", d, s, None, None))

(* Other requests that have read this one's application.                   *)
Readers(r) ==
  {q \in Request \ {r} : App(q) = App(r) /\ tx[q].op \in {"withdraw", "shortlist", "record"}}

SetStatus(r, op, s) ==
  /\ tx[r].pc = "commit" /\ tx[r].op = op
  /\ applicationStatus' = [applicationStatus EXCEPT ![App(r)] = s]
  /\ End(r)
  /\ Cross(Readers(r))
  /\ UNCHANGED <<drives, result, debarred, audited>>

withdrawCommit(r) == SetStatus(r, "withdraw", "WITHDRAWN")

shortlistCommit(r) == SetStatus(r, "shortlist", "SHORTLISTED")

(* Mutant: a withdrawn application takes results too. *)
RecordWithdrawn(r, s, d, p, rec) ==
  /\ applicationStatus[<<s, d>>] # "ABSENT"
  /\ p \in rounds[d]
  /\ Begin(r, TxOf("upsert", "record", d, s, p, rec))

recordRoundResult(r, s, d, p, rec) ==
  /\ applicationStatus[<<s, d>>] \notin {"ABSENT", "WITHDRAWN"}
  /\ p \in rounds[d]
  /\ Begin(r, TxOf("upsert", "record", d, s, p, rec))

deriveApplicationStatusFromRoundResult(rec, p, positions) ==
  IF rec = "FAIL" THEN "REJECTED"
  ELSE IF rec = "PASS" /\ \A q \in positions : q <= p THEN "SELECTED"
  ELSE "IN_ROUND"

(* The upsert holds the result row until the commit; the rounds are read   *)
(* right after it.                                                         *)
upsertResult(r) ==
  /\ tx[r].pc = "upsert"
  /\ \A q \in Request \ {r} :
       ~ ( /\ tx[q].op = "record" /\ tx[q].pc = "commit"
           /\ App(q) = App(r) /\ tx[q].position = tx[r].position )
  /\ tx' = [tx EXCEPT ![r].pc = "commit",
                      ![r].next = deriveApplicationStatusFromRoundResult(
                        tx[r].recorded, tx[r].position, rounds[tx[r].drive])]
  /\ UNCHANGED <<drives, applicationStatus, result, debarred, audited, crossed>>

(* Mutant: the update half of the upsert leaves the status out. *)
RecordKeepsFirst(r) ==
  /\ tx[r].pc = "commit" /\ tx[r].op = "record"
  /\ result' = [result EXCEPT ![App(r)][tx[r].position] =
                  IF @ = None THEN tx[r].recorded ELSE @]
  /\ applicationStatus' = [applicationStatus EXCEPT ![App(r)] = tx[r].next]
  /\ End(r)
  /\ Cross(Readers(r))
  /\ UNCHANGED <<drives, debarred, audited>>

recordCommit(r) ==
  /\ tx[r].pc = "commit" /\ tx[r].op = "record"
  /\ result' = [result EXCEPT ![App(r)][tx[r].position] = tx[r].recorded]
  /\ applicationStatus' = [applicationStatus EXCEPT ![App(r)] = tx[r].next]
  /\ End(r)
  /\ Cross(Readers(r))
  /\ UNCHANGED <<drives, debarred, audited>>

-----------------------------------------------------------------------------

(* The offer handlers write placement_status: reject() debars a student,   *)
(* accept() and revoke() overwrite it.                                     *)
setPlacement(r, s) ==
  /\ tx[r] = Idle
  /\ \E D \in {debarred \cup {s}, debarred \ {s}} : debarred' = D
  /\ Cross({q \in Request : tx[q].student = s /\ tx[q].op = "apply" /\ tx[q].pc = "commit"})
  /\ UNCHANGED <<drives, applicationStatus, result, audited, tx>>

(* A request fails between two of its steps; what it committed stays.      *)
abort(r) ==
  /\ tx[r] # Idle
  /\ End(r)
  /\ UNCHANGED <<drives, applicationStatus, result, debarred, audited, crossed>>

ManageDrives(r) ==
  \E d \in Drive :
    \/ \E scope \in {"PROPOSE", "FULL"}, s \in SetStatuses :
         createDrive(r, scope, d, s)
    \/ \E s \in SetStatuses : updateStatus(r, d, s)
    \/ \E p \in Position : proposeRound(r, d, p) \/ createRound(r, d, p)

ManageApplications(r) ==
  \E s \in Student, d \in Drive :
    \/ apply(r, s, d) \/ withdraw(r, s, d) \/ shortlist(r, s, d)
    \/ \E p \in Position, rec \in RoundResultStatus :
         recordRoundResult(r, s, d, p, rec)

Step(r) ==
  \/ proposeRoundCommit(r) \/ auditBlocked(r) \/ evaluate(r) \/ applyCommit(r)
  \/ withdrawCommit(r) \/ shortlistCommit(r) \/ upsertResult(r) \/ recordCommit(r)

Next ==
  \E r \in Request :
    \/ ManageDrives(r) \/ ManageApplications(r) \/ Step(r) \/ abort(r)
    \/ \E s \in Student : setPlacement(r, s)

Spec == Init /\ [][Next]_vars

-----------------------------------------------------------------------------
(* What holds whatever overlaps.                                           *)

Recorded(a, statuses) == \E p \in Position : result[a][p] \in statuses

(* The status of an application that is in its rounds is the status of     *)
(* some result on record: recordRoundResult (applications.service.ts       *)
(* :341-375) keeps the two tables in step when results of several rounds   *)
(* are recorded, corrected and refused at once.                            *)
StatusExplained ==
  \A a \in Application :
    /\ applicationStatus[a] = "REJECTED" => Recorded(a, {"FAIL"})
    /\ applicationStatus[a] = "SELECTED" => Recorded(a, {"PASS"})
    /\ applicationStatus[a] = "IN_ROUND" => Recorded(a, {"PASS", "PENDING"})

(* Applying twice, also at the same time, never resets an application that *)
(* has moved on (applications.service.ts:174-202).                         *)
NeverReapplied ==
  [][ \A a \in Application :
        applicationStatus'[a] = "APPLIED" =>
          applicationStatus[a] \in {"ABSENT", "APPLIED"} ]_vars

(* Results belong to rounds of the application's own drive and to          *)
(* applications that exist.                                                *)
ResultsHaveRounds ==
  \A a \in Application, p \in Position :
    result[a][p] # None => p \in rounds[a[2]] /\ applicationStatus[a] # "ABSENT"

(* What an open request works on exists, and what it is about to set       *)
(* follows from what it records.                                           *)
TxSound(t) ==
  /\ t.pc \in {"block", "evaluate"} => t.op = "apply"
  /\ t.pc = "upsert" => t.op = "record"
  /\ t.op # "round" => t.student # None
  /\ t.op = "round" => t.position # None
  /\ t.op \in {"withdraw", "shortlist", "record"} =>
       applicationStatus[<<t.student, t.drive>>] # "ABSENT"
  /\ t.op = "record" =>
       /\ t.position \in rounds[t.drive] /\ t.recorded # None
       /\ t.pc = "commit" =>
            \E positions \in SUBSET Position :
              t.next = deriveApplicationStatusFromRoundResult(
                         t.recorded, t.position, positions)

TxInv == \A r \in Request : tx[r] # Idle => TxSound(tx[r])

BaseInv == TableTypes /\ TxInv /\ StatusExplained /\ ResultsHaveRounds

-----------------------------------------------------------------------------
(* What holds until a request writes by id what another one has read: the  *)
(* applications and drives that are not crossed.                           *)

(* A withdrawn application stays withdrawn (applications.service.ts:255-   *)
(* 259, 326), unless it was written between the reading and the writing of *)
(* another request on it.                                                  *)
WithdrawnStays ==
  [][ \A a \in Application :
        (applicationStatus[a] = "WITHDRAWN" /\ a \notin crossed) =>
          applicationStatus'[a] = "WITHDRAWN" ]_vars

(* An application waiting for its first round has no results, with the     *)
(* same exception: shortlisting happens "before round-progression begins"  *)
(* (applications.service.ts:274).                                          *)
NotRewound ==
  \A a \in Application :
    applicationStatus[a] \in {"APPLIED", "SHORTLISTED"} =>
      ~Recorded(a, RoundResultStatus) \/ a \in crossed

(* A decided application changes only by another result, with the same     *)
(* exception: it is not withdrawn or shortlisted any more (applications.   *)
(* service.ts:255-259, 295-299).                                           *)
DecidedOnlyByResults ==
  [][ \A a \in Application :
        (applicationStatus[a] \in {"SELECTED", "REJECTED"} /\ a \notin crossed) =>
          applicationStatus'[a] \in {"SELECTED", "REJECTED", "IN_ROUND"} ]_vars

(* Only students who are not debarred apply, and only to open drives, at   *)
(* the moment the application comes to be: what apply() (applications.     *)
(* service.ts:139-173) checked in earlier transactions fails to be true    *)
(* only if the drive's status was set during the request or the placement  *)
(* status after the evaluation.                                            *)
AppliedWhileAllowed ==
  [][ \A a \in Application \ crossed :
        (applicationStatus[a] = "ABSENT" /\ applicationStatus'[a] # "ABSENT") =>
          a[1] \notin debarred /\ driveStatus[a[2]] \in OPEN_DRIVE_STATUSES ]_vars

(* Becoming SELECTED takes a PASS in the round that is then the last one   *)
(* (applications.service.ts:362-370), unless a round was added after the   *)
(* rounds were read.                                                       *)
SelectedByLast ==
  [][ \A a \in Application \ crossed :
        (applicationStatus[a] # "SELECTED" /\ applicationStatus'[a] = "SELECTED") =>
          \E p \in rounds[a[2]] : /\ result'[a][p] = "PASS"
                                  /\ \A q \in rounds[a[2]] : q <= p ]_vars

(* An application never loses its way: the five above together.            *)
StatusHistory ==
  /\ NeverReapplied /\ WithdrawnStays /\ []NotRewound
  /\ DecidedOnlyByResults /\ SelectedByLast

(* A coordinator's round joins the pipeline only "of a drive that's still  *)
(* in DRAFT" (drives.controller.ts:147-155), unless the drive's status was *)
(* set after it was looked at.                                             *)
ProposedInDraft ==
  [][ \A r \in Request :
        (tx[r].pc = "commit" /\ tx[r].op = "round" /\ tx'[r] = Idle
         /\ rounds' # rounds) =>
          driveStatus[tx[r].drive] = "DRAFT" \/ tx[r].drive \in crossed ]_vars

(* What an open request has read is still so, unless it was crossed.       *)
Fresh(t) ==
  LET a == <<t.student, t.drive>>
  IN  /\ t.op = "round" => driveStatus[t.drive] = "DRAFT" \/ t.drive \in crossed
      /\ t.op = "apply" =>
           \/ a \in crossed
           \/ /\ t.pc # "block" => driveStatus[t.drive] \in OPEN_DRIVE_STATUSES
              /\ t.pc = "commit" => t.student \notin debarred
      /\ t.op = "withdraw" =>
           a \in crossed \/ applicationStatus[a] \notin TERMINAL_APPLICATION_STATUSES
      /\ t.op = "shortlist" => a \in crossed \/ applicationStatus[a] = "APPLIED"
      /\ t.op = "record" =>
           \/ a \in crossed
           \/ /\ applicationStatus[a] # "WITHDRAWN"
              /\ t.pc = "commit" =>
                   t.next = deriveApplicationStatusFromRoundResult(
                              t.recorded, t.position, rounds[t.drive])

FreshInv == \A r \in Request : tx[r] # Idle => Fresh(tx[r])

IInv == TypeOK /\ BaseInv /\ FreshInv /\ NotRewound

-----------------------------------------------------------------------------

(* "FAIL is always terminal (REJECTED)" (application-status.util.ts:4):    *)
(* while a FAIL is on record the application stays REJECTED.               *)
FailIsTerminal ==
  [][ \A a \in Application :
        ( applicationStatus[a] = "REJECTED"
          /\ \E p \in Position : result[a][p] = "FAIL" /\ result'[a][p] = "FAIL" )
        => applicationStatus'[a] = "REJECTED" ]_vars
=============================================================================

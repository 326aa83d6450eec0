------------------------- MODULE Applications_proofs -------------------------
(***************************************************************************)
(* Proofs about Applications, for any number of students, drives, rounds   *)
(* and requests, in two layers.  BaseInv is inductive by itself and gives  *)
(* what holds whatever overlaps.  IInv adds that what an open request has  *)
(* read is still so unless it was crossed, and gives the rest.             *)
(***************************************************************************)
EXTENDS Applications, TLAPS

-----------------------------------------------------------------------------

(* What deriveApplicationStatusFromRoundResult can return, and for which   *)
(* recorded result.                                                        *)
LEMMA DerivedStatus ==
  ASSUME NEW rec \in RoundResultStatus, NEW p, NEW positions, NEW s,
         s = deriveApplicationStatusFromRoundResult(rec, p, positions)
  PROVE  /\ s \in {"REJECTED", "SELECTED", "IN_ROUND"}
         /\ s = "REJECTED" => rec = "FAIL"
         /\ s = "SELECTED" => rec = "PASS"
         /\ s = "IN_ROUND" => rec \in {"PASS", "PENDING"}
  BY DEF deriveApplicationStatusFromRoundResult, RoundResultStatus

LEMMA OpenIsTyped ==
  ASSUME TableTypes, NEW r \in Request,
         tx[r].pc \in {"block", "evaluate", "upsert", "commit"}
  PROVE  tx[r] # Idle /\ tx[r] \in OpenTx
  BY DEF TableTypes, Idle

LEMMA EndEffect ==
  ASSUME TableTypes, NEW r \in Request, End(r)
  PROVE  /\ tx'[r] = Idle
         /\ \A q \in Request \ {r} : tx'[q] = tx[q]
         /\ tx' \in [Request -> OpenTx \cup {Idle}]
  BY DEF TableTypes, End

(* Rounds and applications are never removed, so what an open request      *)
(* relies on stays true while others commit.                               *)
LEMMA TxInvStays ==
  ASSUME BaseInv,
         \A q \in Request : tx'[q] = tx[q] \/ tx'[q] = Idle,
         \A d \in Drive : rounds[d] \subseteq rounds'[d],
         \A a \in Application :
           applicationStatus[a] # "ABSENT" => applicationStatus'[a] # "ABSENT"
  PROVE  TxInv'
<1> SUFFICES ASSUME NEW q \in Request, tx'[q] # Idle
             PROVE  TxSound(tx[q])'
  BY DEF TxInv
<1>1. tx'[q] = tx[q] /\ tx[q] \in OpenTx /\ TxSound(tx[q])
  BY DEF BaseInv, TableTypes, TxInv
<1> QED
  BY <1>1 DEF TxSound, OpenTx, Application

(* Steps that leave applications and results alone.                        *)
LEMMA TablesKept ==
  ASSUME BaseInv, UNCHANGED <<applicationStatus, result>>,
         \A d \in Drive : rounds[d] \subseteq rounds'[d]
  PROVE  StatusExplained' /\ ResultsHaveRounds'
<1>1. \A a \in Application : a[2] \in Drive
  BY DEF Application
<1> QED
  BY <1>1 DEF BaseInv, StatusExplained, ResultsHaveRounds, Recorded

LEMMA InitBase == Init => BaseInv
  BY NoneAssumption DEF Init, BaseInv, TableTypes, TxInv, StatusExplained,
     ResultsHaveRounds, Idle

-----------------------------------------------------------------------------
(* A request opens.                                                        *)

LEMMA BeginStep ==
  ASSUME BaseInv, NEW r \in Request, NEW t \in OpenTx, TxSound(t), Begin(r, t)
  PROVE  BaseInv'
<1>1. /\ tx'[r] = t /\ \A q \in Request \ {r} : tx'[q] = tx[q]
      /\ tx' \in [Request -> OpenTx \cup {Idle}]
      /\ UNCHANGED <<drives, applicationStatus, result, debarred, audited>>
  BY DEF BaseInv, TableTypes, Begin
<1>2. TableTypes'
  BY <1>1 DEF BaseInv, TableTypes, drives
<1>3. TxInv'
  BY <1>1 DEF BaseInv, TxInv, TxSound, drives
<1>4. StatusExplained' /\ ResultsHaveRounds'
  BY <1>1, TablesKept DEF drives
<1> QED
  BY <1>2, <1>3, <1>4 DEF BaseInv

LEMMA ProposeRoundStep ==
  ASSUME BaseInv, NEW r \in Request, NEW d \in Drive, NEW p \in Position,
         proposeRound(r, d, p)
  PROVE  BaseInv'
<1> DEFINE t == TxOf("commit", "round", d, None, p, None)
<1>1. t \in OpenTx
  BY DEF TxOf, OpenTx
<1>2. TxSound(t)
  BY NoneAssumption DEF TxOf, TxSound
<1> QED
  BY <1>1, <1>2, BeginStep DEF proposeRound

LEMMA ApplyStep ==
  ASSUME BaseInv, NEW r \in Request, NEW s \in Student, NEW d \in Drive,
         apply(r, s, d)
  PROVE  BaseInv'
<1>1. ASSUME NEW pc \in {"block", "evaluate"}
      PROVE  /\ TxOf(pc, "apply", d, s, None, None) \in OpenTx
             /\ TxSound(TxOf(pc, "apply", d, s, None, None))
  BY NoneAssumption DEF TxOf, OpenTx, TxSound
<1> QED
  BY <1>1, BeginStep DEF apply

LEMMA ChangeStep ==
  ASSUME BaseInv, NEW r \in Request, NEW s \in Student, NEW d \in Drive,
         withdraw(r, s, d) \/ shortlist(r, s, d)
  PROVE  BaseInv'
<1>1. ASSUME NEW op \in {"withdraw", "shortlist"},
             applicationStatus[<<s, d>>] # "ABSENT"
      PROVE  /\ TxOf("commit", op, d, s, None, None) \in OpenTx
             /\ TxSound(TxOf("commit", op, d, s, None, None))
  BY <1>1, NoneAssumption DEF TxOf, OpenTx, TxSound
<1> QED
  BY <1>1, BeginStep DEF withdraw, shortlist

LEMMA RecordStep ==
  ASSUME BaseInv, NEW r \in Request, NEW s \in Student, NEW d \in Drive,
         NEW p \in Position, NEW rec \in RoundResultStatus,
         recordRoundResult(r, s, d, p, rec)
  PROVE  BaseInv'
<1> DEFINE t == TxOf("upsert", "record", d, s, p, rec)
<1>1. t \in OpenTx
  BY DEF TxOf, OpenTx
<1>2. TxSound(t)
  BY NoneAssumption DEF TxOf, TxSound, recordRoundResult
<1> QED
  BY <1>1, <1>2, BeginStep DEF recordRoundResult

-----------------------------------------------------------------------------
(* A request moves on or ends without touching an application.             *)

LEMMA EndStep ==
  ASSUME BaseInv, NEW r \in Request, End(r),
         UNCHANGED <<driveStatus, applicationStatus, result>>,
         rounds' \in [Drive -> SUBSET Position],
         \A d \in Drive : rounds[d] \subseteq rounds'[d],
         debarred' = debarred, audited' \subseteq Application
  PROVE  BaseInv'
<1>1. TableTypes'
  BY EndEffect DEF BaseInv, TableTypes
<1>2. TxInv'
  BY EndEffect, TxInvStays DEF BaseInv
<1> QED
  BY <1>1, <1>2, TablesKept DEF BaseInv

LEMMA ProposeCommitStep ==
  ASSUME BaseInv, NEW r \in Request, proposeRoundCommit(r)
  PROVE  BaseInv'
<1>1. tx[r] \in OpenTx /\ TxSound(tx[r])
  BY OpenIsTyped DEF proposeRoundCommit, BaseInv, TxInv
<1>2. tx[r].drive \in Drive /\ tx[r].position \in Position
  BY <1>1 DEF proposeRoundCommit, OpenTx, TxSound
<1>3. /\ rounds' \in [Drive -> SUBSET Position]
      /\ \A d \in Drive : rounds[d] \subseteq rounds'[d]
  BY <1>2 DEF proposeRoundCommit, BaseInv, TableTypes
<1> QED
  BY <1>3, EndStep DEF proposeRoundCommit, BaseInv, TableTypes

LEMMA AuditStep ==
  ASSUME BaseInv, NEW r \in Request, auditBlocked(r)
  PROVE  BaseInv'
<1>1. tx[r] \in OpenTx /\ TxSound(tx[r])
  BY OpenIsTyped DEF auditBlocked, BaseInv, TxInv
<1>2. App(r) \in Application
  BY <1>1 DEF auditBlocked, TxSound, App, Application, OpenTx
<1> QED
  BY <1>2, EndStep DEF auditBlocked, BaseInv, TableTypes, drives

LEMMA AbortStep ==
  ASSUME BaseInv, NEW r \in Request, abort(r)
  PROVE  BaseInv'
  BY EndStep DEF abort, BaseInv, TableTypes, drives

(* The transaction of r takes another sound form.                          *)
LEMMA AdvanceStep ==
  ASSUME BaseInv, NEW r \in Request, NEW t \in OpenTx, TxSound(t),
         tx' = [tx EXCEPT ![r] = t],
         UNCHANGED <<drives, applicationStatus, result, debarred, audited>>
  PROVE  BaseInv'
<1>1. TableTypes'
  BY DEF BaseInv, TableTypes, drives
<1>2. TxInv'
  BY DEF BaseInv, TableTypes, TxInv, TxSound, drives
<1>3. StatusExplained' /\ ResultsHaveRounds'
  BY TablesKept DEF drives
<1> QED
  BY <1>1, <1>2, <1>3 DEF BaseInv

LEMMA EvaluateStep ==
  ASSUME BaseInv, NEW r \in Request, evaluate(r)
  PROVE  BaseInv'
<1>1. tx[r] \in OpenTx /\ TxSound(tx[r]) /\ tx[r].op = "apply"
  BY OpenIsTyped DEF evaluate, BaseInv, TxInv, TxSound
<1>2. CASE End(r)
  BY <1>2, EndStep DEF evaluate, BaseInv, TableTypes, drives
<1>3. CASE tx' = [tx EXCEPT ![r].pc = "commit"]
  <2> DEFINE t == [tx[r] EXCEPT !.pc = "commit"]
  <2>1. t \in OpenTx
    BY <1>1 DEF OpenTx
  <2>2. TxSound(t)
    BY <1>1 DEF TxSound, OpenTx
  <2>3. tx' = [tx EXCEPT ![r] = t]
    BY <1>3
  <2> QED
    BY <2>1, <2>2, <2>3, AdvanceStep DEF evaluate
<1> QED
  BY <1>2, <1>3 DEF evaluate

LEMMA UpsertStep ==
  ASSUME BaseInv, NEW r \in Request, upsertResult(r)
  PROVE  BaseInv'
<1>1. tx[r] \in OpenTx /\ TxSound(tx[r]) /\ tx[r].op = "record"
  BY OpenIsTyped DEF upsertResult, BaseInv, TxInv, TxSound
<1>2. tx[r].recorded \in RoundResultStatus /\ tx[r].drive \in Drive
  BY <1>1 DEF OpenTx, TxSound
<1> DEFINE s == deriveApplicationStatusFromRoundResult(
                  tx[r].recorded, tx[r].position, rounds[tx[r].drive])
           t == [tx[r] EXCEPT !.pc = "commit", !.next = s]
<1>3. s \in ApplicationStatus
  BY <1>2, DerivedStatus DEF ApplicationStatus
<1>4. rounds[tx[r].drive] \in SUBSET Position
  BY <1>2 DEF BaseInv, TableTypes
<1> HIDE DEF s
<1>5. t \in OpenTx
  BY <1>1, <1>3 DEF OpenTx
<1>6. TxSound(t)
  <2>1. \E positions \in SUBSET Position :
          s = deriveApplicationStatusFromRoundResult(
                tx[r].recorded, tx[r].position, positions)
    BY <1>4 DEF s
  <2>2. /\ t.pc = "commit" /\ t.next = s
        /\ t.op = tx[r].op /\ t.student = tx[r].student
        /\ t.drive = tx[r].drive /\ t.position = tx[r].position
        /\ t.recorded = tx[r].recorded
    BY <1>1 DEF OpenTx
  <2> QED
    BY <1>1, <2>1, <2>2 DEF TxSound
<1>7. tx' = [tx EXCEPT ![r] = t]
  BY DEF upsertResult, s
<1> QED
  BY <1>5, <1>6, <1>7, AdvanceStep DEF upsertResult

-----------------------------------------------------------------------------
(* Steps of one transaction that is not about applications.                *)

LEMMA DrivesStep ==
  ASSUME BaseInv, UNCHANGED <<applicationStatus, result, audited, tx>>,
         driveStatus' \in [Drive -> DriveStatus \cup {"ABSENT"}],
         rounds' \in [Drive -> SUBSET Position],
         \A d \in Drive : rounds[d] \subseteq rounds'[d],
         debarred' \subseteq Student
  PROVE  BaseInv'
<1>1. TableTypes'
  BY DEF BaseInv, TableTypes
<1>2. TxInv'
  BY TxInvStays
<1> QED
  BY <1>1, <1>2, TablesKept DEF BaseInv

LEMMA ManageDrivesStep ==
  ASSUME BaseInv, NEW r \in Request, ManageDrives(r)
  PROVE  BaseInv'
<1>1. ASSUME NEW d \in Drive, NEW scope, NEW s \in SetStatuses,
             createDrive(r, scope, d, s)
      PROVE  BaseInv'
  BY <1>1, StatusAssumption, DrivesStep DEF createDrive, BaseInv, TableTypes, DriveStatus
<1>2. ASSUME NEW d \in Drive, NEW s \in SetStatuses, updateStatus(r, d, s)
      PROVE  BaseInv'
  BY <1>2, StatusAssumption, DrivesStep DEF updateStatus, BaseInv, TableTypes
<1>3. ASSUME NEW d \in Drive, NEW p \in Position, createRound(r, d, p)
      PROVE  BaseInv'
  BY <1>3, DrivesStep DEF createRound, BaseInv, TableTypes
<1> QED
  BY <1>1, <1>2, <1>3, ProposeRoundStep DEF ManageDrives

LEMMA PlacementStep ==
  ASSUME BaseInv, NEW r \in Request, NEW s \in Student, setPlacement(r, s)
  PROVE  BaseInv'
  BY DrivesStep DEF setPlacement, BaseInv, TableTypes, drives

-----------------------------------------------------------------------------
(* The commits that write an application.                                  *)

(* What any of them does: it is about one existing or new application.     *)
LEMMA CommitStep ==
  ASSUME BaseInv, NEW r \in Request, End(r), App(r) \in Application,
         NEW s \in ApplicationStatus,
         applicationStatus' = [applicationStatus EXCEPT ![App(r)] = s],
         UNCHANGED <<drives, debarred, audited>>,
         result' \in [Application -> [Position -> RoundResultStatus \cup {None}]],
         \A a \in Application \ {App(r)} : result'[a] = result[a],
         \A p \in Position :
           result'[App(r)][p] # None => p \in rounds[tx[r].drive],
         s = "REJECTED" => \E p \in Position : result'[App(r)][p] = "FAIL",
         s = "SELECTED" => \E p \in Position : result'[App(r)][p] = "PASS",
         s = "IN_ROUND" =>
           \E p \in Position : result'[App(r)][p] \in {"PASS", "PENDING"}
  PROVE  BaseInv'
<1> USE DEF BaseInv
<1>1. /\ applicationStatus'[App(r)] = s /\ s # "ABSENT"
      /\ \A a \in Application \ {App(r)} :
           applicationStatus'[a] = applicationStatus[a]
      /\ applicationStatus' \in [Application -> ApplicationStatus \cup {"ABSENT"}]
  BY DEF TableTypes, ApplicationStatus
<1>2. TableTypes'
  BY <1>1, EndEffect DEF TableTypes, drives
<1>3. TxInv'
  BY <1>1, EndEffect, TxInvStays DEF drives
<1>4. StatusExplained'
  <2> SUFFICES ASSUME NEW a \in Application
               PROVE  /\ applicationStatus'[a] = "REJECTED" =>
                           \E p \in Position : result'[a][p] \in {"FAIL"}
                      /\ applicationStatus'[a] = "SELECTED" =>
                           \E p \in Position : result'[a][p] \in {"PASS"}
                      /\ applicationStatus'[a] = "IN_ROUND" =>
                           \E p \in Position : result'[a][p] \in {"PASS", "PENDING"}
    BY DEF StatusExplained, Recorded
  <2>1. CASE a = App(r)
    BY <1>1, <2>1
  <2>2. CASE a # App(r)
    BY <1>1, <2>2 DEF StatusExplained, Recorded
  <2> QED
    BY <2>1, <2>2
<1>5. ResultsHaveRounds'
  <2> SUFFICES ASSUME NEW a \in Application, NEW p \in Position,
                      result'[a][p] # None
               PROVE  p \in rounds[a[2]] /\ applicationStatus'[a] # "ABSENT"
    BY DEF ResultsHaveRounds, drives
  <2>1. CASE a = App(r)
    BY <1>1, <2>1 DEF App
  <2>2. CASE a # App(r)
    BY <1>1, <2>2 DEF ResultsHaveRounds
  <2> QED
    BY <2>1, <2>2
<1> QED
  BY <1>2, <1>3, <1>4, <1>5

(* The commits that leave the results alone.                               *)
LEMMA StatusCommitStep ==
  ASSUME BaseInv, NEW r \in Request, End(r), App(r) \in Application,
         NEW s \in {"APPLIED", "WITHDRAWN", "SHORTLISTED"},
         applicationStatus' = [applicationStatus EXCEPT ![App(r)] = s],
         UNCHANGED <<drives, result, debarred, audited>>
  PROVE  BaseInv'
<1>1. s \in ApplicationStatus
  BY DEF ApplicationStatus
<1>2. \A p \in Position :
        result'[App(r)][p] # None => p \in rounds[tx[r].drive]
  BY DEF BaseInv, ResultsHaveRounds, App
<1>3. result' \in [Application -> [Position -> RoundResultStatus \cup {None}]]
  BY DEF BaseInv, TableTypes
<1> QED
  BY <1>1, <1>2, <1>3, CommitStep

LEMMA ApplyCommitStep ==
  ASSUME BaseInv, NEW r \in Request, applyCommit(r)
  PROVE  BaseInv'
<1>1. tx[r] \in OpenTx /\ TxSound(tx[r])
  BY OpenIsTyped DEF applyCommit, BaseInv, TxInv
<1>2. App(r) \in Application
  BY <1>1 DEF applyCommit, TxSound, App, Application, OpenTx
<1>3. CASE applicationStatus[App(r)] = "ABSENT"
  <2>1. applicationStatus' = [applicationStatus EXCEPT ![App(r)] = "APPLIED"]
    BY <1>3 DEF applyCommit
  <2> QED
    BY <1>2, <2>1, StatusCommitStep DEF applyCommit
<1>4. CASE applicationStatus[App(r)] # "ABSENT"
  <2>1. applicationStatus' = applicationStatus
    BY <1>2, <1>4 DEF applyCommit, BaseInv, TableTypes
  <2> QED
    BY <2>1, EndStep DEF applyCommit, BaseInv, TableTypes, drives
<1> QED
  BY <1>3, <1>4

LEMMA SetStatusStep ==
  ASSUME BaseInv, NEW r \in Request, withdrawCommit(r) \/ shortlistCommit(r)
  PROVE  BaseInv'
<1>1. tx[r] \in OpenTx /\ TxSound(tx[r])
  BY OpenIsTyped DEF withdrawCommit, shortlistCommit, SetStatus, BaseInv, TxInv
<1>2. App(r) \in Application
  BY <1>1 DEF withdrawCommit, shortlistCommit, SetStatus, TxSound, App,
     Application, OpenTx
<1> QED
  BY <1>2, StatusCommitStep DEF withdrawCommit, shortlistCommit, SetStatus

LEMMA RecordCommitStep ==
  ASSUME BaseInv, NEW r \in Request, recordCommit(r)
  PROVE  BaseInv'
<1>1. /\ tx[r] \in OpenTx /\ TxSound(tx[r])
      /\ tx[r].op = "record" /\ tx[r].pc = "commit"
  BY OpenIsTyped DEF recordCommit, BaseInv, TxInv
<1>2. App(r) \in Application
  BY <1>1 DEF TxSound, App, Application, OpenTx
<1>3. tx[r].recorded \in RoundResultStatus /\ tx[r].drive \in Drive
  BY <1>1 DEF TxSound, OpenTx
<1>4. tx[r].position \in Position /\ tx[r].position \in rounds[tx[r].drive]
  BY <1>1, <1>3 DEF TxSound, BaseInv, TableTypes
<1>5. /\ result' \in [Application -> [Position -> RoundResultStatus \cup {None}]]
      /\ \A a \in Application \ {App(r)} : result'[a] = result[a]
      /\ result'[App(r)][tx[r].position] = tx[r].recorded
      /\ \A p \in Position \ {tx[r].position} :
           result'[App(r)][p] = result[App(r)][p]
  BY <1>2, <1>3, <1>4 DEF recordCommit, BaseInv, TableTypes
<1>6. PICK positions \in SUBSET Position :
        tx[r].next = deriveApplicationStatusFromRoundResult(
                       tx[r].recorded, tx[r].position, positions)
  BY <1>1 DEF TxSound
<1>7. /\ tx[r].next \in {"REJECTED", "SELECTED", "IN_ROUND"}
      /\ tx[r].next = "REJECTED" => tx[r].recorded = "FAIL"
      /\ tx[r].next = "SELECTED" => tx[r].recorded = "PASS"
      /\ tx[r].next = "IN_ROUND" => tx[r].recorded \in {"PASS", "PENDING"}
  BY <1>3, <1>6, DerivedStatus
<1>8. tx[r].next \in ApplicationStatus
  BY <1>7 DEF ApplicationStatus
<1>9. \A p \in Position :
        result'[App(r)][p] # None => p \in rounds[tx[r].drive]
  BY <1>2, <1>4, <1>5 DEF BaseInv, ResultsHaveRounds, App
<1> QED
  BY <1>2, <1>4, <1>5, <1>7, <1>8, <1>9, CommitStep DEF recordCommit

-----------------------------------------------------------------------------

LEMMA StepBase == BaseInv /\ [Next]_vars => BaseInv'
<1> SUFFICES ASSUME BaseInv, [Next]_vars PROVE BaseInv'
  OBVIOUS
<1>1. ASSUME NEW r \in Request, ManageApplications(r) PROVE BaseInv'
  BY <1>1, ApplyStep, ChangeStep, RecordStep DEF ManageApplications
<1>2. ASSUME NEW r \in Request, Step(r) PROVE BaseInv'
  BY <1>2, ProposeCommitStep, AuditStep, EvaluateStep, ApplyCommitStep,
     SetStatusStep, UpsertStep, RecordCommitStep DEF Step
<1>3. CASE UNCHANGED vars
  <2>1. /\ UNCHANGED <<applicationStatus, result, audited, tx>>
        /\ UNCHANGED <<driveStatus, rounds, debarred>>
    BY <1>3 DEF vars, drives
  <2> QED
    BY <2>1, DrivesStep DEF BaseInv, TableTypes
<1> QED
  BY <1>1, <1>2, <1>3, ManageDrivesStep, AbortStep, PlacementStep DEF Next

(* The inductive invariant holds in every reachable state of the drives    *)
(* and applications handlers, however they overlap and fail.               *)
THEOREM BaseInvariance == Spec => []BaseInv
  BY InitBase, StepBase, PTL DEF Spec

(* An application that is REJECTED, SELECTED or IN_ROUND has a result on   *)
(* record that says so (applications.service.ts:341-375).                  *)
THEOREM StatusesExplained == Spec => []StatusExplained
<1>1. BaseInv => StatusExplained
  BY DEF BaseInv
<1> QED
  BY <1>1, BaseInvariance, PTL

(* Results are of rounds of the application's own drive                    *)
(* (applications.service.ts:332-339).                                      *)
THEOREM ResultsOfOwnDrive == Spec => []ResultsHaveRounds
<1>1. BaseInv => ResultsHaveRounds
  BY DEF BaseInv
<1> QED
  BY <1>1, BaseInvariance, PTL

-----------------------------------------------------------------------------
(* The second layer: what requests have read.                              *)

(* A step leaves what t has read as it was, or crosses it.                 *)
Kept(t) ==
  LET a == <<t.student, t.drive>>
      DriveKept == \/ driveStatus'[t.drive] = driveStatus[t.drive]
                   \/ driveStatus[t.drive] = "ABSENT"
  IN  /\ t.op = "round" => DriveKept \/ t.drive \in crossed'
      /\ t.op = "apply" =>
           \/ a \in crossed'
           \/ /\ DriveKept
              /\ t.pc = "commit" => (t.student \in debarred' => t.student \in debarred)
      /\ t.op \in {"withdraw", "shortlist", "record"} =>
           applicationStatus'[a] = applicationStatus[a] \/ a \in crossed'
      /\ t.op = "record" =>
           \/ a \in crossed'
           \/ t.pc = "commit" => rounds'[t.drive] = rounds[t.drive]

LEMMA FreshKept ==
  ASSUME NEW t, Fresh(t), Kept(t), crossed \subseteq crossed'
  PROVE  Fresh(t)'
  BY DEF Fresh, Kept, OPEN_DRIVE_STATUSES, TERMINAL_APPLICATION_STATUSES

(* What the requests in Q work on is crossed.                              *)
LEMMA CrossEffect ==
  ASSUME IInv, NEW Q \in SUBSET Request, \A q \in Q : tx[q] # Idle, Cross(Q)
  PROVE  /\ crossed \subseteq crossed' /\ crossed' \subseteq Application \cup Drive
         /\ \A q \in Q : IF tx[q].op = "round" THEN tx[q].drive \in crossed'
                         ELSE <<tx[q].student, tx[q].drive>> \in crossed'
<1>1. \A q \in Q : IF tx[q].op = "round" THEN tx[q].drive \in Drive
                   ELSE App(q) \in Application
  BY DEF IInv, BaseInv, TableTypes, TxInv, TxSound, OpenTx, App, Application
<1> QED
  BY <1>1 DEF Cross, App, IInv, TypeOK

(* A step of r after which every other request is as before and what it    *)
(* has read is kept.                                                       *)
LEMMA FreshStays ==
  ASSUME IInv, crossed \subseteq crossed', NEW r \in Request,
         \A q \in Request \ {r} :
           tx'[q] = tx[q] /\ (tx[q] # Idle => Kept(tx[q])),
         tx'[r] # Idle => Fresh(tx[r])'
  PROVE  FreshInv'
<1> SUFFICES ASSUME NEW q \in Request, tx'[q] # Idle PROVE Fresh(tx[q])'
  BY DEF FreshInv
<1>1. CASE q = r
  BY <1>1
<1>2. CASE q # r
  <2>1. tx'[q] = tx[q] /\ Fresh(tx[q]) /\ Kept(tx[q])
    BY <1>2 DEF IInv, FreshInv
  <2> QED
    BY <2>1, FreshKept DEF Fresh
<1> QED
  BY <1>1, <1>2

LEMMA NotRewoundStays ==
  ASSUME NotRewound, UNCHANGED <<applicationStatus, result>>,
         crossed \subseteq crossed'
  PROVE  NotRewound'
  BY DEF NotRewound, Recorded

ReadInv == crossed \subseteq Application \cup Drive /\ FreshInv /\ NotRewound

(* Steps of r that leave applications and results alone.                   *)
LEMMA QuietStep ==
  ASSUME IInv, NEW r \in Request, UNCHANGED <<applicationStatus, result>>,
         crossed \subseteq crossed', crossed' \subseteq Application \cup Drive,
         \A q \in Request \ {r} :
           tx'[q] = tx[q] /\ (tx[q] # Idle => Kept(tx[q])),
         tx'[r] # Idle => Fresh(tx[r])'
  PROVE  ReadInv'
  BY FreshStays, NotRewoundStays DEF IInv, ReadInv

(* Steps that change nothing but the request itself.                       *)
LEMMA OwnStep ==
  ASSUME IInv, NEW r \in Request, NEW t,
         tx' = [tx EXCEPT ![r] = t], t # Idle => Fresh(t),
         UNCHANGED <<drives, applicationStatus, result, debarred, crossed>>
  PROVE  ReadInv'
<1>1. tx'[r] = t /\ \A q \in Request \ {r} : tx'[q] = tx[q]
  BY DEF IInv, BaseInv, TableTypes
<1>2. \A q \in Request : Kept(tx[q])
  BY DEF Kept, drives
<1>3. tx'[r] # Idle => Fresh(tx[r])'
  BY <1>1 DEF Fresh, drives
<1> QED
  BY <1>1, <1>2, <1>3, QuietStep DEF IInv, TypeOK

LEMMA ProposeFresh ==
  ASSUME IInv, NEW r \in Request, NEW d \in Drive, NEW p \in Position,
         proposeRound(r, d, p)
  PROVE  ReadInv'
<1>1. Fresh(TxOf("commit", "round", d, None, p, None))
  BY DEF proposeRound, Fresh, TxOf
<1> QED
  BY <1>1, OwnStep DEF proposeRound, Begin

LEMMA BeginsFresh ==
  ASSUME IInv, NEW r \in Request, NEW s \in Student, NEW d \in Drive,
         \/ apply(r, s, d) \/ withdraw(r, s, d) \/ shortlist(r, s, d)
         \/ \E p \in Position, rec \in RoundResultStatus :
              recordRoundResult(r, s, d, p, rec)
  PROVE  ReadInv'
<1>1. ASSUME NEW t, Fresh(t), Begin(r, t) PROVE ReadInv'
  BY <1>1, OwnStep DEF Begin
<1>2. CASE apply(r, s, d)
  <2>1. /\ Fresh(TxOf("block", "apply", d, s, None, None))
        /\ driveStatus[d] \in OPEN_DRIVE_STATUSES =>
             Fresh(TxOf("evaluate", "apply", d, s, None, None))
    BY DEF Fresh, TxOf
  <2> QED
    BY <1>1, <1>2, <2>1 DEF apply
<1>3. CASE withdraw(r, s, d)
  <2>1. Fresh(TxOf("commit", "withdraw", d, s, None, None))
    BY <1>3 DEF withdraw, Fresh, TxOf
  <2> QED
    BY <1>1, <1>3, <2>1 DEF withdraw
<1>4. CASE shortlist(r, s, d)
  <2>1. Fresh(TxOf("commit", "shortlist", d, s, None, None))
    BY <1>4 DEF shortlist, Fresh, TxOf
  <2> QED
    BY <1>1, <1>4, <2>1 DEF shortlist
<1>5. ASSUME NEW p \in Position, NEW rec \in RoundResultStatus,
             recordRoundResult(r, s, d, p, rec)
      PROVE  ReadInv'
  <2>1. Fresh(TxOf("upsert", "record", d, s, p, rec))
    BY <1>5 DEF recordRoundResult, Fresh, TxOf
  <2> QED
    BY <1>1, <1>5, <2>1 DEF recordRoundResult
<1> QED
  BY <1>2, <1>3, <1>4, <1>5

LEMMA EvaluateFresh ==
  ASSUME IInv, NEW r \in Request, evaluate(r)
  PROVE  ReadInv'
<1>1. tx[r] # Idle /\ tx[r] \in OpenTx /\ tx[r].op = "apply" /\ Fresh(tx[r])
  BY OpenIsTyped DEF evaluate, IInv, BaseInv, TxInv, TxSound, FreshInv
<1>2. CASE End(r)
  BY <1>2, OwnStep DEF evaluate, End
<1>3. CASE tx[r].student \notin debarred /\ tx' = [tx EXCEPT ![r].pc = "commit"]
  <2>1. Fresh([tx[r] EXCEPT !.pc = "commit"])
    BY <1>1, <1>3 DEF evaluate, Fresh, OpenTx
  <2>2. tx' = [tx EXCEPT ![r] = [tx[r] EXCEPT !.pc = "commit"]]
    BY <1>3
  <2> HIDE DEF Fresh
  <2> QED
    BY <2>1, <2>2, OwnStep DEF evaluate
<1> QED
  BY <1>2, <1>3 DEF evaluate

LEMMA UpsertFresh ==
  ASSUME IInv, NEW r \in Request, upsertResult(r)
  PROVE  ReadInv'
<1>1. tx[r] # Idle /\ tx[r] \in OpenTx /\ tx[r].op = "record" /\ Fresh(tx[r])
  BY OpenIsTyped DEF upsertResult, IInv, BaseInv, TxInv, TxSound, FreshInv
<1> DEFINE s == deriveApplicationStatusFromRoundResult(
                  tx[r].recorded, tx[r].position, rounds[tx[r].drive])
           t == [tx[r] EXCEPT !.pc = "commit", !.next = s]
<1>2. tx' = [tx EXCEPT ![r] = t]
  BY DEF upsertResult
<1> HIDE DEF s
<1>3. /\ t.pc = "commit" /\ t.next = s /\ t.op = "record"
      /\ t.student = tx[r].student /\ t.drive = tx[r].drive
      /\ t.position = tx[r].position /\ t.recorded = tx[r].recorded
  BY <1>1 DEF OpenTx
<1> HIDE DEF t
<1>4. Fresh(t)
  BY <1>1, <1>3 DEF Fresh, s
<1> QED
  BY <1>2, <1>4, OwnStep DEF upsertResult

LEMMA EndsFresh ==
  ASSUME IInv, NEW r \in Request, auditBlocked(r) \/ abort(r)
  PROVE  ReadInv'
  BY OwnStep DEF auditBlocked, abort, End

-----------------------------------------------------------------------------
(* Steps that write what others may have read.                             *)

(* An absent drive has not been read by anyone.                            *)
LEMMA CreateDriveFresh ==
  ASSUME IInv, NEW r \in Request, NEW d \in Drive, NEW scope, NEW s,
         createDrive(r, scope, d, s)
  PROVE  ReadInv'
<1>1. \A q \in Request : tx[q] # Idle => Kept(tx[q])
  BY DEF createDrive, Kept, IInv, BaseInv, TableTypes, OpenTx
<1> QED
  BY <1>1, QuietStep DEF createDrive, IInv, TypeOK

LEMMA UpdateStatusFresh ==
  ASSUME IInv, NEW r \in Request, NEW d \in Drive, NEW s, updateStatus(r, d, s)
  PROVE  ReadInv'
<1> DEFINE Q == {q \in Request : tx[q].drive = d /\ tx[q].op \in {"apply", "round"}}
<1>1. \A q \in Q : tx[q] # Idle
  BY NoneAssumption DEF Idle
<1>2. /\ crossed \subseteq crossed' /\ crossed' \subseteq Application \cup Drive
      /\ \A q \in Q : IF tx[q].op = "round" THEN tx[q].drive \in crossed'
                      ELSE <<tx[q].student, tx[q].drive>> \in crossed'
  BY <1>1, CrossEffect DEF updateStatus
<1>3. \A q \in Request : tx[q] # Idle => Kept(tx[q])
  BY <1>2 DEF updateStatus, Kept, IInv, BaseInv, TableTypes, OpenTx
<1> QED
  BY <1>2, <1>3, QuietStep DEF updateStatus

(* A new round of d.                                                       *)
LEMMA NewRoundFresh ==
  ASSUME IInv, NEW r \in Request, NEW d \in Drive, NEW p,
         rounds' = [rounds EXCEPT ![d] = @ \cup {p}], Cross(Deriving(d)),
         UNCHANGED <<driveStatus, applicationStatus, result, debarred>>,
         \A q \in Request \ {r} : tx'[q] = tx[q], tx'[r] = Idle
  PROVE  ReadInv'
<1>1. Deriving(d) \subseteq Request /\ \A q \in Deriving(d) : tx[q] # Idle
  BY DEF Deriving, Idle
<1>2. /\ crossed \subseteq crossed' /\ crossed' \subseteq Application \cup Drive
      /\ \A q \in Deriving(d) :
           IF tx[q].op = "round" THEN tx[q].drive \in crossed'
           ELSE <<tx[q].student, tx[q].drive>> \in crossed'
  BY <1>1, CrossEffect
<1>3. \A q \in Request : tx[q] # Idle => Kept(tx[q])
  BY <1>2 DEF Deriving, Kept, IInv, BaseInv, TableTypes, OpenTx
<1> QED
  BY <1>2, <1>3, QuietStep

LEMMA RoundFresh ==
  ASSUME IInv, NEW r \in Request,
         \/ proposeRoundCommit(r)
         \/ \E d \in Drive, p \in Position : createRound(r, d, p)
  PROVE  ReadInv'
<1>1. CASE proposeRoundCommit(r)
  <2>1. tx[r].drive \in Drive
    BY <1>1, OpenIsTyped DEF proposeRoundCommit, IInv, BaseInv, OpenTx
  <2> QED
    BY <1>1, <2>1, EndEffect, NewRoundFresh DEF proposeRoundCommit, IInv, BaseInv
<1>2. CASE \E d \in Drive, p \in Position : createRound(r, d, p)
  BY <1>2, NewRoundFresh DEF createRound
<1> QED
  BY <1>1, <1>2

LEMMA PlacementFresh ==
  ASSUME IInv, NEW r \in Request, NEW s \in Student, setPlacement(r, s)
  PROVE  ReadInv'
<1> DEFINE Q == {q \in Request : tx[q].student = s /\ tx[q].op = "apply"
                                  /\ tx[q].pc = "commit"}
<1>1. \A q \in Q : tx[q] # Idle
  BY DEF Idle
<1>2. /\ crossed \subseteq crossed' /\ crossed' \subseteq Application \cup Drive
      /\ \A q \in Q : IF tx[q].op = "round" THEN tx[q].drive \in crossed'
                      ELSE <<tx[q].student, tx[q].drive>> \in crossed'
  BY <1>1, CrossEffect DEF setPlacement
<1>3. \A q \in Request : tx[q] # Idle => Kept(tx[q])
  BY <1>2 DEF setPlacement, Kept, drives
<1> QED
  BY <1>2, <1>3, QuietStep DEF setPlacement

(* Another request has not read an application that is not there.          *)
LEMMA ApplyCommitFresh ==
  ASSUME IInv, NEW r \in Request, applyCommit(r)
  PROVE  ReadInv'
<1>1. tx[r] \in OpenTx /\ TxSound(tx[r]) /\ App(r) \in Application
  BY OpenIsTyped DEF applyCommit, IInv, BaseInv, TxInv, TxSound, App,
     Application, OpenTx
<1>2. /\ tx'[r] = Idle /\ \A q \in Request \ {r} : tx'[q] = tx[q]
      /\ UNCHANGED <<driveStatus, rounds, result, debarred, crossed>>
  BY EndEffect DEF applyCommit, IInv, BaseInv, drives
<1>3. \A a \in Application :
        \/ applicationStatus'[a] = applicationStatus[a]
        \/ applicationStatus[a] = "ABSENT"
  BY <1>1 DEF applyCommit, IInv, BaseInv, TableTypes
<1>4. \A q \in Request : tx[q] # Idle => Kept(tx[q])
  BY <1>2, <1>3 DEF Kept, IInv, BaseInv, TableTypes, TxInv, TxSound, OpenTx,
     Application
<1>5. FreshInv'
  BY <1>2, <1>4, FreshStays
<1>6. NotRewound'
  <2>1. \A a \in Application :
          applicationStatus[a] = "ABSENT" => ~Recorded(a, RoundResultStatus)
    BY NoneAssumption DEF Recorded, IInv, BaseInv, ResultsHaveRounds
  <2> QED
    BY <1>2, <1>3, <2>1 DEF NotRewound, Recorded, IInv
<1> QED
  BY <1>2, <1>5, <1>6 DEF ReadInv, IInv, TypeOK

(* The commits of withdraw(), shortlist() and recordRoundResult(): their    *)
(* readers are crossed.                                                    *)
LEMMA WriteFresh ==
  ASSUME IInv, NEW r \in Request, End(r), Cross(Readers(r)), tx[r] # Idle,
         App(r) \in Application, NEW s,
         applicationStatus' = [applicationStatus EXCEPT ![App(r)] = s],
         UNCHANGED <<driveStatus, rounds, debarred>>
  PROVE  /\ crossed \subseteq crossed' /\ crossed' \subseteq Application \cup Drive
         /\ FreshInv'
<1>1. /\ tx'[r] = Idle /\ \A q \in Request \ {r} : tx'[q] = tx[q]
      /\ \A a \in Application : a # App(r) => applicationStatus'[a] = applicationStatus[a]
  BY EndEffect DEF IInv, BaseInv, TableTypes
<1>2. Readers(r) \subseteq Request /\ \A q \in Readers(r) : tx[q] # Idle
  BY NoneAssumption DEF Readers, App, Idle, Application
<1>3. /\ crossed \subseteq crossed' /\ crossed' \subseteq Application \cup Drive
      /\ \A q \in Readers(r) :
           IF tx[q].op = "round" THEN tx[q].drive \in crossed'
           ELSE <<tx[q].student, tx[q].drive>> \in crossed'
  BY <1>2, CrossEffect
<1>4. ASSUME NEW q \in Request \ {r}, tx[q] # Idle PROVE Kept(tx[q])
  <2>1. CASE tx[q].op \in {"withdraw", "shortlist", "record"}
    <3>1. tx[q] \in OpenTx /\ TxSound(tx[q])
      BY <1>4 DEF IInv, BaseInv, TableTypes, TxInv
    <3>2. App(q) \in Application
      BY <2>1, <3>1 DEF App, Application, OpenTx, TxSound
    <3>3. App(q) = App(r) => <<tx[q].student, tx[q].drive>> \in crossed'
      BY <1>3, <2>1 DEF Readers
    <3> QED
      BY <1>1, <2>1, <3>2, <3>3 DEF Kept, App
  <2>2. CASE tx[q].op \notin {"withdraw", "shortlist", "record"}
    BY <2>2 DEF Kept
  <2> QED
    BY <2>1, <2>2
<1>5. FreshInv'
  BY <1>1, <1>3, <1>4, FreshStays
<1> QED
  BY <1>3, <1>5

LEMMA SetStatusFresh ==
  ASSUME IInv, NEW r \in Request, withdrawCommit(r) \/ shortlistCommit(r)
  PROVE  ReadInv'
<1>1. PICK op \in {"withdraw", "shortlist"}, s \in {"WITHDRAWN", "SHORTLISTED"} :
        /\ SetStatus(r, op, s)
        /\ s = "SHORTLISTED" => op = "shortlist"
  BY DEF withdrawCommit, shortlistCommit
<1>2. /\ tx[r] # Idle /\ tx[r] \in OpenTx /\ TxSound(tx[r]) /\ Fresh(tx[r])
      /\ tx[r].op = op
  BY <1>1, OpenIsTyped DEF SetStatus, IInv, BaseInv, TxInv, FreshInv
<1>3. App(r) \in Application
  BY <1>2 DEF App, Application, OpenTx, TxSound
<1>4. /\ crossed \subseteq crossed' /\ crossed' \subseteq Application \cup Drive
      /\ FreshInv'
  BY <1>1, <1>2, <1>3, WriteFresh DEF SetStatus, drives
<1>5. NotRewound'
  <2> SUFFICES ASSUME NEW a \in Application, a \notin crossed',
                      applicationStatus'[a] \in {"APPLIED", "SHORTLISTED"}
               PROVE  ~Recorded(a, RoundResultStatus)'
    BY DEF NotRewound
  <2>1. CASE a = App(r)
    <3>1. applicationStatus'[a] = s
      BY <1>1, <1>3, <2>1 DEF SetStatus, IInv, BaseInv, TableTypes
    <3>2. op = "shortlist"
      BY <1>1, <3>1
    <3>3. applicationStatus[a] = "APPLIED"
      BY <1>2, <1>4, <2>1, <3>2 DEF Fresh, App
    <3> QED
      BY <1>1, <1>4, <3>3 DEF NotRewound, IInv, Recorded, SetStatus
  <2>2. CASE a # App(r)
    BY <1>1, <1>4, <2>2 DEF NotRewound, IInv, BaseInv, TableTypes, Recorded, SetStatus
  <2> QED
    BY <2>1, <2>2
<1> QED
  BY <1>4, <1>5 DEF ReadInv

LEMMA RecordFresh ==
  ASSUME IInv, NEW r \in Request, recordCommit(r)
  PROVE  ReadInv'
<1>1. /\ tx[r] # Idle /\ tx[r] \in OpenTx /\ TxSound(tx[r])
      /\ tx[r].op = "record" /\ tx[r].pc = "commit"
  BY OpenIsTyped DEF recordCommit, IInv, BaseInv, TxInv
<1>2. App(r) \in Application
  BY <1>1 DEF App, Application, OpenTx, TxSound
<1>3. tx[r].next \in {"REJECTED", "SELECTED", "IN_ROUND"}
  BY <1>1, DerivedStatus DEF TxSound, OpenTx
<1>4. /\ crossed \subseteq crossed' /\ crossed' \subseteq Application \cup Drive
      /\ FreshInv'
  BY <1>1, <1>2, WriteFresh DEF recordCommit, drives
<1>5. NotRewound'
  <2> SUFFICES ASSUME NEW a \in Application, a \notin crossed',
                      applicationStatus'[a] \in {"APPLIED", "SHORTLISTED"}
               PROVE  ~Recorded(a, RoundResultStatus)'
    BY DEF NotRewound
  <2>1. a # App(r)
    BY <1>2, <1>3 DEF recordCommit, IInv, BaseInv, TableTypes
  <2>2. applicationStatus'[a] = applicationStatus[a] /\ result'[a] = result[a]
    BY <1>2, <2>1 DEF recordCommit, IInv, BaseInv, TableTypes
  <2> QED
    BY <1>4, <2>2 DEF NotRewound, IInv, Recorded
<1> QED
  BY <1>4, <1>5 DEF ReadInv

-----------------------------------------------------------------------------

LEMMA InitInv == Init => IInv
  BY InitBase DEF Init, IInv, TypeOK, BaseInv, FreshInv, NotRewound

LEMMA StepInv == IInv /\ [Next]_vars => IInv'
<1> SUFFICES ASSUME IInv, [Next]_vars PROVE IInv'
  OBVIOUS
<1>1. BaseInv'
  BY StepBase DEF IInv
<1>2. ReadInv'
  <2>1. ASSUME NEW r \in Request, ManageDrives(r) PROVE ReadInv'
    BY <2>1, ProposeFresh, CreateDriveFresh, UpdateStatusFresh, RoundFresh
       DEF ManageDrives
  <2>2. ASSUME NEW r \in Request, ManageApplications(r) PROVE ReadInv'
    BY <2>2, BeginsFresh DEF ManageApplications
  <2>3. ASSUME NEW r \in Request, Step(r) PROVE ReadInv'
    BY <2>3, RoundFresh, EndsFresh, EvaluateFresh, ApplyCommitFresh,
       SetStatusFresh, UpsertFresh, RecordFresh DEF Step
  <2>4. CASE UNCHANGED vars
    <3>1. UNCHANGED <<driveStatus, rounds, applicationStatus, result, debarred, tx, crossed>>
      BY <2>4 DEF vars, drives
    <3>2. FreshInv'
      BY <3>1 DEF IInv, FreshInv, Fresh
    <3> QED
      BY <3>1, <3>2, NotRewoundStays DEF IInv, ReadInv, TypeOK
  <2> QED
    BY <2>1, <2>2, <2>3, <2>4, EndsFresh, PlacementFresh DEF Next
<1> QED
  BY <1>1, <1>2 DEF IInv, ReadInv, BaseInv, TypeOK

(* In every reachable state, however requests overlap and fail, what an    *)
(* open request has read is still so or was crossed (ReadInv), and the     *)
(* tables agree.                                                           *)
THEOREM Invariance == Spec => []IInv
  BY InitInv, StepInv, PTL DEF Spec

(* An application that waits for its first round has no results, unless    *)
(* two requests on it crossed (applications.service.ts:274).               *)
THEOREM NeverRewound == Spec => []NotRewound
<1>1. IInv => NotRewound
  BY DEF IInv
<1> QED
  BY <1>1, Invariance, PTL

-----------------------------------------------------------------------------
(* The action properties.                                                  *)

(* Only the commits of a request write applications.                       *)
LEMMA Writers ==
  ASSUME [Next]_vars
  PROVE  \/ \E r \in Request : applyCommit(r) \/ withdrawCommit(r)
                               \/ shortlistCommit(r) \/ recordCommit(r)
         \/ UNCHANGED <<applicationStatus, result>>
<1>1. ASSUME NEW r \in Request, ManageDrives(r) \/ ManageApplications(r)
      PROVE  UNCHANGED <<applicationStatus, result>>
  BY <1>1 DEF ManageDrives, createDrive, updateStatus, proposeRound,
     createRound, ManageApplications, apply, withdraw, shortlist,
     recordRoundResult, Begin
<1>2. ASSUME NEW r \in Request,
             \/ proposeRoundCommit(r) \/ auditBlocked(r) \/ evaluate(r)
             \/ upsertResult(r) \/ abort(r)
             \/ \E s \in Student : setPlacement(r, s)
      PROVE  UNCHANGED <<applicationStatus, result>>
  BY <1>2 DEF proposeRoundCommit, auditBlocked, evaluate, upsertResult,
     abort, setPlacement
<1>3. UNCHANGED vars => UNCHANGED <<applicationStatus, result>>
  BY DEF vars
<1> QED
  BY <1>1, <1>2, <1>3 DEF Next, Step

(* What a commit found and what it writes, for an application that was not *)
(* crossed.                                                                *)
LEMMA Commits ==
  ASSUME IInv, NEW r \in Request, NEW a \in Application,
         applicationStatus'[a] # applicationStatus[a],
         \/ applyCommit(r) \/ withdrawCommit(r)
         \/ shortlistCommit(r) \/ recordCommit(r)
  PROVE  /\ a = App(r) /\ tx[r] \in OpenTx /\ TxSound(tx[r]) /\ Fresh(tx[r])
         /\ tx[r].pc = "commit"
         /\ \/ /\ tx[r].op = "apply" /\ applyCommit(r)
               /\ applicationStatus[a] = "ABSENT" /\ applicationStatus'[a] = "APPLIED"
            \/ /\ tx[r].op = "withdraw" /\ applicationStatus'[a] = "WITHDRAWN"
               /\ applicationStatus[a] # "ABSENT"
            \/ /\ tx[r].op = "shortlist" /\ applicationStatus'[a] = "SHORTLISTED"
               /\ applicationStatus[a] # "ABSENT"
            \/ /\ tx[r].op = "record" /\ applicationStatus'[a] = tx[r].next
               /\ applicationStatus[a] # "ABSENT" /\ recordCommit(r)
               /\ tx[r].next \in {"REJECTED", "SELECTED", "IN_ROUND"}
<1>1. tx[r].pc = "commit" /\ tx[r].op \in {"apply", "withdraw", "shortlist", "record"}
  BY DEF applyCommit, withdrawCommit, shortlistCommit, SetStatus, recordCommit
<1>2. tx[r] # Idle /\ tx[r] \in OpenTx /\ TxSound(tx[r]) /\ Fresh(tx[r])
  BY <1>1, OpenIsTyped DEF IInv, BaseInv, TxInv, FreshInv
<1>3. App(r) \in Application /\ App(r) = <<tx[r].student, tx[r].drive>>
  BY <1>1, <1>2 DEF App, Application, OpenTx, TxSound
<1>4. CASE applyCommit(r)
  BY <1>1, <1>2, <1>3, <1>4 DEF applyCommit, IInv, BaseInv, TableTypes
<1>5. CASE withdrawCommit(r) \/ shortlistCommit(r)
  BY <1>1, <1>2, <1>3, <1>5 DEF withdrawCommit, shortlistCommit, SetStatus,
     IInv, BaseInv, TableTypes, TxSound
<1>6. CASE recordCommit(r)
  <2>1. tx[r].op = "record"
    BY <1>6 DEF recordCommit
  <2>2. tx[r].next \in {"REJECTED", "SELECTED", "IN_ROUND"}
    BY <1>1, <1>2, <2>1, DerivedStatus DEF TxSound, OpenTx
  <2>3. applicationStatus' = [applicationStatus EXCEPT ![App(r)] = tx[r].next]
    BY <1>6 DEF recordCommit
  <2>4. a = App(r) /\ applicationStatus'[a] = tx[r].next
    BY <1>3, <2>3 DEF IInv, BaseInv, TableTypes
  <2> QED
    BY <1>1, <1>2, <1>3, <1>6, <2>1, <2>2, <2>4 DEF TxSound
<1> QED
  BY <1>4, <1>5, <1>6

(* A second apply() never resets an application that has moved on: the     *)
(* insert fails on the unique index (applications.service.ts:174-202).     *)
THEOREM ApplyingTwiceIsHarmless == Spec => NeverReapplied
<1>1. ASSUME IInv, [Next]_vars, NEW a \in Application,
             applicationStatus'[a] = "APPLIED"
      PROVE  applicationStatus[a] \in {"ABSENT", "APPLIED"}
  BY <1>1, Writers, Commits
<1>2. IInv /\ [Next]_vars =>
        [\A a \in Application : applicationStatus'[a] = "APPLIED" =>
           applicationStatus[a] \in {"ABSENT", "APPLIED"}]_vars
  BY <1>1
<1> QED
  BY <1>2, Invariance, PTL DEF Spec, NeverReapplied

(* A withdrawn application stays withdrawn unless it was crossed: every    *)
(* later request is refused (applications.service.ts:255-259, 295, 326).   *)
THEOREM WithdrawnForGood == Spec => WithdrawnStays
<1>1. ASSUME IInv, [Next]_vars, NEW a \in Application,
             applicationStatus[a] = "WITHDRAWN" /\ a \notin crossed
      PROVE  applicationStatus'[a] = "WITHDRAWN"
  <2> SUFFICES ASSUME applicationStatus'[a] # applicationStatus[a] PROVE FALSE
    BY <1>1
  <2>1. PICK r \in Request : applyCommit(r) \/ withdrawCommit(r)
                             \/ shortlistCommit(r) \/ recordCommit(r)
    BY <1>1, Writers
  <2> QED
    BY <1>1, <2>1, Commits DEF Fresh, App, TERMINAL_APPLICATION_STATUSES
<1>2. IInv /\ [Next]_vars =>
        [\A a \in Application :
           (applicationStatus[a] = "WITHDRAWN" /\ a \notin crossed) =>
             applicationStatus'[a] = "WITHDRAWN"]_vars
  BY <1>1
<1> QED
  BY <1>2, Invariance, PTL DEF Spec, WithdrawnStays

(* A decided application is changed by results only, unless it was crossed *)
(* (applications.service.ts:255-259, 295-299).                             *)
THEOREM DecidedChangesByResults == Spec => DecidedOnlyByResults
<1>1. ASSUME IInv, [Next]_vars, NEW a \in Application,
             applicationStatus[a] \in {"SELECTED", "REJECTED"} /\ a \notin crossed
      PROVE  applicationStatus'[a] \in {"SELECTED", "REJECTED", "IN_ROUND"}
  <2>1. CASE applicationStatus'[a] = applicationStatus[a]
    BY <1>1, <2>1
  <2>2. CASE applicationStatus'[a] # applicationStatus[a]
    <3>1. PICK r \in Request : applyCommit(r) \/ withdrawCommit(r)
                               \/ shortlistCommit(r) \/ recordCommit(r)
      BY <1>1, <2>2, Writers
    <3> QED
      BY <1>1, <2>2, <3>1, Commits DEF Fresh, App, TERMINAL_APPLICATION_STATUSES
  <2> QED
    BY <2>1, <2>2
<1>2. IInv /\ [Next]_vars =>
        [\A a \in Application :
           (applicationStatus[a] \in {"SELECTED", "REJECTED"} /\ a \notin crossed) =>
             applicationStatus'[a] \in {"SELECTED", "REJECTED", "IN_ROUND"}]_vars
  BY <1>1
<1> QED
  BY <1>2, Invariance, PTL DEF Spec, DecidedOnlyByResults

(* At the moment an application comes to be, its student is not debarred   *)
(* and its drive is open, unless the status or the placement changed under *)
(* the request (applications.service.ts:139-173).                          *)
THEOREM AppliesWhileAllowed == Spec => AppliedWhileAllowed
<1>1. ASSUME IInv, [Next]_vars, NEW a \in Application \ crossed,
             applicationStatus[a] = "ABSENT" /\ applicationStatus'[a] # "ABSENT"
      PROVE  a[1] \notin debarred /\ driveStatus[a[2]] \in OPEN_DRIVE_STATUSES
  <2>1. PICK r \in Request : applyCommit(r) \/ withdrawCommit(r)
                             \/ shortlistCommit(r) \/ recordCommit(r)
    BY <1>1, Writers
  <2>2. /\ a = <<tx[r].student, tx[r].drive>> /\ tx[r].op = "apply"
        /\ tx[r].pc = "commit" /\ Fresh(tx[r])
    BY <1>1, <2>1, Commits DEF App
  <2> QED
    BY <1>1, <2>2 DEF Fresh
<1>2. IInv /\ [Next]_vars =>
        [\A a \in Application \ crossed :
           (applicationStatus[a] = "ABSENT" /\ applicationStatus'[a] # "ABSENT") =>
             a[1] \notin debarred /\ driveStatus[a[2]] \in OPEN_DRIVE_STATUSES]_vars
  BY <1>1
<1> QED
  BY <1>2, Invariance, PTL DEF Spec, AppliedWhileAllowed

(* Becoming SELECTED takes a PASS in the last round, unless a round was    *)
(* added after the rounds were read (applications.service.ts:362-370).     *)
THEOREM SelectedByLastRound == Spec => SelectedByLast
<1>1. ASSUME IInv, [Next]_vars, NEW a \in Application \ crossed,
             applicationStatus[a] # "SELECTED" /\ applicationStatus'[a] = "SELECTED"
      PROVE  \E p \in rounds[a[2]] : /\ result'[a][p] = "PASS"
                                     /\ \A q \in rounds[a[2]] : q <= p
  <2>1. PICK r \in Request : applyCommit(r) \/ withdrawCommit(r)
                             \/ shortlistCommit(r) \/ recordCommit(r)
    BY <1>1, Writers
  <2>2. /\ a = <<tx[r].student, tx[r].drive>> /\ tx[r] \in OpenTx
        /\ tx[r].op = "record" /\ tx[r].pc = "commit" /\ recordCommit(r)
        /\ TxSound(tx[r]) /\ Fresh(tx[r]) /\ tx[r].next = "SELECTED"
    BY <1>1, <2>1, Commits DEF App
  <2>3. "SELECTED" = deriveApplicationStatusFromRoundResult(
                       tx[r].recorded, tx[r].position, rounds[a[2]])
    BY <1>1, <2>2 DEF Fresh
  <2>4. /\ tx[r].position \in rounds[a[2]] /\ tx[r].recorded = "PASS"
        /\ \A q \in rounds[a[2]] : q <= tx[r].position
    BY <2>2, <2>3 DEF deriveApplicationStatusFromRoundResult, TxSound
  <2>5. tx[r].position \in Position
    <3>1. a[2] = tx[r].drive /\ tx[r].drive \in Drive
      BY <2>2 DEF OpenTx
    <3>2. rounds[tx[r].drive] \subseteq Position
      BY <1>1, <3>1 DEF IInv, BaseInv, TableTypes
    <3> QED
      BY <2>4, <3>1, <3>2
  <2>6. result'[a][tx[r].position] = "PASS"
    BY <1>1, <2>2, <2>4, <2>5 DEF recordCommit, App, IInv, BaseInv, TableTypes
  <2> QED
    BY <2>4, <2>6
<1>2. IInv /\ [Next]_vars =>
        [\A a \in Application \ crossed :
           (applicationStatus[a] # "SELECTED" /\ applicationStatus'[a] = "SELECTED") =>
             \E p \in rounds[a[2]] : /\ result'[a][p] = "PASS"
                                     /\ \A q \in rounds[a[2]] : q <= p]_vars
  BY <1>1
<1> QED
  BY <1>2, Invariance, PTL DEF Spec, SelectedByLast

(* A coordinator's round joins the pipeline of a drive in DRAFT, unless    *)
(* the drive's status was set in between (drives.controller.ts:147-155).   *)
THEOREM ProposedOnlyInDraft == Spec => ProposedInDraft
<1>1. ASSUME IInv, NEW r \in Request,
             tx[r].pc = "commit" /\ tx[r].op = "round"
      PROVE  driveStatus[tx[r].drive] = "DRAFT" \/ tx[r].drive \in crossed
  BY <1>1, OpenIsTyped DEF IInv, BaseInv, FreshInv, Fresh
<1>2. IInv /\ [Next]_vars =>
        [\A r \in Request :
           (tx[r].pc = "commit" /\ tx[r].op = "round" /\ tx'[r] = Idle
            /\ rounds' # rounds) =>
             driveStatus[tx[r].drive] = "DRAFT" \/ tx[r].drive \in crossed]_vars
  BY <1>1
<1> QED
  BY <1>2, Invariance, PTL DEF Spec, ProposedInDraft

(* An application that no requests crossed keeps its history: nothing      *)
(* reapplies, revives, rewinds or decides it but a result, in any round    *)
(* order (applications.service.ts:174-202, 255-301, 326-375).              *)
THEOREM HistoryKept == Spec => StatusHistory
BY ApplyingTwiceIsHarmless, WithdrawnForGood, NeverRewound, DecidedChangesByResults,
   SelectedByLastRound, PTL DEF StatusHistory
=============================================================================

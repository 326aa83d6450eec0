--------------------------- MODULE Offers_proofs ---------------------------
(***************************************************************************)
(* Proofs about Offers: its type invariant, the inductive invariant IInv   *)
(* and the properties that follow from it, for any number of students,     *)
(* offers and requests and any history of policies; that Offers implements *)
(* OfferLedger; and, in the last section, a second layer of the invariant, *)
(* about what requests have read of offers on which no others crossed.     *)
(***************************************************************************)
EXTENDS Offers, TLAPS

-----------------------------------------------------------------------------
(* The offer rules.                                                        *)

(* Ranks are numbers, so they can be compared and chained. *)
LEMMA SlabRankType == \A k : SlabRank(k) \in -1..2
  BY DEF SlabRank

(* Whatever the cap, an allowed proposal shares its tier with no active    *)
(* offer.                                                                  *)
LEMMA AllowedKeepsTiersApart ==
  ASSUME NEW k, NEW existing, NEW c, NEW p,
         k # NoSlab, checkOfferEligibility(k, existing, c, p)
  PROVE  \A e \in existing : e.status \in Active => e.slab # k
  BY DEF checkOfferEligibility, CapAllows

(* Under the total cap there is no active offer at all. *)
LEMMA AllowedUnderTotalCap ==
  ASSUME NEW k, NEW existing, NEW p,
         NoPolicy # "ONE_TOTAL", checkOfferEligibility(k, existing, "ONE_TOTAL", p)
  PROVE  \A e \in existing : e.status \notin Active
  BY DEF checkOfferEligibility, CapAllows, EffectiveCap

(* An allowed proposal in a tier is above every accepted offer. *)
LEMMA AllowedClimbs ==
  ASSUME NEW k, NEW existing, NEW c, NEW p,
         k # NoSlab, checkOfferEligibility(k, existing, c, p)
  PROVE  \A e \in existing :
           e.status = "ACCEPTED" => SlabRank(e.slab) < SlabRank(k)
<1> SUFFICES ASSUME NEW e \in existing, e.status = "ACCEPTED"
             PROVE  SlabRank(e.slab) < SlabRank(k)
  OBVIOUS
<1>1. ReEligibilityAllows(k, existing, p)
  BY DEF checkOfferEligibility
<1>2. PICK highest \in existing :
        /\ SlabRank(e.slab) <= SlabRank(highest.slab)
        /\ SlabRank(k) > SlabRank(highest.slab)
  BY <1>1 DEF ReEligibilityAllows
<1> QED
  BY <1>2, SlabRankType

-----------------------------------------------------------------------------
(* Type correctness.                                                       *)

LEMMA InitType == Init => TypeOK
  BY DEF Init, TypeOK, Idle, PlacementStatus

(* The actions that open a transaction. *)
LEMMA BeginType ==
  ASSUME TypeOK, NEW r \in Request, NEW o \in Offer, NEW s \in Student,
         NEW k \in SlabOrNull, NEW pc \in {"lock", "decide", "commit"},
         NEW op \in Op, Begin(r, pc, op, o, s, k)
  PROVE  TypeOK'
  BY DEF TypeOK, Begin, OpenTx, offers, policies

LEMMA RollbackType ==
  ASSUME TypeOK, NEW r \in Request, Rollback(r)
  PROVE  /\ tx' \in [Request -> OpenTx \cup {Idle}]
         /\ lock' \in [Student -> Request \cup {None}]
  BY DEF TypeOK, Rollback

LEMMA DecideType ==
  ASSUME TypeOK, NEW r \in Request, NEW outcome \in PlacementStatus \cup {None},
         tx[r].pc = "decide", Decide(r, outcome)
  PROVE  /\ tx' \in [Request -> OpenTx \cup {Idle}]
         /\ lock' \in [Student -> Request \cup {None}]
<1>1. tx[r] \in OpenTx
  BY DEF TypeOK, Idle
<1> QED
  BY <1>1 DEF TypeOK, Decide, OpenTx

LEMMA CommitType ==
  ASSUME TypeOK, NEW r \in Request, NEW op \in Op,
         NEW newStatus \in OfferStatus, NEW newAudit \in AuditRow \cup {None},
         Commit(r, op, newStatus, newAudit)
  PROVE  /\ tx[r] \in OpenTx
         /\ status' \in [Offer -> OfferStatus \cup {"ABSENT"}]
         /\ placement' \in [Student -> PlacementStatus]
         /\ audit' \in AuditRow \cup {None}
         /\ tx' \in [Request -> OpenTx \cup {Idle}]
         /\ lock' \in [Student -> Request \cup {None}]
<1>1. tx[r] \in OpenTx
  BY DEF TypeOK, Commit, Idle
<1>2. /\ status' \in [Offer -> OfferStatus \cup {"ABSENT"}]
      /\ audit' \in AuditRow \cup {None}
  BY <1>1 DEF TypeOK, Commit
<1>3. placement' \in [Student -> PlacementStatus]
  BY <1>1 DEF TypeOK, Commit, OpenTx
<1>4. /\ tx' \in [Request -> OpenTx \cup {Idle}]
      /\ lock' \in [Student -> Request \cup {None}]
  BY RollbackType DEF Commit
<1> QED
  BY <1>1, <1>2, <1>3, <1>4

LEMMA InsertType ==
  ASSUME TypeOK, NEW r \in Request, NEW op \in Op,
         NEW newStatus \in OfferStatus, Insert(r, op, newStatus)
  PROVE  TypeOK'
<1>1. audit \in AuditRow \cup {None}
  BY DEF TypeOK
<1>2. /\ tx[r] \in OpenTx
      /\ status' \in [Offer -> OfferStatus \cup {"ABSENT"}]
      /\ placement' \in [Student -> PlacementStatus]
      /\ audit' \in AuditRow \cup {None}
      /\ tx' \in [Request -> OpenTx \cup {Idle}]
      /\ lock' \in [Student -> Request \cup {None}]
  BY <1>1, CommitType DEF Insert
<1>3. /\ slab' \in [Offer -> SlabOrNull \cup {None}]
      /\ owner' \in [Offer -> Student \cup {None}]
  BY <1>2 DEF TypeOK, Insert, OpenTx
<1> QED
  BY <1>2, <1>3 DEF TypeOK, Insert, Commit, policies

LEMMA UpdateType ==
  ASSUME TypeOK, NEW r \in Request, NEW op \in Op,
         NEW newStatus \in OfferStatus, NEW newAudit \in AuditRow \cup {None},
         Commit(r, op, newStatus, newAudit), UNCHANGED <<slab, owner>>
  PROVE  TypeOK'
<1>1. /\ status' \in [Offer -> OfferStatus \cup {"ABSENT"}]
      /\ placement' \in [Student -> PlacementStatus]
      /\ audit' \in AuditRow \cup {None}
      /\ tx' \in [Request -> OpenTx \cup {Idle}]
      /\ lock' \in [Student -> Request \cup {None}]
  BY CommitType
<1> QED
  BY <1>1 DEF TypeOK, Commit, policies

(* RowsInv supplies the student and tier of the offer a request names. *)
LEMMA ReceiveType ==
  ASSUME TypeOK, RowsInv, NEW r \in Request, Receive(r)
  PROVE  TypeOK'
<1>1. PICK o \in Offer :
        \/ \E s \in Student, k \in ProposedSlabs :
             \/ \E scope \in {"PROPOSE", "FULL"} : create(r, scope, o, s, k)
             \/ createPpo(r, o, s, k)
        \/ approve(r, o) \/ accept(r, o) \/ reject(r, o) \/ revoke(r, o)
  BY DEF Receive
<1>2. ASSUME NEW s \in Student, NEW k \in ProposedSlabs,
             \/ \E scope \in {"PROPOSE", "FULL"} : create(r, scope, o, s, k)
             \/ createPpo(r, o, s, k)
      PROVE  TypeOK'
  <2>1. k \in SlabOrNull
    BY SlabAssumption
  <2>2. \/ Begin(r, "commit", "propose", o, s, k)
        \/ Begin(r, "lock", "extend", o, s, k)
    BY <1>2 DEF create, createPpo
  <2> QED
    BY <2>1, <2>2, BeginType DEF Op, Gated
<1>3. CASE approve(r, o) \/ accept(r, o) \/ reject(r, o) \/ revoke(r, o)
  <2>1. status[o] # "ABSENT"
    BY <1>3 DEF approve, accept, reject, revoke
  <2>2. owner[o] \in Student /\ slab[o] \in SlabOrNull
    BY <2>1 DEF RowsInv
  <2>3. \E op \in Op : Begin(r, "lock", op, o, owner[o], slab[o])
    BY <1>3 DEF approve, accept, reject, revoke, Op, Gated
  <2> QED
    BY <2>2, <2>3, BeginType
<1> QED
  BY <1>1, <1>2, <1>3

LEMMA StepType == TypeOK /\ RowsInv /\ [Next]_vars => TypeOK'
<1> SUFFICES ASSUME TypeOK, RowsInv, [Next]_vars PROVE TypeOK'
  OBVIOUS
<1>1. ASSUME NEW r \in Request, Receive(r) PROVE TypeOK'
  BY <1>1, ReceiveType
<1>2. ASSUME NEW r \in Request, lockStudent(r) PROVE TypeOK'
  <2>1. tx[r] \in OpenTx
    BY <1>2 DEF TypeOK, lockStudent, Idle
  <2>2. capPolicy \in CapPolicies
    BY DEF TypeOK
  <2> DEFINE t == [tx[r] EXCEPT !.pc = "decide",
                     !.cap = IF tx[r].op \in Gated THEN capPolicy ELSE None]
  <2>3. t \in OpenTx
    BY <2>1, <2>2 DEF OpenTx
  <2>4. tx' = [tx EXCEPT ![r] = t] /\ lock' = [lock EXCEPT ![tx[r].student] = r]
    BY <1>2 DEF lockStudent, TypeOK
  <2>5. /\ tx' \in [Request -> OpenTx \cup {Idle}]
        /\ lock' \in [Student -> Request \cup {None}]
    <3> HIDE DEF t
    <3> QED BY <2>1, <2>3, <2>4 DEF TypeOK
  <2> QED
    BY <1>2, <2>5 DEF TypeOK, lockStudent, offers, policies
<1>3. ASSUME NEW r \in Request, UnderLock(r) PROVE TypeOK'
  <2>1. \/ Rollback(r)
        \/ /\ tx[r].pc = "decide"
           /\ \E outcome \in PlacementStatus \cup {None} : Decide(r, outcome)
    BY <1>3 DEF UnderLock, assertOfferAllowed, countRejections, countRemaining,
                PlacementStatus
  <2>2. /\ tx' \in [Request -> OpenTx \cup {Idle}]
        /\ lock' \in [Student -> Request \cup {None}]
    BY <2>1, RollbackType, DecideType
  <2>3. UNCHANGED <<offers, placement, audit, policies, crossed>>
    BY <1>3 DEF UnderLock, assertOfferAllowed, countRejections, countRemaining
  <2> QED
    BY <2>2, <2>3 DEF TypeOK, offers, policies
<1>4. ASSUME NEW r \in Request, proposeCommit(r) \/ extendCommit(r) PROVE TypeOK'
  BY <1>4, InsertType DEF proposeCommit, extendCommit, OfferStatus, Op, Gated
<1>5. ASSUME NEW r \in Request,
             approveCommit(r) \/ acceptCommit(r) \/ rejectCommit(r)
      PROVE  TypeOK'
  <2>1. tx[r] \in OpenTx
    BY <1>5 DEF TypeOK, approveCommit, acceptCommit, rejectCommit, Commit, Idle
  <2>2. audit \in AuditRow \cup {None}
    BY DEF TypeOK
  <2>3. [action |-> "student.debarred", offer |-> tx[r].offer,
         previousStatus |-> None] \in AuditRow
    BY <2>1 DEF AuditRow, OpenTx
  <2> QED
    BY <1>5, <2>2, <2>3, UpdateType
    DEF approveCommit, acceptCommit, rejectCommit, OfferStatus, Op, Gated
<1>6. ASSUME NEW r \in Request, revokeCommit(r) PROVE TypeOK'
  <2>1. tx[r] \in OpenTx
    BY <1>6 DEF TypeOK, revokeCommit, Commit, Idle
  <2>2. [action |-> "offer.revoked", offer |-> tx[r].offer,
         previousStatus |-> tx[r].seen] \in AuditRow
    BY <2>1 DEF AuditRow, OpenTx
  <2> QED
    BY <1>6, <2>2, UpdateType DEF revokeCommit, OfferStatus, Op
<1>7. ASSUME NEW r \in Request, abort(r) PROVE TypeOK'
  BY <1>7, RollbackType DEF abort, TypeOK, offers, policies
<1>8. CASE activateOfferCap \/ activateReEligibility \/ activateDebarRule
  BY <1>8 DEF activateOfferCap, activateReEligibility, activateDebarRule,
              TypeOK, offers
<1>9. CASE UNCHANGED vars
  BY <1>9 DEF TypeOK, vars, offers, policies
<1> QED
  BY <1>1, <1>2, <1>3, <1>4, <1>5, <1>6, <1>7, <1>8, <1>9 DEF Next, Finish

-----------------------------------------------------------------------------
(* The inductive invariant, one lemma per kind of step.                    *)

(* Steps that write neither offers nor students keep what is said of them. *)
LEMMA QuietStep ==
  ASSUME IInv, UNCHANGED <<offers, placement>>
  PROVE  RowsInv' /\ OneActivePerTier' /\ UnplacedHasNoAccepted'
  BY DEF IInv, offers, RowsInv, OneActivePerTier, UnplacedHasNoAccepted

(* A request reads an existing offer and opens its transaction. *)
LEMMA BeginExistingStep ==
  ASSUME IInv, NEW r \in Request, NEW o \in Offer,
         NEW op \in {"approve", "accept", "reject", "revoke"},
         status[o] # "ABSENT", Begin(r, "lock", op, o, owner[o], slab[o])
  PROVE  TxInv' /\ LockInv' /\ DecidedInv'
<1> USE DEF IInv
<1>1. /\ tx[r] = Idle
      /\ tx' = [tx EXCEPT ![r] =
           [pc |-> "lock", op |-> op, offer |-> o, student |-> owner[o],
            slab |-> slab[o], seen |-> status[o], cap |-> None, outcome |-> None]]
      /\ UNCHANGED <<status, slab, owner, lock>>
  BY DEF Begin, offers
<1>2. tx \in [Request -> OpenTx \cup {Idle}]
  BY DEF TypeOK
<1>3. TxInv'
  BY <1>1, <1>2 DEF TxInv, Open, Inserts, Idle
<1>4. LockInv'
  BY <1>1, <1>2 DEF LockInv, Holds
<1>5. DecidedInv'
  BY <1>1, <1>2 DEF DecidedInv, OthersOf
<1> QED
  BY <1>3, <1>4, <1>5

(* A request opens the transaction that inserts a new offer. *)
LEMMA BeginInsertStep ==
  ASSUME IInv, NEW r \in Request, NEW o \in Offer, NEW s \in Student,
         NEW k \in SlabOrNull, Fresh(o),
         \/ Begin(r, "commit", "propose", o, s, k)
         \/ Begin(r, "lock", "extend", o, s, k)
  PROVE  TxInv' /\ LockInv' /\ DecidedInv'
<1> USE DEF IInv
<1>1. PICK pc, op :
        /\ \/ pc = "commit" /\ op = "propose"
           \/ pc = "lock" /\ op = "extend"
        /\ tx[r] = Idle
        /\ tx' = [tx EXCEPT ![r] =
             [pc |-> pc, op |-> op, offer |-> o, student |-> s,
              slab |-> k, seen |-> status[o], cap |-> None, outcome |-> None]]
        /\ UNCHANGED <<status, slab, owner, lock>>
  BY DEF Begin, offers
<1>2. tx \in [Request -> OpenTx \cup {Idle}]
  BY DEF TypeOK
<1>3. TxInv'
  <2>1. /\ status[o] = "ABSENT"
        /\ tx'[r].op = op /\ tx'[r].offer = o
        /\ \A q \in Request \ {r} : tx'[q] = tx[q] /\ tx[q].offer # o
    BY <1>1, <1>2 DEF Fresh
  <2> SUFFICES ASSUME NEW q \in Request, Open(q)'
               PROVE  /\ ~Inserts(q)' =>
                           /\ status[tx'[q].offer] # "ABSENT"
                           /\ owner[tx'[q].offer] = tx'[q].student
                           /\ slab[tx'[q].offer] = tx'[q].slab
                      /\ Inserts(q)' =>
                           /\ status[tx'[q].offer] = "ABSENT"
                           /\ \A v \in Request \ {q} : tx'[v].offer # tx'[q].offer
    BY <1>1 DEF TxInv
  <2>2. CASE q = r
    BY <2>1, <2>2, <1>1 DEF Inserts, Open
  <2>3. CASE q # r
    BY <2>1, <2>3 DEF TxInv, Inserts, Open
  <2> QED
    BY <2>2, <2>3
<1>4. LockInv'
  BY <1>1, <1>2 DEF LockInv, Holds
<1>5. DecidedInv'
  BY <1>1, <1>2, NoneAssumption DEF DecidedInv, OthersOf, Gated, PlacementStatus
<1> QED
  BY <1>3, <1>4, <1>5

LEMMA LockStep ==
  ASSUME IInv, NEW r \in Request, lockStudent(r)
  PROVE  TxInv' /\ LockInv' /\ DecidedInv'
<1> USE DEF IInv
<1>1. /\ tx[r].pc = "lock" /\ lock[tx[r].student] = None
      /\ lock' = [lock EXCEPT ![tx[r].student] = r]
      /\ UNCHANGED <<status, slab, owner>>
  BY DEF lockStudent, offers
<1>2. tx \in [Request -> OpenTx \cup {Idle}] /\ lock \in [Student -> Request \cup {None}]
  BY DEF TypeOK
<1>3. tx[r] \in OpenTx
  BY <1>1, <1>2 DEF Idle
<1>4. /\ tx'[r].pc = "decide" /\ tx'[r] # Idle
      /\ tx'[r].op = tx[r].op /\ tx'[r].offer = tx[r].offer
      /\ tx'[r].student = tx[r].student /\ tx'[r].slab = tx[r].slab
      /\ \A q \in Request \ {r} : tx'[q] = tx[q]
  <2>1. PICK cap :
          tx' = [tx EXCEPT ![r] = [[tx[r] EXCEPT !.pc = "decide"] EXCEPT !.cap = cap]]
    BY <1>2 DEF lockStudent
  <2>2. tx'[r] = [[tx[r] EXCEPT !.pc = "decide"] EXCEPT !.cap = cap]
    BY <1>2, <2>1
  <2>3. \A q \in Request \ {r} : tx'[q] = tx[q]
    BY <1>2, <2>1
  <2>4. /\ tx'[r].pc = "decide" /\ tx'[r].op = tx[r].op /\ tx'[r].offer = tx[r].offer
        /\ tx'[r].student = tx[r].student /\ tx'[r].slab = tx[r].slab
    BY <1>3, <2>2 DEF OpenTx
  <2> QED
    BY <2>3, <2>4 DEF Idle
<1>5. TxInv'
  BY <1>1, <1>3, <1>4 DEF TxInv, Open, Inserts, Idle, OpenTx
<1>6. LockInv'
  <2> SUFFICES ASSUME NEW q \in Request, Holds(q)'
               PROVE  lock'[tx'[q].student] = q
    BY DEF LockInv
  <2>1. CASE q = r
    BY <2>1, <1>1, <1>2, <1>3, <1>4 DEF OpenTx
  <2>2. CASE q # r
    <3>1. Holds(q) /\ tx'[q] = tx[q]
      BY <2>2, <1>4 DEF Holds
    <3>2. lock[tx[q].student] = q /\ q # None
      BY <3>1, NoneAssumption DEF LockInv
    <3> QED
      BY <3>1, <3>2, <1>1, <1>2
  <2> QED
    BY <2>1, <2>2
<1>7. DecidedInv'
  BY <1>1, <1>4 DEF DecidedInv, OthersOf
<1> QED
  BY <1>5, <1>6, <1>7

(* A decision is taken: Decided says what it recorded.                     *)
LEMMA DecideStep ==
  ASSUME IInv, NEW r \in Request, UnderLock(r), ~Rollback(r)
  PROVE  TxInv' /\ LockInv' /\ DecidedInv'
<1> USE DEF IInv
<1>1. PICK outcome \in PlacementStatus \cup {None} :
        /\ tx[r].pc = "decide" /\ Decide(r, outcome)
        /\ tx[r].op \in Gated =>
             /\ Allowed(r)
             /\ outcome = IF tx[r].op = "accept" THEN "PLACED" ELSE None
        /\ outcome = "UNPLACED" =>
             /\ tx[r].op = "revoke"
             /\ \A o \in OthersOf(r) : status[o] # "ACCEPTED"
  BY NoneAssumption
  DEF UnderLock, assertOfferAllowed, countRejections, countRemaining,
      PlacementStatus, Gated
<1>2. UNCHANGED <<status, slab, owner, lock>>
  BY DEF UnderLock, assertOfferAllowed, countRejections, countRemaining,
         offers, Decide, Rollback
<1>3. tx \in [Request -> OpenTx \cup {Idle}]
  BY DEF TypeOK
<1>4. tx[r] \in OpenTx
  BY <1>1, <1>3 DEF Idle
<1>5. /\ tx'[r].pc = "commit" /\ tx'[r].outcome = outcome /\ tx'[r] # Idle
      /\ tx'[r].op = tx[r].op /\ tx'[r].offer = tx[r].offer
      /\ tx'[r].student = tx[r].student /\ tx'[r].slab = tx[r].slab
      /\ \A q \in Request \ {r} : tx'[q] = tx[q]
  BY <1>1, <1>3, <1>4 DEF Decide, OpenTx, Idle
<1>6. TxInv'
  BY <1>1, <1>2, <1>4, <1>5 DEF TxInv, Open, Inserts, Idle, OpenTx
<1>7. LockInv'
  BY <1>1, <1>2, <1>5 DEF LockInv, Holds
<1>8. DecidedInv'
  <2>1. \A q \in Request : OthersOf(q)' = OthersOf(q)
    BY <1>2, <1>5 DEF OthersOf
  <2>2. ASSUME tx[r].op \in Gated, tx[r].slab # NoSlab
        PROVE  \A o \in OthersOf(r) :
                 /\ status[o] \in Active => slab[o] # tx[r].slab
                 /\ status[o] = "ACCEPTED" =>
                      SlabRank(slab[o]) < SlabRank(tx[r].slab)
    <3>1. checkOfferEligibility(tx[r].slab, existingOffersFor(r), tx[r].cap,
                                reEligibilityPolicy)
      BY <1>1, <2>2 DEF Allowed
    <3>2. \A e \in existingOffersFor(r) :
            /\ e.status \in Active => e.slab # tx[r].slab
            /\ e.status = "ACCEPTED" => SlabRank(e.slab) < SlabRank(tx[r].slab)
      BY <2>2, <3>1, AllowedKeepsTiersApart, AllowedClimbs
    <3> SUFFICES ASSUME NEW o \in OthersOf(r)
                 PROVE  /\ status[o] \in Active => slab[o] # tx[r].slab
                        /\ status[o] = "ACCEPTED" =>
                             SlabRank(slab[o]) < SlabRank(tx[r].slab)
      OBVIOUS
    <3>3. [slab |-> slab[o], status |-> status[o]] \in existingOffersFor(r)
      BY DEF existingOffersFor
    <3> QED
      BY <3>2, <3>3
  <2>3. ASSUME NEW q \in Request \ {r} PROVE tx'[q] = tx[q]
    BY <1>5
  <2> SUFFICES ASSUME NEW q \in Request, tx'[q].pc = "commit"
               PROVE  /\ (tx'[q].op \in Gated /\ tx'[q].slab # NoSlab) =>
                           \A o \in OthersOf(q) :
                             status[o] \in Active => slab[o] # tx'[q].slab
                      /\ tx'[q].op = "accept" => tx'[q].outcome = "PLACED"
                      /\ (tx'[q].op = "accept" /\ tx'[q].slab # NoSlab) =>
                           \A o \in OthersOf(q) : status[o] = "ACCEPTED" =>
                             SlabRank(slab[o]) < SlabRank(tx'[q].slab)
                      /\ tx'[q].outcome = "UNPLACED" =>
                           /\ tx'[q].op = "revoke"
                           /\ \A o \in OthersOf(q) : status[o] # "ACCEPTED"
    BY <2>1, <1>2 DEF DecidedInv
  <2>4. CASE q = r
    BY <2>2, <2>4, <1>1, <1>5 DEF Gated
  <2>5. CASE q # r
    BY <2>5, <2>3 DEF DecidedInv
  <2> QED
    BY <2>4, <2>5
<1> QED
  BY <1>6, <1>7, <1>8

(* The end of a transaction gives back its own lock and no other. *)
LEMMA RollbackLock ==
  ASSUME IInv, NEW r \in Request, Rollback(r)
  PROVE  LockInv'
<1> USE DEF IInv
<1>1. tx \in [Request -> OpenTx \cup {Idle}] /\ lock \in [Student -> Request \cup {None}]
  BY DEF TypeOK
<1>2. tx'[r] = Idle /\ \A q \in Request \ {r} : tx'[q] = tx[q]
  BY <1>1 DEF Rollback
<1> SUFFICES ASSUME NEW q \in Request, Holds(q)'
             PROVE  lock'[tx'[q].student] = q
  BY DEF LockInv
<1>3. q # r
  BY <1>2 DEF Holds, Idle
<1>4. tx'[q] = tx[q] /\ Holds(q)
  BY <1>3, <1>2 DEF Holds
<1>5. lock[tx[q].student] = q /\ tx[q].student \in Student
  BY <1>4, <1>1 DEF LockInv, Holds, OpenTx, Idle
<1> QED
  BY <1>3, <1>4, <1>5 DEF Rollback

(* A refusal or a failure: nothing is written. *)
LEMMA RollbackStep ==
  ASSUME IInv, NEW r \in Request, Rollback(r), UNCHANGED offers
  PROVE  TxInv' /\ LockInv' /\ DecidedInv'
<1> USE DEF IInv
<1>1. tx \in [Request -> OpenTx \cup {Idle}] /\ lock \in [Student -> Request \cup {None}]
  BY DEF TypeOK
<1>2. /\ tx'[r] = Idle
      /\ \A q \in Request \ {r} : tx'[q] = tx[q]
  BY <1>1 DEF Rollback
<1>3. TxInv'
  BY <1>1, <1>2, NoneAssumption DEF TxInv, Open, Inserts, Idle, OpenTx, offers
<1>4. LockInv'
  BY RollbackLock
<1>5. DecidedInv'
  BY <1>2 DEF DecidedInv, OthersOf, Idle, offers
<1> QED
  BY <1>3, <1>4, <1>5

(* What a commit does to the tables.  An update finds the student and tier *)
(* its transaction carries already in the row (TxInv), so inserts and      *)
(* updates look alike.                                                     *)
Effect(r, newStatus) ==
  /\ tx[r] \in OpenTx /\ tx[r].pc = "commit"
  /\ status' = [status EXCEPT ![tx[r].offer] = newStatus]
  /\ slab' = [slab EXCEPT ![tx[r].offer] = tx[r].slab]
  /\ owner' = [owner EXCEPT ![tx[r].offer] = tx[r].student]
  /\ placement' = IF tx[r].outcome = None THEN placement
                  ELSE [placement EXCEPT ![tx[r].student] = tx[r].outcome]
  /\ Rollback(r)

(* Which operation writes which status. *)
Writes(op, newStatus) ==
  <<op, newStatus>> \in
    { <<"propose", "PENDING">>, <<"extend", "EXTENDED">>, <<"approve", "EXTENDED">>,
      <<"accept", "ACCEPTED">>, <<"reject", "REJECTED">>, <<"revoke", "REVOKED">> }

LEMMA FinishEffect ==
  ASSUME IInv, NEW r \in Request, proposeCommit(r) \/ Finish(r)
  PROVE  \E newStatus \in OfferStatus :
           Effect(r, newStatus) /\ Writes(tx[r].op, newStatus)
<1> USE DEF IInv
<1>1. PICK op, newStatus, newAudit :
        /\ Commit(r, op, newStatus, newAudit)
        /\ Writes(op, newStatus)
        /\ \/ /\ slab' = [slab EXCEPT ![tx[r].offer] = tx[r].slab]
              /\ owner' = [owner EXCEPT ![tx[r].offer] = tx[r].student]
           \/ /\ op \notin {"extend", "propose"}
              /\ UNCHANGED <<slab, owner>>
  <2>1. CASE proposeCommit(r) \/ extendCommit(r)
    BY <2>1 DEF proposeCommit, extendCommit, Insert, Writes
  <2>2. CASE approveCommit(r) \/ acceptCommit(r)
    BY <2>2 DEF approveCommit, acceptCommit, Writes
  <2>3. CASE rejectCommit(r)
    BY <2>3 DEF rejectCommit, Writes
  <2>4. CASE revokeCommit(r)
    BY <2>4 DEF revokeCommit, Writes
  <2> QED
    BY <2>1, <2>2, <2>3, <2>4 DEF Finish
<1>2. tx[r] \in OpenTx /\ tx[r].pc = "commit" /\ tx[r].op = op
  BY <1>1 DEF Commit, TypeOK, Idle
<1>3. newStatus \in OfferStatus
  BY <1>1 DEF Writes, OfferStatus
<1>4. ASSUME op \notin {"extend", "propose"}, UNCHANGED <<slab, owner>>
      PROVE  /\ slab' = [slab EXCEPT ![tx[r].offer] = tx[r].slab]
             /\ owner' = [owner EXCEPT ![tx[r].offer] = tx[r].student]
  <2>1. owner[tx[r].offer] = tx[r].student /\ slab[tx[r].offer] = tx[r].slab
    BY <1>2, <1>4 DEF TxInv, Open, Inserts, Idle, OpenTx
  <2> QED
    BY <2>1, <1>4 DEF TypeOK
<1> QED
  BY <1>1, <1>2, <1>3, <1>4 DEF Effect, Commit

LEMMA EffectOnTransactions ==
  ASSUME IInv, NEW r \in Request, NEW newStatus \in OfferStatus,
         Effect(r, newStatus), Writes(tx[r].op, newStatus)
  PROVE  RowsInv' /\ TxInv' /\ LockInv' /\ DecidedInv'
<1> USE DEF IInv
<1> DEFINE o == tx[r].offer
<1>1. /\ o \in Offer /\ tx[r].student \in Student /\ tx[r].slab \in SlabOrNull
      /\ tx[r].op \in Op /\ tx[r] # Idle
  BY DEF Effect, OpenTx, Idle
<1>2. /\ status'[o] = newStatus /\ slab'[o] = tx[r].slab
      /\ owner'[o] = tx[r].student
      /\ \A p \in Offer \ {o} : /\ status'[p] = status[p]
                               /\ slab'[p] = slab[p] /\ owner'[p] = owner[p]
  BY <1>1 DEF Effect, TypeOK
<1>3. tx'[r] = Idle /\ \A q \in Request \ {r} : tx'[q] = tx[q]
  BY DEF Effect, Rollback, TypeOK
<1>4. newStatus # "ABSENT"
  BY DEF OfferStatus
<1>5. tx \in [Request -> OpenTx \cup {Idle}] /\ lock \in [Student -> Request \cup {None}]
  BY DEF TypeOK
<1>6. RowsInv'
  BY <1>1, <1>2 DEF RowsInv
<1>7. TxInv'
  <2> SUFFICES ASSUME NEW q \in Request, Open(q)'
               PROVE  /\ ~Inserts(q)' =>
                           /\ status'[tx'[q].offer] # "ABSENT"
                           /\ owner'[tx'[q].offer] = tx'[q].student
                           /\ slab'[tx'[q].offer] = tx'[q].slab
                      /\ Inserts(q)' =>
                           /\ status'[tx'[q].offer] = "ABSENT"
                           /\ \A v \in Request \ {q} : tx'[v].offer # tx'[q].offer
    BY DEF TxInv
  <2>1. q # r /\ tx'[q] = tx[q] /\ Open(q)
    BY <1>3 DEF Open
  <2>2. tx[q].offer \in Offer
    BY <2>1, <1>5 DEF Open, OpenTx
  <2>3. CASE ~Inserts(q)
    <3>1. /\ status[tx[q].offer] # "ABSENT"
          /\ owner[tx[q].offer] = tx[q].student /\ slab[tx[q].offer] = tx[q].slab
      BY <2>1, <2>3 DEF TxInv
    <3>2. CASE tx[q].offer = o
      <4>1. ~Inserts(r)
        BY <3>1, <3>2, <1>1 DEF TxInv, Open, Inserts
      <4>2. owner[o] = tx[r].student /\ slab[o] = tx[r].slab
        BY <4>1, <1>1 DEF TxInv, Open
      <4> QED
        BY <4>2, <3>1, <3>2, <2>1, <2>3, <1>2, <1>4 DEF Inserts, Open
    <3>3. CASE tx[q].offer # o
      BY <3>1, <3>3, <2>1, <2>2, <2>3, <1>2 DEF Inserts, Open
    <3> QED
      BY <3>2, <3>3
  <2>4. CASE Inserts(q)
    <3>1. /\ status[tx[q].offer] = "ABSENT"
          /\ \A v \in Request \ {q} : tx[v].offer # tx[q].offer
      BY <2>1, <2>4 DEF TxInv
    <3>2. tx[q].offer # o
      BY <3>1, <2>1
    <3>3. \A v \in Request \ {q} : tx'[v].offer # tx'[q].offer
      BY <3>1, <2>1, <2>2, <1>3, NoneAssumption DEF Idle
    <3> QED
      BY <3>1, <3>2, <3>3, <2>1, <2>2, <2>4, <1>2 DEF Inserts, Open
  <2> QED
    BY <2>3, <2>4
<1>8. LockInv'
  BY RollbackLock DEF Effect
<1>9. DecidedInv'
  <2> SUFFICES ASSUME NEW q \in Request, tx'[q].pc = "commit"
               PROVE  /\ (tx'[q].op \in Gated /\ tx'[q].slab # NoSlab) =>
                           \A p \in OthersOf(q)' :
                             status'[p] \in Active => slab'[p] # tx'[q].slab
                      /\ tx'[q].op = "accept" => tx'[q].outcome = "PLACED"
                      /\ (tx'[q].op = "accept" /\ tx'[q].slab # NoSlab) =>
                           \A p \in OthersOf(q)' : status'[p] = "ACCEPTED" =>
                             SlabRank(slab'[p]) < SlabRank(tx'[q].slab)
                      /\ tx'[q].outcome = "UNPLACED" =>
                           /\ tx'[q].op = "revoke"
                           /\ \A p \in OthersOf(q)' : status'[p] # "ACCEPTED"
    BY DEF DecidedInv
  <2>1. q # r /\ tx'[q] = tx[q] /\ tx[q].pc = "commit"
    BY <1>3 DEF Idle
  <2>2. CASE tx[q].op = "propose"
    BY <2>1, <2>2 DEF DecidedInv, Gated
  <2>3. CASE tx[q].op # "propose"
    <3>1. lock[tx[q].student] = q
      BY <2>1, <2>3 DEF LockInv, Holds
    <3>2. tx[r].student = tx[q].student => tx[r].op = "propose"
      BY <3>1, <2>1 DEF LockInv, Holds, Effect
    <3>3. ASSUME NEW p \in OthersOf(q)', status'[p] \in Active
          PROVE  p \in OthersOf(q) /\ p # o
      <4>1. p \in Offer /\ owner'[p] = tx[q].student /\ p # tx[q].offer
        BY <2>1 DEF OthersOf
      <4>2. p # o
        BY <4>1, <3>2, <3>3, <1>2 DEF Writes, Active
      <4> QED
        BY <4>1, <4>2, <1>2 DEF OthersOf
    <3>4. \A p \in OthersOf(q)' : status'[p] \in Active =>
            p \in OthersOf(q) /\ status'[p] = status[p] /\ slab'[p] = slab[p]
      <4> SUFFICES ASSUME NEW p \in OthersOf(q)', status'[p] \in Active
                   PROVE  p \in OthersOf(q) /\ status'[p] = status[p] /\ slab'[p] = slab[p]
        OBVIOUS
      <4>1. p \in OthersOf(q) /\ p # o
        BY <3>3
      <4> QED
        BY <4>1, <1>2 DEF OthersOf
    <3> QED
      BY <3>4, <2>1 DEF DecidedInv, Active
  <2> QED
    BY <2>2, <2>3
<1> QED
  BY <1>6, <1>7, <1>8, <1>9

(* The tier a commit makes active was checked against every other offer.   *)
LEMMA EffectOnTiers ==
  ASSUME IInv, NEW r \in Request, NEW newStatus \in OfferStatus,
         Effect(r, newStatus), Writes(tx[r].op, newStatus)
  PROVE  OneActivePerTier'
<1> USE DEF IInv
<1> DEFINE o == tx[r].offer
<1>1. o \in Offer
  BY DEF Effect, OpenTx
<1>2. /\ status'[o] = newStatus /\ slab'[o] = tx[r].slab
      /\ owner'[o] = tx[r].student
      /\ \A p \in Offer \ {o} : /\ status'[p] = status[p]
                               /\ slab'[p] = slab[p] /\ owner'[p] = owner[p]
  BY <1>1 DEF Effect, TypeOK
<1>3. ASSUME NEW p \in Offer \ {o}, owner'[p] = owner'[o],
             status'[o] \in Active, status'[p] \in Active, slab'[o] # NoSlab
      PROVE  slab'[p] # slab'[o]
  <2>1. tx[r].op \in Gated /\ tx[r].slab # NoSlab
    BY <1>2, <1>3 DEF Writes, Active, Gated
  <2>2. p \in OthersOf(r) /\ status[p] \in Active
    BY <1>2, <1>3 DEF OthersOf
  <2> QED
    BY <2>1, <2>2, <1>2, <1>3 DEF DecidedInv, Effect
<1> SUFFICES ASSUME NEW p \in Offer, NEW q \in Offer,
                    p # q, owner'[p] = owner'[q], status'[p] \in Active,
                    status'[q] \in Active, slab'[p] = slab'[q]
             PROVE  slab'[p] = NoSlab
  BY DEF OneActivePerTier
<1>4. CASE p = o \/ q = o
  BY <1>3, <1>4
<1>5. CASE p # o /\ q # o
  BY <1>5, <1>2 DEF OneActivePerTier
<1> QED
  BY <1>4, <1>5

(* Only a revoke that found no other accepted offer makes a student        *)
(* UNPLACED, and every accept makes its student PLACED.                    *)
LEMMA EffectOnPlacement ==
  ASSUME IInv, NEW r \in Request, NEW newStatus \in OfferStatus,
         Effect(r, newStatus), Writes(tx[r].op, newStatus)
  PROVE  UnplacedHasNoAccepted'
<1> USE DEF IInv
<1> DEFINE o == tx[r].offer
           s == tx[r].student
<1>1. o \in Offer /\ s \in Student /\ tx[r].op \in Op
  BY DEF Effect, OpenTx
<1>2. /\ status'[o] = newStatus /\ owner'[o] = s
      /\ \A p \in Offer \ {o} : status'[p] = status[p] /\ owner'[p] = owner[p]
  BY <1>1 DEF Effect, TypeOK
<1>3. /\ tx[r].outcome = None => placement' = placement
      /\ tx[r].outcome # None =>
           /\ placement'[s] = tx[r].outcome
           /\ \A v \in Student \ {s} : placement'[v] = placement[v]
  BY <1>1 DEF Effect, TypeOK
<1> SUFFICES ASSUME NEW p \in Offer, status'[p] = "ACCEPTED"
             PROVE  placement'[owner'[p]] # "UNPLACED"
  BY DEF UnplacedHasNoAccepted
<1>4. CASE p = o
  <2>1. tx[r].op = "accept"
    BY <1>2, <1>4 DEF Writes
  <2>2. tx[r].outcome = "PLACED"
    BY <2>1 DEF DecidedInv, Effect
  <2> QED
    BY <2>2, <1>2, <1>3, <1>4, NoneAssumption DEF PlacementStatus
<1>5. CASE p # o
  <2>1. status[p] = "ACCEPTED" /\ owner'[p] = owner[p] /\ owner[p] \in Student
    BY <1>2, <1>5 DEF RowsInv
  <2>2. placement[owner[p]] # "UNPLACED"
    BY <2>1 DEF UnplacedHasNoAccepted
  <2>3. owner[p] = s => tx[r].outcome # "UNPLACED"
    BY <2>1, <1>5 DEF DecidedInv, OthersOf, Effect
  <2> QED
    BY <2>1, <2>2, <2>3, <1>3
<1> QED
  BY <1>4, <1>5

-----------------------------------------------------------------------------
(* The theorems.                                                           *)

LEMMA InitInv == Init => IInv
<1> SUFFICES ASSUME Init PROVE IInv
  OBVIOUS
<1>1. TypeOK
  BY InitType
<1>2. \A r \in Request : tx[r] = Idle
  BY DEF Init
<1>3. RowsInv /\ OneActivePerTier /\ UnplacedHasNoAccepted
  BY DEF Init, RowsInv, OneActivePerTier, UnplacedHasNoAccepted, Active
<1>4. TxInv /\ LockInv /\ DecidedInv
  BY <1>2 DEF TxInv, Open, LockInv, Holds, DecidedInv, Idle
<1> QED
  BY <1>1, <1>3, <1>4 DEF IInv

LEMMA StepInv == IInv /\ [Next]_vars => IInv'
<1> SUFFICES ASSUME IInv, [Next]_vars PROVE IInv'
  OBVIOUS
<1>1. TypeOK'
  BY StepType DEF IInv
<1>2. ASSUME NEW r \in Request, Receive(r) PROVE IInv'
  <2>1. UNCHANGED <<offers, placement>>
    BY <1>2 DEF Receive, create, createPpo, approve, accept, reject, revoke, Begin
  <2>2. PICK o \in Offer :
          \/ \E s \in Student, k \in ProposedSlabs :
               \/ \E scope \in {"PROPOSE", "FULL"} : create(r, scope, o, s, k)
               \/ createPpo(r, o, s, k)
          \/ approve(r, o) \/ accept(r, o) \/ reject(r, o) \/ revoke(r, o)
    BY <1>2 DEF Receive
  <2>3. ASSUME NEW s \in Student, NEW k \in ProposedSlabs,
               \/ \E scope \in {"PROPOSE", "FULL"} : create(r, scope, o, s, k)
               \/ createPpo(r, o, s, k)
        PROVE  TxInv' /\ LockInv' /\ DecidedInv'
    <3>1. /\ Fresh(o)
          /\ \/ Begin(r, "commit", "propose", o, s, k)
             \/ Begin(r, "lock", "extend", o, s, k)
      BY <2>3 DEF create, createPpo
    <3> QED
      BY <3>1, BeginInsertStep, SlabAssumption
  <2>4. ASSUME approve(r, o) \/ accept(r, o) \/ reject(r, o) \/ revoke(r, o)
        PROVE  TxInv' /\ LockInv' /\ DecidedInv'
    <3>1. /\ status[o] # "ABSENT"
          /\ \E op \in {"approve", "accept", "reject", "revoke"} :
               Begin(r, "lock", op, o, owner[o], slab[o])
      BY <2>4 DEF approve, accept, reject, revoke
    <3> QED
      BY <3>1, BeginExistingStep
  <2> QED
    BY <1>1, <2>1, <2>2, <2>3, <2>4, QuietStep DEF IInv
<1>3. ASSUME NEW r \in Request, lockStudent(r) PROVE IInv'
  BY <1>1, <1>3, LockStep, QuietStep DEF IInv, lockStudent
<1>4. ASSUME NEW r \in Request, UnderLock(r) PROVE IInv'
  <2>1. UNCHANGED <<offers, placement>>
    BY <1>4 DEF UnderLock, assertOfferAllowed, countRejections, countRemaining
  <2> QED
    BY <1>1, <1>4, <2>1, DecideStep, RollbackStep, QuietStep DEF IInv
<1>5. ASSUME NEW r \in Request, proposeCommit(r) \/ Finish(r) PROVE IInv'
  <2>1. PICK newStatus \in OfferStatus :
          Effect(r, newStatus) /\ Writes(tx[r].op, newStatus)
    BY <1>5, FinishEffect
  <2> QED
    BY <1>1, <2>1, EffectOnTransactions, EffectOnTiers, EffectOnPlacement DEF IInv
<1>6. ASSUME NEW r \in Request, abort(r) PROVE IInv'
  BY <1>1, <1>6, RollbackStep, QuietStep DEF IInv, abort
<1>7. CASE \/ activateOfferCap \/ activateReEligibility \/ activateDebarRule
           \/ UNCHANGED vars
  <2>1. UNCHANGED <<offers, placement, lock, tx>>
    BY <1>7 DEF activateOfferCap, activateReEligibility, activateDebarRule, vars
  <2>2. TxInv' /\ LockInv' /\ DecidedInv'
    BY <2>1 DEF IInv, TxInv, Open, Inserts, LockInv, Holds, DecidedInv,
                OthersOf, offers
  <2> QED
    BY <1>1, <2>1, <2>2, QuietStep DEF IInv
<1> QED
  BY <1>2, <1>3, <1>4, <1>5, <1>6, <1>7 DEF Next

(* Every reachable state satisfies the inductive invariant, ... *)
THEOREM Invariance == Spec => []IInv
  BY InitInv, StepInv, PTL DEF Spec

(* ... so it is well typed, ... *)
THEOREM TypeCorrect == Spec => []TypeOK
<1>1. IInv => TypeOK
  BY DEF IInv
<1> QED
  BY Invariance, <1>1, PTL

(* ... no student ever has two active offers in one tier, however requests *)
(* overlap and fail and whatever policies are activated meanwhile          *)
(* (offers.service.ts, lockStudent and assertOfferAllowed), ...            *)
THEOREM TiersStayApart == Spec => []OneActivePerTier
<1>1. IInv => OneActivePerTier
  BY DEF IInv
<1> QED
  BY Invariance, <1>1, PTL

(* ... and a student whose offers include an accepted one is never shown   *)
(* as UNPLACED (offers.service.ts, accept and revoke).                     *)
THEOREM UnplacedMeansNoAccepted == Spec => []UnplacedHasNoAccepted
<1>1. IInv => UnplacedHasNoAccepted
  BY DEF IInv
<1> QED
  BY Invariance, <1>1, PTL

-----------------------------------------------------------------------------
(* Re-eligibility as an action property.                                   *)

(* Only a commit changes the status of an offer. *)
LEMMA StatusChangesAtCommit ==
  ASSUME IInv, [Next]_vars
  PROVE  \/ UNCHANGED status
         \/ \E r \in Request, newStatus \in OfferStatus :
              Effect(r, newStatus) /\ Writes(tx[r].op, newStatus)
<1>1. ASSUME NEW r \in Request, proposeCommit(r) \/ Finish(r)
      PROVE  \E newStatus \in OfferStatus :
               Effect(r, newStatus) /\ Writes(tx[r].op, newStatus)
  BY <1>1, FinishEffect
<1>2. ASSUME NEW r \in Request,
             Receive(r) \/ lockStudent(r) \/ UnderLock(r) \/ abort(r)
      PROVE  UNCHANGED status
  BY <1>2 DEF Receive, create, createPpo, approve, accept, reject, revoke, Begin,
              lockStudent, UnderLock, assertOfferAllowed, countRejections,
              countRemaining, abort, offers
<1>3. CASE \/ activateOfferCap \/ activateReEligibility \/ activateDebarRule
           \/ UNCHANGED vars
  BY <1>3 DEF activateOfferCap, activateReEligibility, activateDebarRule, vars, offers
<1> QED
  BY <1>1, <1>2, <1>3 DEF Next

(* An offer in a tier is accepted only above every offer accepted before,  *)
(* although accept() checks that one step before it commits                *)
(* (offers.service.ts:312-319).                                            *)
THEOREM AcceptedOffersClimb == Spec => AcceptClimbs
<1> DEFINE Climbs ==
      \A o, p \in Offer :
        ( /\ o # p /\ owner[o] = owner[p]
          /\ status[o] # "ACCEPTED" /\ status'[o] = "ACCEPTED"
          /\ slab[o] # NoSlab /\ status[p] = "ACCEPTED" )
        => SlabRank(slab[p]) < SlabRank(slab[o])
<1>1. IInv /\ [Next]_vars => [Climbs]_vars
  <2> SUFFICES ASSUME IInv, [Next]_vars,
                      NEW o \in Offer, NEW p \in Offer,
                      o # p, owner[o] = owner[p],
                      status[o] # "ACCEPTED", status'[o] = "ACCEPTED",
                      slab[o] # NoSlab, status[p] = "ACCEPTED"
               PROVE  SlabRank(slab[p]) < SlabRank(slab[o])
    OBVIOUS
  <2>1. PICK r \in Request, newStatus \in OfferStatus :
          Effect(r, newStatus) /\ Writes(tx[r].op, newStatus)
    BY StatusChangesAtCommit
  <2>2. tx[r] \in OpenTx /\ tx[r].pc = "commit" /\ tx[r] # Idle
    BY <2>1 DEF Effect, Idle
  <2>3. tx[r].offer = o /\ newStatus = "ACCEPTED"
    BY <2>1, <2>2 DEF Effect, IInv, TypeOK, OpenTx
  <2>4. tx[r].op = "accept"
    BY <2>1, <2>3 DEF Writes
  <2>5. owner[o] = tx[r].student /\ slab[o] = tx[r].slab
    BY <2>2, <2>3, <2>4 DEF IInv, TxInv, Open, Inserts
  <2>6. p \in OthersOf(r)
    BY <2>3, <2>5 DEF OthersOf
  <2> QED
    BY <2>2, <2>4, <2>5, <2>6 DEF IInv, DecidedInv
<1> QED
  BY <1>1, Invariance, PTL DEF Spec, AcceptClimbs

-----------------------------------------------------------------------------
(* The total cap.                                                          *)

LEMMA InitTotal == Init => TotalInv
  BY DEF Init, TotalInv, OneActiveInTotal, Idle, Active

(* A commit keeps the decisions of the other transactions on its student   *)
(* standing: none of them is past its lock, unless this one only proposes. *)
LEMMA EffectOnTotal ==
  ASSUME IInv, TotalInv, NEW r \in Request, NEW newStatus \in OfferStatus,
         Effect(r, newStatus), Writes(tx[r].op, newStatus)
  PROVE  TotalInv'
<1> USE DEF IInv
<1> DEFINE o == tx[r].offer
<1>1. o \in Offer
  BY DEF Effect, OpenTx
<1>2. /\ status'[o] = newStatus /\ owner'[o] = tx[r].student
      /\ \A p \in Offer \ {o} : status'[p] = status[p] /\ owner'[p] = owner[p]
  BY <1>1 DEF Effect, TypeOK
<1>3. tx'[r] = Idle /\ \A q \in Request \ {r} : tx'[q] = tx[q]
  BY DEF Effect, Rollback, TypeOK
<1>4. ASSUME NEW q \in Request, tx'[q].pc = "commit", tx'[q].op \in Gated,
             NEW p \in OthersOf(q)'
      PROVE  status'[p] \notin Active
  <2>1. q # r /\ tx'[q] = tx[q]
    BY <1>3, <1>4 DEF Idle
  <2>2. lock[tx[q].student] = q
    BY <2>1, <1>4 DEF LockInv, Holds, Gated
  <2>3. tx[r].student = tx[q].student => tx[r].op = "propose"
    BY <2>1, <2>2 DEF LockInv, Holds, Effect
  <2>4. p \in Offer /\ owner'[p] = tx[q].student /\ p # tx[q].offer
    BY <2>1, <1>4 DEF OthersOf
  <2>5. CASE p = o
    BY <2>3, <2>4, <2>5, <1>2 DEF Writes, Active
  <2>6. CASE p # o
    <3>1. p \in OthersOf(q) /\ status'[p] = status[p]
      BY <2>4, <2>6, <1>2 DEF OthersOf
    <3> QED
      BY <3>1, <2>1, <1>4 DEF TotalInv
  <2> QED
    BY <2>5, <2>6
<1>5. \A q \in Request :
        (tx'[q].pc = "decide" /\ tx'[q].op \in Gated) => tx'[q].cap \in CapPolicies
  BY <1>3 DEF TotalInv, Idle
<1>6. OneActiveInTotal'
  <2>1. ASSUME NEW p \in Offer \ {o}, owner'[p] = owner'[o],
               status'[o] \in Active
        PROVE  status'[p] \notin Active
    <3>1. tx[r].op \in Gated
      BY <2>1, <1>2 DEF Writes, Active, Gated
    <3>2. p \in OthersOf(r)
      BY <2>1, <1>2 DEF OthersOf
    <3> QED
      BY <3>1, <3>2, <2>1, <1>2 DEF TotalInv, Effect
  <2> SUFFICES ASSUME NEW p \in Offer, NEW q \in Offer, owner'[p] = owner'[q],
                      status'[p] \in Active, status'[q] \in Active
               PROVE  p = q
    BY DEF OneActiveInTotal
  <2>2. CASE p = o \/ q = o
    BY <2>1, <2>2
  <2>3. CASE p # o /\ q # o
    BY <2>3, <1>2 DEF TotalInv, OneActiveInTotal
  <2> QED
    BY <2>2, <2>3
<1> QED
  BY <1>4, <1>5, <1>6 DEF TotalInv

LEMMA StepTotal ==
  ASSUME CapPolicies = {"ONE_TOTAL"}, NoPolicy # "ONE_TOTAL",
         IInv, TotalInv, [Next]_vars
  PROVE  TotalInv'
<1> USE DEF IInv
<1>1. tx \in [Request -> OpenTx \cup {Idle}] /\ capPolicy \in CapPolicies
  BY DEF TypeOK
<1>2. ASSUME NEW r \in Request, proposeCommit(r) \/ Finish(r) PROVE TotalInv'
  BY <1>2, FinishEffect, EffectOnTotal
<1>3. ASSUME UNCHANGED offers, NEW r \in Request,
             \A q \in Request \ {r} : tx'[q] = tx[q],
             (tx'[r].pc = "decide" /\ tx'[r].op \in Gated) =>
               tx'[r].cap \in CapPolicies,
             (tx'[r].pc = "commit" /\ tx'[r].op \in Gated) =>
               \A o \in OthersOf(r)' : status[o] \notin Active
      PROVE  TotalInv'
  <2>1. OneActiveInTotal'
    BY <1>3 DEF TotalInv, OneActiveInTotal, offers
  <2>2. \A q \in Request \ {r} : OthersOf(q)' = OthersOf(q)
    BY <1>3 DEF OthersOf, offers
  <2> QED
    BY <1>3, <2>1, <2>2 DEF TotalInv, offers
<1>4. ASSUME NEW r \in Request, Receive(r) PROVE TotalInv'
  <2>1. PICK o \in Offer :
          \/ \E s \in Student, k \in ProposedSlabs :
               \/ \E scope \in {"PROPOSE", "FULL"} : create(r, scope, o, s, k)
               \/ createPpo(r, o, s, k)
          \/ approve(r, o) \/ accept(r, o) \/ reject(r, o) \/ revoke(r, o)
    BY <1>4 DEF Receive
  <2>2. ASSUME NEW pc \in {"lock", "commit"}, NEW op \in Op,
               NEW s \in Student \cup {None}, NEW k \in SlabOrNull \cup {None},
               pc = "lock" \/ op = "propose", Begin(r, pc, op, o, s, k)
        PROVE  TotalInv'
    <3>1. UNCHANGED offers /\ tx'[r].pc = pc /\ tx'[r].op = op
      BY <2>2, <1>1 DEF Begin
    <3>2. \A q \in Request \ {r} : tx'[q] = tx[q]
      BY <2>2, <1>1 DEF Begin
    <3>3. ~(tx'[r].op \in Gated /\ tx'[r].pc \in {"decide", "commit"})
      BY <2>2, <3>1 DEF Gated
    <3> QED
      BY <3>1, <3>2, <3>3, <1>3
  <2>3. CASE approve(r, o) \/ accept(r, o) \/ reject(r, o) \/ revoke(r, o)
    <3>1. \E op \in Op : Begin(r, "lock", op, o, owner[o], slab[o])
      BY <2>3 DEF approve, accept, reject, revoke, Op, Gated
    <3>2. owner[o] \in Student \cup {None} /\ slab[o] \in SlabOrNull \cup {None}
      BY DEF TypeOK
    <3> QED
      BY <2>2, <3>1, <3>2
  <2>4. ASSUME NEW s \in Student, NEW k \in ProposedSlabs,
               \/ \E scope \in {"PROPOSE", "FULL"} : create(r, scope, o, s, k)
               \/ createPpo(r, o, s, k)
        PROVE  TotalInv'
    <3>1. \/ Begin(r, "commit", "propose", o, s, k)
          \/ Begin(r, "lock", "extend", o, s, k)
      BY <2>4 DEF create, createPpo
    <3>2. k \in SlabOrNull \cup {None} /\ "propose" \in Op /\ "extend" \in Op
      BY SlabAssumption DEF Op, Gated
    <3>3. CASE Begin(r, "commit", "propose", o, s, k)
      BY <2>2, <3>2, <3>3
    <3>4. CASE Begin(r, "lock", "extend", o, s, k)
      BY <2>2, <3>2, <3>4
    <3> QED
      BY <3>1, <3>3, <3>4
  <2> QED
    BY <2>1, <2>3, <2>4
<1>5. ASSUME NEW r \in Request, lockStudent(r) PROVE TotalInv'
  <2>1. tx[r] \in OpenTx
    BY <1>5, <1>1 DEF lockStudent, Idle
  <2>2. /\ tx'[r].pc = "decide" /\ tx'[r].op = tx[r].op
        /\ tx[r].op \in Gated => tx'[r].cap = capPolicy
        /\ \A q \in Request \ {r} : tx'[q] = tx[q]
    BY <1>1, <1>5, <2>1 DEF lockStudent, OpenTx
  <2> QED
    BY <1>1, <1>3, <1>5, <2>2 DEF lockStudent
<1>6. ASSUME NEW r \in Request, Rollback(r), UNCHANGED offers PROVE TotalInv'
  BY <1>1, <1>3, <1>6 DEF Rollback, Idle
<1>7. ASSUME NEW r \in Request, UnderLock(r), ~Rollback(r) PROVE TotalInv'
  <2>1. PICK outcome :
          /\ tx[r].pc = "decide" /\ Decide(r, outcome) /\ UNCHANGED offers
          /\ tx[r].op \in Gated => Allowed(r)
    BY <1>7 DEF UnderLock, assertOfferAllowed, countRejections, countRemaining, Gated
  <2>2. tx[r] \in OpenTx
    BY <2>1, <1>1 DEF Idle
  <2>3. /\ tx'[r].pc = "commit" /\ tx'[r].op = tx[r].op
        /\ tx'[r].student = tx[r].student /\ tx'[r].offer = tx[r].offer
        /\ \A q \in Request \ {r} : tx'[q] = tx[q]
    BY <1>1, <2>1, <2>2 DEF Decide, OpenTx
  <2>4. ASSUME tx[r].op \in Gated, NEW o \in OthersOf(r)
        PROVE  status[o] \notin Active
    <3>1. tx[r].cap = "ONE_TOTAL"
      BY <2>1, <2>4 DEF TotalInv
    <3>2. \A e \in existingOffersFor(r) : e.status \notin Active
      BY <2>1, <2>4, <3>1, AllowedUnderTotalCap DEF Allowed
    <3>3. [slab |-> slab[o], status |-> status[o]] \in existingOffersFor(r)
      BY DEF existingOffersFor
    <3> QED
      BY <3>2, <3>3
  <2>5. OthersOf(r)' = OthersOf(r)
    BY <2>1, <2>3 DEF OthersOf, offers
  <2> QED
    BY <2>1, <2>3, <2>4, <2>5, <1>3
<1>8. CASE \/ activateOfferCap \/ activateReEligibility \/ activateDebarRule
           \/ UNCHANGED vars
  <2>1. UNCHANGED <<offers, tx>>
    BY <1>8 DEF activateOfferCap, activateReEligibility, activateDebarRule, vars
  <2> QED
    BY <2>1 DEF TotalInv, OneActiveInTotal, OthersOf, offers
<1>9. ASSUME NEW r \in Request, abort(r) PROVE TotalInv'
  BY <1>9, <1>6 DEF abort
<1>10. ASSUME NEW r \in Request, UnderLock(r), Rollback(r) PROVE TotalInv'
  BY <1>10, <1>6 DEF UnderLock, assertOfferAllowed, countRejections, countRemaining
<1> QED
  BY <1>2, <1>4, <1>5, <1>7, <1>8, <1>9, <1>10 DEF Next

(* An institution that has had the total cap from the start never sees a   *)
(* student with two active offers, of whatever tiers                       *)
(* (offer-eligibility.util.ts:81-87 under the lock of offers.service.ts).  *)
THEOREM TotalCapHolds ==
  ASSUME CapPolicies = {"ONE_TOTAL"}, NoPolicy # "ONE_TOTAL"
  PROVE  Spec => []OneActiveInTotal
<1>1. IInv /\ TotalInv /\ [Next]_vars => TotalInv'
  BY StepTotal
<1>2. TotalInv => OneActiveInTotal
  BY DEF TotalInv
<1> QED
  BY InitTotal, <1>1, <1>2, Invariance, PTL DEF Spec

-----------------------------------------------------------------------------
(* Refinement.  Offers implements OfferLedger: a transaction, however its  *)
(* reads and its writes interleave with others', does to the book of its   *)
(* student what one of the ledger's one-step operations does, at its       *)
(* commit, and nothing before it.                                          *)

(* What each handler may record for the student's placement.               *)

OutcomeInv ==
  \A r \in Request :
    /\ tx[r].outcome # None => tx[r].op \in {"accept", "reject", "revoke"}
    /\ tx[r].op = "reject" => tx[r].outcome \in {None, "DEBARRED"}
    /\ tx[r].op = "revoke" => tx[r].outcome \in {None, "UNPLACED"}

LEMMA InitOutcome == Init => OutcomeInv
  BY NoneAssumption DEF Init, OutcomeInv, Idle

(* A step touches the transaction of one request, and leaves it without an *)
(* outcome or with one its handler may have.                               *)
LEMMA OneTxOutcome ==
  ASSUME OutcomeInv, NEW r \in Request,
         \A q \in Request \ {r} : tx'[q] = tx[q],
         /\ tx'[r].outcome # None => tx'[r].op \in {"accept", "reject", "revoke"}
         /\ tx'[r].op = "reject" => tx'[r].outcome \in {None, "DEBARRED"}
         /\ tx'[r].op = "revoke" => tx'[r].outcome \in {None, "UNPLACED"}
  PROVE  OutcomeInv'
  BY DEF OutcomeInv

LEMMA RollbackOutcome ==
  ASSUME TypeOK, OutcomeInv, NEW r \in Request, Rollback(r)
  PROVE  OutcomeInv'
<1>1. tx'[r] = Idle /\ \A q \in Request \ {r} : tx'[q] = tx[q]
  BY DEF TypeOK, Rollback
<1> QED
  BY <1>1, OneTxOutcome DEF Idle

LEMMA StepOutcome == TypeOK /\ OutcomeInv /\ [Next]_vars => OutcomeInv'
<1> SUFFICES ASSUME TypeOK, OutcomeInv, [Next]_vars PROVE OutcomeInv'
  OBVIOUS
<1>1. ASSUME NEW r \in Request, Receive(r) PROVE OutcomeInv'
  <2>1. /\ tx'[r].outcome = None
        /\ \A q \in Request \ {r} : tx'[q] = tx[q]
    BY <1>1 DEF Receive, create, createPpo, approve, accept, reject, revoke, Begin, TypeOK
  <2> QED
    BY <2>1, OneTxOutcome
<1>2. ASSUME NEW r \in Request, lockStudent(r) PROVE OutcomeInv'
  <2>1. tx[r] \in OpenTx
    BY <1>2 DEF TypeOK, lockStudent, Idle
  <2>2. /\ tx'[r].outcome = tx[r].outcome /\ tx'[r].op = tx[r].op
        /\ \A q \in Request \ {r} : tx'[q] = tx[q]
    BY <1>2, <2>1 DEF TypeOK, lockStudent, OpenTx
  <2> QED
    BY <2>2, OneTxOutcome DEF OutcomeInv
<1>3. ASSUME NEW r \in Request, UnderLock(r) PROVE OutcomeInv'
  <2>1. CASE Rollback(r)
    BY <2>1, RollbackOutcome
  <2>2. CASE ~Rollback(r)
    <3>1. PICK outcome :
            /\ tx[r].pc = "decide" /\ Decide(r, outcome)
            /\ outcome # None => tx[r].op \in {"accept", "reject", "revoke"}
            /\ tx[r].op = "reject" => outcome \in {None, "DEBARRED"}
            /\ tx[r].op = "revoke" => outcome \in {None, "UNPLACED"}
      BY <1>3, <2>2
      DEF UnderLock, assertOfferAllowed, countRejections, countRemaining, Gated
    <3>2. tx[r] \in OpenTx
      BY <3>1 DEF TypeOK, Idle
    <3>3. /\ tx'[r].outcome = outcome /\ tx'[r].op = tx[r].op
          /\ \A q \in Request \ {r} : tx'[q] = tx[q]
      BY <3>1, <3>2 DEF TypeOK, Decide, OpenTx
    <3> QED
      BY <3>1, <3>3, OneTxOutcome
  <2> QED
    BY <2>1, <2>2
<1>4. ASSUME NEW r \in Request, proposeCommit(r) \/ Finish(r) \/ abort(r)
      PROVE  OutcomeInv'
  BY <1>4, RollbackOutcome
  DEF proposeCommit, Finish, extendCommit, approveCommit, acceptCommit,
      rejectCommit, revokeCommit, Insert, Commit, abort
<1>5. CASE \/ activateOfferCap \/ activateReEligibility \/ activateDebarRule
           \/ UNCHANGED vars
  BY <1>5 DEF activateOfferCap, activateReEligibility, activateDebarRule, vars, OutcomeInv
<1> QED
  BY <1>1, <1>2, <1>3, <1>4, <1>5 DEF Next

-----------------------------------------------------------------------------
(* The book before and after a commit.                                     *)

(* Only the line of the offer itself changes: a new offer was nowhere, and *)
(* an old one keeps its student and its tier.                              *)
LEMMA BookAfter ==
  ASSUME IInv, NEW r \in Request, NEW newStatus \in OfferStatus,
         Effect(r, newStatus), Writes(tx[r].op, newStatus)
  PROVE  LET o == tx[r].offer  s == tx[r].student  k == tx[r].slab
         IN  /\ Held' = [Held EXCEPT ![<<s, k>>] =
                           IF newStatus \in Active THEN Held[<<s, k>>] \cup {o}
                           ELSE Held[<<s, k>>] \ {o}]
             /\ AcceptedOffers' = IF newStatus = "ACCEPTED" THEN AcceptedOffers \cup {o}
                                  ELSE AcceptedOffers \ {o}
<1> DEFINE o == tx[r].offer
           s == tx[r].student
           k == tx[r].slab
<1>1. o \in Offer /\ s \in Student /\ k \in SlabOrNull /\ tx[r] # Idle
  BY DEF Effect, OpenTx, Idle
<1>2. /\ status'[o] = newStatus /\ slab'[o] = k /\ owner'[o] = s
      /\ \A p \in Offer \ {o} : /\ status'[p] = status[p]
                               /\ slab'[p] = slab[p] /\ owner'[p] = owner[p]
  BY <1>1 DEF Effect, IInv, TypeOK
<1>3. status[o] \in Active => owner[o] = s /\ slab[o] = k
  BY <1>1 DEF IInv, TxInv, Open, Active
<1>4. AcceptedOffers' = IF newStatus = "ACCEPTED" THEN AcceptedOffers \cup {o}
                        ELSE AcceptedOffers \ {o}
  BY <1>1, <1>2 DEF AcceptedOffers
<1>5. ASSUME NEW x \in Student \X SlabOrNull
      PROVE  Held'[x] = IF x = <<s, k>>
                        THEN IF newStatus \in Active THEN Held[x] \cup {o} ELSE Held[x] \ {o}
                        ELSE Held[x]
  <2>1. /\ Held[x] = {p \in Offer : owner[p] = x[1] /\ slab[p] = x[2] /\ status[p] \in Active}
        /\ Held'[x] = {p \in Offer : owner'[p] = x[1] /\ slab'[p] = x[2]
                                     /\ status'[p] \in Active}
    BY DEF Held
  <2>2. \A p \in Offer \ {o} : p \in Held'[x] <=> p \in Held[x]
    BY <2>1, <1>2
  <2>3. o \in Held'[x] <=> x = <<s, k>> /\ newStatus \in Active
    BY <2>1, <1>1, <1>2
  <2>4. o \in Held[x] => x = <<s, k>>
    BY <2>1, <1>1, <1>3
  <2> QED
    BY <2>1, <2>2, <2>3, <2>4
<1>6. /\ Held = [x \in Student \X SlabOrNull |-> Held[x]]
      /\ Held' = [x \in Student \X SlabOrNull |-> Held'[x]]
  BY DEF Held
<1>7. <<s, k>> \in Student \X SlabOrNull
  BY <1>1
<1>8. Held' = [Held EXCEPT ![<<s, k>>] =
                 IF newStatus \in Active THEN Held[<<s, k>>] \cup {o} ELSE Held[<<s, k>>] \ {o}]
  BY <1>5, <1>6, <1>7
<1> QED
  BY <1>4, <1>8

(* The placement goes with the outcome of the transaction. *)
LEMMA PlacementAfter ==
  ASSUME IInv, OutcomeInv, NEW r \in Request, NEW newStatus \in OfferStatus,
         Effect(r, newStatus), Writes(tx[r].op, newStatus)
  PROVE  /\ tx[r].op \in {"propose", "extend", "approve"} => Unplaced' = Unplaced
         /\ tx[r].op = "accept" => Unplaced' = Unplaced \ {tx[r].student}
         /\ tx[r].op \in {"reject", "revoke"} =>
              \/ Unplaced' \in {Unplaced, Unplaced \ {tx[r].student}}
              \/ /\ tx[r].outcome = "UNPLACED"
                 /\ Unplaced' = Unplaced \cup {tx[r].student}
<1>1. tx[r].student \in Student /\ tx[r].pc = "commit"
  BY DEF Effect, OpenTx
<1>2. /\ tx[r].outcome = None => placement' = placement
      /\ tx[r].outcome # None =>
           /\ placement'[tx[r].student] = tx[r].outcome
           /\ \A v \in Student \ {tx[r].student} : placement'[v] = placement[v]
  BY <1>1 DEF Effect, IInv, TypeOK
<1>3. CASE tx[r].op \in {"propose", "extend", "approve"}
  BY <1>2, <1>3 DEF OutcomeInv, Unplaced
<1>4. CASE tx[r].op = "accept"
  <2>1. tx[r].outcome = "PLACED" /\ "PLACED" # None
    BY <1>1, <1>4, NoneAssumption DEF IInv, DecidedInv, PlacementStatus
  <2> QED
    BY <1>1, <1>2, <1>4, <2>1 DEF Unplaced
<1>5. CASE tx[r].op \in {"reject", "revoke"}
  <2>1. tx[r].outcome \in {None, "DEBARRED", "UNPLACED"}
    BY <1>5 DEF OutcomeInv
  <2>2. CASE tx[r].outcome = None
    BY <1>2, <1>5, <2>2 DEF Unplaced
  <2>3. CASE tx[r].outcome = "DEBARRED" /\ tx[r].outcome # None
    BY <1>1, <1>2, <1>5, <2>3 DEF Unplaced
  <2>4. CASE tx[r].outcome = "UNPLACED" /\ tx[r].outcome # None
    BY <1>1, <1>2, <1>5, <2>4 DEF Unplaced
  <2> QED
    BY <2>1, <2>2, <2>3, <2>4
<1> QED
  BY <1>3, <1>4, <1>5 DEF Writes

-----------------------------------------------------------------------------
(* Each commit is a step of the ledger, or none.                           *)

(* The tier was found free of other active offers, and the accepted ones   *)
(* below it, under the lock.                                               *)
LEMMA CheckedAgainstBook ==
  ASSUME IInv, NEW r \in Request, tx[r].pc = "commit", tx[r].op \in Gated,
         tx[r].offer \in Offer, tx[r].student \in Student, tx[r].slab \in SlabOrNull
  PROVE  /\ tx[r].slab # NoSlab => Held[<<tx[r].student, tx[r].slab>>] \subseteq {tx[r].offer}
         /\ tx[r].op = "accept" /\ tx[r].slab # NoSlab =>
              Ledger!Tops(tx[r].student, tx[r].slab, tx[r].offer)
<1> DEFINE o == tx[r].offer
           s == tx[r].student
           k == tx[r].slab
<1>1. \A j \in SlabOrNull :
        Held[<<s, j>>] = {p \in Offer : owner[p] = s /\ slab[p] = j /\ status[p] \in Active}
  BY DEF Held
<1>2. \A j \in SlabOrNull : Held[<<s, j>>] \ {o} \subseteq OthersOf(r)
  BY <1>1 DEF OthersOf
<1>3. ASSUME k # NoSlab PROVE Held[<<s, k>>] \subseteq {o}
  BY <1>1, <1>2, <1>3 DEF IInv, DecidedInv
<1>4. ASSUME tx[r].op = "accept", k # NoSlab PROVE Ledger!Tops(s, k, o)
  <2> SUFFICES ASSUME NEW j \in SlabOrNull, NEW p \in (Held[<<s, j>>] \cap AcceptedOffers) \ {o}
               PROVE  <<j, k>> \in LowerTier
    BY DEF Ledger!Tops
  <2>1. p \in OthersOf(r) /\ status[p] = "ACCEPTED" /\ slab[p] = j
    BY <1>1, <1>2 DEF AcceptedOffers
  <2>2. SlabRank(j) < SlabRank(k)
    BY <1>4, <2>1 DEF IInv, DecidedInv
  <2> QED
    BY <2>2 DEF LowerTier
<1> QED
  BY <1>3, <1>4

LEMMA CommitIsLedgerStep ==
  ASSUME IInv, OutcomeInv, NEW r \in Request, NEW newStatus \in OfferStatus,
         Effect(r, newStatus), Writes(tx[r].op, newStatus)
  PROVE  Ledger!Next \/ UNCHANGED Ledger!vars
<1> DEFINE o == tx[r].offer
           s == tx[r].student
           k == tx[r].slab
<1>1. o \in Offer /\ s \in Student /\ k \in SlabOrNull /\ tx[r].pc = "commit" /\ tx[r] # Idle
  BY DEF Effect, OpenTx, Idle
<1>2. /\ Held' = [Held EXCEPT ![<<s, k>>] =
                    IF newStatus \in Active THEN Held[<<s, k>>] \cup {o} ELSE Held[<<s, k>>] \ {o}]
      /\ AcceptedOffers' = IF newStatus = "ACCEPTED" THEN AcceptedOffers \cup {o}
                           ELSE AcceptedOffers \ {o}
  BY BookAfter
<1>3. /\ tx[r].op \in {"propose", "extend", "approve"} => Unplaced' = Unplaced
      /\ tx[r].op = "accept" => Unplaced' = Unplaced \ {s}
      /\ tx[r].op \in {"reject", "revoke"} =>
           \/ Unplaced' \in {Unplaced, Unplaced \ {s}}
           \/ tx[r].outcome = "UNPLACED" /\ Unplaced' = Unplaced \cup {s}
  BY PlacementAfter
<1>4. CASE tx[r].op = "propose"
  <2>1. status[o] = "ABSENT" /\ newStatus = "PENDING"
    BY <1>1, <1>4 DEF IInv, TxInv, Open, Inserts, Writes
  <2>2. AcceptedOffers' = AcceptedOffers
    BY <1>2, <2>1 DEF AcceptedOffers
  <2>3. Held[<<s, k>>] \ {o} = Held[<<s, k>>]
    BY <1>1, <2>1 DEF Held, Active
  <2>4. Held' = [Held EXCEPT ![<<s, k>>] = Held[<<s, k>>]]
    BY <1>2, <2>1, <2>3 DEF Active
  <2>5. Held' = Held
    BY <2>4 DEF Held
  <2> QED
    BY <1>3, <1>4, <2>2, <2>5 DEF Ledger!vars
<1>5. CASE tx[r].op \in {"extend", "approve"}
  <2>1. newStatus = "EXTENDED"
    BY <1>5 DEF Writes
  <2>2. k # NoSlab => Held[<<s, k>>] \subseteq {o}
    BY <1>1, <1>5, CheckedAgainstBook DEF Gated
  <2>3. Ledger!Extend(s, k, o)
    BY <1>2, <1>3, <1>5, <2>1, <2>2 DEF Ledger!Extend, Ledger!Holds, Active
  <2> QED
    BY <1>1, <2>3 DEF Ledger!Next
<1>6. CASE tx[r].op = "accept"
  <2>1. newStatus = "ACCEPTED"
    BY <1>6 DEF Writes
  <2>2. /\ k # NoSlab => Held[<<s, k>>] \subseteq {o}
        /\ k # NoSlab => Ledger!Tops(s, k, o)
    BY <1>1, <1>6, CheckedAgainstBook DEF Gated
  <2>3. Ledger!Accept(s, k, o)
    BY <1>2, <1>3, <1>6, <2>1, <2>2 DEF Ledger!Accept, Ledger!Holds, Active
  <2> QED
    BY <1>1, <2>3 DEF Ledger!Next
<1>7. CASE tx[r].op \in {"reject", "revoke"}
  <2>1. newStatus \in {"REJECTED", "REVOKED"}
    BY <1>7 DEF Writes
  <2>2. /\ Held' = [Held EXCEPT ![<<s, k>>] = Held[<<s, k>>] \ {o}]
        /\ AcceptedOffers' = AcceptedOffers \ {o}
    BY <1>2, <2>1 DEF Active
  <2>3. tx[r].outcome = "UNPLACED" =>
          \A j \in SlabOrNull : Held[<<s, j>>] \cap AcceptedOffers \subseteq {o}
    <3> SUFFICES ASSUME tx[r].outcome = "UNPLACED", NEW j \in SlabOrNull,
                        NEW p \in Held[<<s, j>>] \cap AcceptedOffers, p # o
                 PROVE  FALSE
      OBVIOUS
    <3>1. p \in OthersOf(r) /\ status[p] = "ACCEPTED"
      BY <1>1 DEF Held, AcceptedOffers, OthersOf
    <3> QED
      BY <1>1, <3>1 DEF IInv, DecidedInv
  <2>4. Ledger!Release(s, k, o)
    BY <1>3, <1>7, <2>2, <2>3 DEF Ledger!Release
  <2> QED
    BY <1>1, <2>4 DEF Ledger!Next
<1>8. tx[r].op \in Op
  BY DEF Effect, OpenTx
<1> QED
  BY <1>4, <1>5, <1>6, <1>7, <1>8 DEF Op, Gated

(* Every other step leaves the book as it is. *)
LEMMA OnlyCommitsWrite ==
  ASSUME [Next]_vars
  PROVE  \/ UNCHANGED <<status, slab, owner, placement>>
         \/ \E r \in Request : proposeCommit(r) \/ Finish(r)
<1>1. ASSUME NEW r \in Request,
             Receive(r) \/ lockStudent(r) \/ UnderLock(r) \/ abort(r)
      PROVE  UNCHANGED <<status, slab, owner, placement>>
  BY <1>1 DEF Receive, create, createPpo, approve, accept, reject, revoke, Begin,
              lockStudent, UnderLock, assertOfferAllowed, countRejections,
              countRemaining, abort, offers
<1>2. CASE \/ activateOfferCap \/ activateReEligibility \/ activateDebarRule
           \/ UNCHANGED vars
  BY <1>2 DEF activateOfferCap, activateReEligibility, activateDebarRule, vars, offers
<1> QED
  BY <1>1, <1>2 DEF Next

LEMMA LedgerInit == Init => Ledger!Init
<1> SUFFICES ASSUME Init PROVE Ledger!Init
  OBVIOUS
<1>1. Held = [x \in Student \X SlabOrNull |-> {}]
  BY DEF Init, Held, Active
<1>2. AcceptedOffers = {} /\ Unplaced = Student
  BY DEF Init, AcceptedOffers, Unplaced
<1> QED
  BY <1>1, <1>2 DEF Ledger!Init

LEMMA LedgerStep ==
  IInv /\ OutcomeInv /\ [Next]_vars => [Ledger!Next]_Ledger!vars
<1> SUFFICES ASSUME IInv, OutcomeInv, [Next]_vars
             PROVE  Ledger!Next \/ UNCHANGED Ledger!vars
  OBVIOUS
<1>1. CASE UNCHANGED <<status, slab, owner, placement>>
  BY <1>1 DEF Ledger!vars, Held, AcceptedOffers, Unplaced
<1>2. ASSUME NEW r \in Request, proposeCommit(r) \/ Finish(r)
      PROVE  Ledger!Next \/ UNCHANGED Ledger!vars
  BY <1>2, FinishEffect, CommitIsLedgerStep
<1> QED
  BY <1>1, <1>2, OnlyCommitsWrite

(* The offer transactions implement the atomic ledger: behind the student  *)
(* lock of offers.service.ts:83 every handler looks like one step, whatever*)
(* interleaves with it, fails or changes the policies.                     *)
THEOREM OffersImplementLedger == Spec => ImplementsLedger
<1>1. IInv => TypeOK
  BY DEF IInv
<1>2. Spec => []OutcomeInv
  BY InitOutcome, StepOutcome, TypeCorrect, PTL DEF Spec
<1> QED
  BY <1>2, Invariance, LedgerInit, LedgerStep, PTL DEF Spec, ImplementsLedger, Ledger!Spec
-----------------------------------------------------------------------------
(* Second layer: what holds of the offers that no two requests crossed on. *)
(* UncrossedInv is inductive relative to IInv.                             *)

LEMMA InitUncrossed == Init => UncrossedInv
  BY DEF Init, UncrossedInv, SeenInv, Open, RemainInv, PlacedHasAccepted, Idle

-----------------------------------------------------------------------------
(* Steps that write neither offers nor students.                           *)

(* Every request but r is as before, and r is closed or has read what is   *)
(* there.                                                                  *)
LEMMA OwnStep ==
  ASSUME IInv, UncrossedInv, NEW r \in Request,
         UNCHANGED <<offers, placement, crossed>>,
         \A q \in Request \ {r} : tx'[q] = tx[q],
         tx'[r] # Idle =>
           /\ tx'[r].seen = status[tx'[r].offer] \/ tx'[r].offer \in crossed
           /\ tx'[r].op \in {"extend", "propose"} => tx'[r].seen = "ABSENT"
           /\ tx'[r].op = "approve" => tx'[r].seen = "PENDING"
           /\ tx'[r].op \in {"accept", "reject"} => tx'[r].seen = "EXTENDED"
           /\ tx'[r].op = "revoke" => tx'[r].seen \notin {"ABSENT", "REVOKED"},
         tx'[r].pc = "commit" =>
           /\ tx'[r].outcome = "PLACED" => tx'[r].op = "accept"
           /\ (/\ tx'[r].op = "revoke" /\ tx'[r].seen = "ACCEPTED"
               /\ tx'[r].outcome = None) =>
                \E o \in OthersOf(r)' : status[o] = "ACCEPTED"
  PROVE  UncrossedInv'
<1> USE DEF UncrossedInv
<1>1. UNCHANGED <<status, owner, placement, crossed>>
  BY DEF offers
<1>2. SeenInv'
  BY <1>1 DEF SeenInv, Open, Inserts
<1>3. RemainInv'
  <2> SUFFICES ASSUME NEW q \in Request, tx'[q].pc = "commit"
               PROVE  /\ tx'[q].outcome = "PLACED" => tx'[q].op = "accept"
                      /\ (/\ tx'[q].op = "revoke" /\ tx'[q].seen = "ACCEPTED"
                          /\ tx'[q].outcome = None) =>
                           \E o \in OthersOf(q)' : status'[o] = "ACCEPTED"
    BY DEF RemainInv
  <2>1. CASE q = r
    BY <1>1, <2>1
  <2>2. CASE q # r
    BY <1>1, <2>2 DEF RemainInv, OthersOf
  <2> QED
    BY <2>1, <2>2
<1>4. PlacedHasAccepted' /\ \A o \in crossed' : status'[o] # "ABSENT"
  BY <1>1 DEF PlacedHasAccepted
<1> QED
  BY <1>2, <1>3, <1>4

LEMMA ReceiveUncrossed ==
  ASSUME IInv, UncrossedInv, NEW r \in Request, Receive(r)
  PROVE  UncrossedInv'
<1>1. PICK o, pc, op, s, k :
        /\ o \in Offer /\ pc \in {"lock", "commit"} /\ op \in Op
        /\ Begin(r, pc, op, o, s, k)
        /\ op \in {"extend", "propose"} => status[o] = "ABSENT"
        /\ op = "approve" => status[o] = "PENDING"
        /\ op \in {"accept", "reject"} => status[o] = "EXTENDED"
        /\ op = "revoke" => status[o] \notin {"ABSENT", "REVOKED"}
        /\ pc = "commit" => op = "propose"
  <2>1. ASSUME NEW o \in Offer, NEW s, NEW k, NEW scope,
               create(r, scope, o, s, k) \/ createPpo(r, o, s, k)
        PROVE  /\ status[o] = "ABSENT"
               /\ \/ Begin(r, "commit", "propose", o, s, k)
                  \/ Begin(r, "lock", "extend", o, s, k)
    BY <2>1 DEF create, createPpo, Fresh
  <2> QED
    BY <2>1 DEF Receive, approve, accept, reject, revoke, Op, Gated
<1>2. /\ tx'[r] = [pc |-> pc, op |-> op, offer |-> o, student |-> s, slab |-> k,
                   seen |-> status[o], cap |-> None, outcome |-> None]
      /\ \A q \in Request \ {r} : tx'[q] = tx[q]
      /\ UNCHANGED <<offers, placement, crossed>>
  BY <1>1 DEF Begin, IInv, TypeOK
<1>3. None # "PLACED"
  BY NoneAssumption DEF PlacementStatus
<1> QED
  BY <1>1, <1>2, <1>3, OwnStep

LEMMA LockUncrossed ==
  ASSUME IInv, UncrossedInv, NEW r \in Request, lockStudent(r)
  PROVE  UncrossedInv'
<1>1. tx[r] \in OpenTx /\ tx[r] # Idle
  BY DEF lockStudent, IInv, TypeOK, Idle
<1>2. /\ tx'[r].pc = "decide" /\ tx'[r].op = tx[r].op
      /\ tx'[r].seen = tx[r].seen /\ tx'[r].offer = tx[r].offer
      /\ \A q \in Request \ {r} : tx'[q] = tx[q]
      /\ UNCHANGED <<offers, placement, crossed>>
  BY <1>1 DEF lockStudent, IInv, TypeOK, OpenTx
<1> QED
  BY <1>1, <1>2, OwnStep DEF UncrossedInv, SeenInv, Open, Inserts

LEMMA RollbackUncrossed ==
  ASSUME IInv, UncrossedInv, NEW r \in Request, Rollback(r),
         UNCHANGED <<offers, placement, crossed>>
  PROVE  UncrossedInv'
<1>1. tx'[r] = Idle /\ \A q \in Request \ {r} : tx'[q] = tx[q]
  BY DEF Rollback, IInv, TypeOK
<1> QED
  BY <1>1, OwnStep DEF Idle

LEMMA DecideUncrossed ==
  ASSUME IInv, UncrossedInv, NEW r \in Request, UnderLock(r), ~Rollback(r)
  PROVE  UncrossedInv'
<1>1. PICK outcome :
        /\ tx[r].pc = "decide" /\ Decide(r, outcome)
        /\ outcome = "PLACED" => tx[r].op = "accept"
        /\ (tx[r].op = "revoke" /\ tx[r].seen = "ACCEPTED" /\ outcome = None) =>
             \E o \in OthersOf(r) : status[o] = "ACCEPTED"
  <2>1. None # "PLACED" /\ None # "UNPLACED"
    BY NoneAssumption DEF PlacementStatus
  <2>2. CASE assertOfferAllowed(r)
    BY <2>1, <2>2 DEF assertOfferAllowed, Gated
  <2>3. CASE countRejections(r)
    BY <2>1, <2>3 DEF countRejections
  <2>4. CASE countRemaining(r)
    BY <2>1, <2>4 DEF countRemaining
  <2> QED
    BY <2>2, <2>3, <2>4 DEF UnderLock
<1>2. tx[r] \in OpenTx /\ tx[r] # Idle
  BY <1>1 DEF IInv, TypeOK, Idle
<1>3. /\ tx'[r].pc = "commit" /\ tx'[r].outcome = outcome
      /\ tx'[r].op = tx[r].op /\ tx'[r].seen = tx[r].seen
      /\ tx'[r].offer = tx[r].offer /\ tx'[r].student = tx[r].student
      /\ \A q \in Request \ {r} : tx'[q] = tx[q]
  BY <1>1, <1>2 DEF Decide, IInv, TypeOK, OpenTx
<1>4. UNCHANGED <<offers, placement, crossed>>
  BY DEF UnderLock, assertOfferAllowed, countRejections, countRemaining
<1>5. OthersOf(r)' = OthersOf(r)
  BY <1>3, <1>4 DEF OthersOf, offers
<1>6. /\ tx[r].seen = status[tx[r].offer] \/ tx[r].offer \in crossed
      /\ tx[r].op \in {"extend", "propose"} => tx[r].seen = "ABSENT"
      /\ tx[r].op = "approve" => tx[r].seen = "PENDING"
      /\ tx[r].op \in {"accept", "reject"} => tx[r].seen = "EXTENDED"
      /\ tx[r].op = "revoke" => tx[r].seen \notin {"ABSENT", "REVOKED"}
  BY <1>2 DEF UncrossedInv, SeenInv, Open, Inserts
<1> QED
  BY <1>1, <1>3, <1>4, <1>5, <1>6, OwnStep

-----------------------------------------------------------------------------
(* Commits.                                                                *)

(* A commit crosses its offer when another request has read it.            *)
LEMMA CommitCrosses ==
  ASSUME NEW r \in Request, proposeCommit(r) \/ Finish(r)
  PROVE  /\ crossed \subseteq crossed' /\ crossed' \subseteq crossed \cup {tx[r].offer}
         /\ \A q \in Request \ {r} :
              tx[q].offer = tx[r].offer => tx[q].offer \in crossed'
  BY DEF proposeCommit, Finish, extendCommit, approveCommit, acceptCommit,
     rejectCommit, revokeCommit, Insert, Commit

LEMMA CommitUncrossed ==
  ASSUME IInv, UncrossedInv, NEW r \in Request, proposeCommit(r) \/ Finish(r)
  PROVE  UncrossedInv'
<1> USE DEF UncrossedInv
<1> DEFINE o == tx[r].offer
<1>1. PICK newStatus \in OfferStatus :
        Effect(r, newStatus) /\ Writes(tx[r].op, newStatus)
  BY FinishEffect
<1>2. /\ crossed \subseteq crossed' /\ crossed' \subseteq crossed \cup {o}
      /\ \A q \in Request \ {r} : tx[q].offer = o => tx[q].offer \in crossed'
  BY CommitCrosses
<1>3. /\ tx[r] \in OpenTx /\ tx[r] # Idle /\ tx[r].pc = "commit"
      /\ o \in Offer /\ tx[r].student \in Student
  BY <1>1 DEF Effect, OpenTx, Idle
<1>4. /\ status'[o] = newStatus /\ owner'[o] = tx[r].student
      /\ \A p \in Offer \ {o} : status'[p] = status[p] /\ owner'[p] = owner[p]
      /\ tx'[r] = Idle /\ \A q \in Request \ {r} : tx'[q] = tx[q]
      /\ newStatus # "ABSENT"
  BY <1>1, <1>3 DEF Effect, Rollback, IInv, TypeOK, OfferStatus
<1>5. SeenInv'
  <2> SUFFICES ASSUME NEW q \in Request \ {r}, tx[q] # Idle
               PROVE  /\ tx[q].seen = status'[tx[q].offer] \/ tx[q].offer \in crossed'
                      /\ tx[q].op \in {"extend", "propose"} => tx[q].seen = "ABSENT"
                      /\ tx[q].op = "approve" => tx[q].seen = "PENDING"
                      /\ tx[q].op \in {"accept", "reject"} => tx[q].seen = "EXTENDED"
                      /\ tx[q].op = "revoke" => tx[q].seen \notin {"ABSENT", "REVOKED"}
    BY <1>4 DEF SeenInv, Open, Inserts
  <2>1. tx[q].offer \in Offer
    BY DEF IInv, TypeOK, OpenTx
  <2> QED
    BY <1>2, <1>4, <2>1 DEF SeenInv, Open, Inserts
<1>6. RemainInv'
  <2> SUFFICES ASSUME NEW q \in Request \ {r}, tx[q].pc = "commit",
                      tx[q].op = "revoke", tx[q].seen = "ACCEPTED",
                      tx[q].outcome = None
               PROVE  \E p \in Offer :
                        /\ owner'[p] = tx[q].student /\ p # tx[q].offer
                        /\ status'[p] = "ACCEPTED"
    BY <1>4 DEF RemainInv, OthersOf, Idle
  <2>1. PICK p \in Offer : /\ owner[p] = tx[q].student /\ p # tx[q].offer
                           /\ status[p] = "ACCEPTED"
    BY DEF RemainInv, OthersOf
  <2>2. p # o
    <3> SUFFICES ASSUME p = o PROVE FALSE
      OBVIOUS
    <3>1. ~Inserts(r) /\ tx[r].student = tx[q].student
      BY <1>3, <2>1 DEF IInv, TxInv, Open
    <3>2. lock[tx[q].student] = q /\ lock[tx[r].student] = r
      BY <1>3, <3>1 DEF IInv, LockInv, Holds, Inserts, Open
    <3> QED
      BY <3>1, <3>2
  <2> QED
    BY <1>4, <2>1, <2>2
<1>7. PlacedHasAccepted'
  <2> SUFFICES ASSUME NEW s \in Student, placement'[s] = "PLACED"
               PROVE  \E p \in Offer : /\ owner'[p] = s
                                       /\ status'[p] = "ACCEPTED" \/ p \in crossed'
    BY DEF PlacedHasAccepted
  <2>1. CASE s = tx[r].student /\ tx[r].outcome = "PLACED"
    <3>1. tx[r].op = "accept"
      BY <1>3, <2>1 DEF RemainInv
    <3> QED
      BY <1>1, <1>3, <1>4, <2>1, <3>1 DEF Writes
  <2>2. CASE s # tx[r].student \/ tx[r].outcome # "PLACED"
    <3>1. placement[s] = "PLACED" /\ (s = tx[r].student => tx[r].outcome = None)
      BY <1>1, <1>3, <2>2 DEF Effect, IInv, TypeOK
    <3>2. PICK p \in Offer : /\ owner[p] = s
                             /\ status[p] = "ACCEPTED" \/ p \in crossed
      BY <3>1 DEF PlacedHasAccepted
    <3>3. CASE p # o
      BY <1>2, <1>4, <3>2, <3>3
    <3>4. CASE p = o
      <4>1. status[o] # "ABSENT"
        BY <3>2, <3>4
      <4>2. ~Inserts(r) /\ tx[r].student = s
        BY <1>3, <3>2, <3>4, <4>1 DEF IInv, TxInv, Open
      <4>3. CASE o \in crossed
        BY <1>2, <1>3, <1>4, <4>2, <4>3
      <4>4. CASE o \notin crossed
        <5>1. tx[r].seen = "ACCEPTED"
          BY <1>3, <3>2, <3>4, <4>4 DEF SeenInv, Open
        <5>2. tx[r].op = "revoke"
          BY <1>3, <4>2, <5>1 DEF SeenInv, Open, Inserts, OpenTx, Op, Gated
        <5>3. PICK p2 \in OthersOf(r) : status[p2] = "ACCEPTED"
          BY <1>3, <3>1, <4>2, <5>1, <5>2 DEF RemainInv
        <5> QED
          BY <1>4, <4>2, <5>3 DEF OthersOf
      <4> QED
        BY <4>3, <4>4
    <3> QED
      BY <3>3, <3>4
  <2> QED
    BY <2>1, <2>2
<1>8. \A p \in crossed' : status'[p] # "ABSENT"
  BY <1>2, <1>3, <1>4 DEF IInv, TypeOK
<1> QED
  BY <1>5, <1>6, <1>7, <1>8

LEMMA StepUncrossed == IInv /\ UncrossedInv /\ [Next]_vars => UncrossedInv'
<1> SUFFICES ASSUME IInv, UncrossedInv, [Next]_vars PROVE UncrossedInv'
  OBVIOUS
<1>1. ASSUME NEW r \in Request, UnderLock(r) \/ abort(r) PROVE UncrossedInv'
  <2>1. UNCHANGED <<offers, placement, crossed>>
    BY <1>1 DEF UnderLock, assertOfferAllowed, countRejections, countRemaining, abort
  <2>2. CASE Rollback(r)
    BY <2>1, <2>2, RollbackUncrossed
  <2>3. CASE ~Rollback(r)
    BY <1>1, <2>3, DecideUncrossed DEF abort
  <2> QED
    BY <2>2, <2>3
<1>2. CASE \/ activateOfferCap \/ activateReEligibility \/ activateDebarRule
           \/ UNCHANGED vars
  <2>1. UNCHANGED <<status, owner, placement, tx, crossed>>
    BY <1>2 DEF activateOfferCap, activateReEligibility, activateDebarRule,
       vars, offers
  <2> QED
    BY <2>1 DEF UncrossedInv, SeenInv, Open, Inserts, RemainInv, OthersOf,
       PlacedHasAccepted
<1> QED
  BY <1>1, <1>2, ReceiveUncrossed, LockUncrossed, CommitUncrossed DEF Next

(* What open requests have read of an offer is still so, or requests on    *)
(* the offer crossed, in every reachable state.                            *)
THEOREM UncrossedInvariance == Spec => [](IInv /\ UncrossedInv)
<1>1. Init => IInv /\ UncrossedInv
  BY InitInv, InitUncrossed
<1>2. (IInv /\ UncrossedInv) /\ [Next]_vars => (IInv /\ UncrossedInv)'
  BY StepInv, StepUncrossed
<1> QED
  BY <1>1, <1>2, PTL DEF Spec

-----------------------------------------------------------------------------

(* A student is PLACED only while one of their offers is ACCEPTED, unless  *)
(* requests on one of their offers crossed (offers.service.ts:414).        *)
THEOREM PlacedMeansAccepted == Spec => []PlacedHasAccepted
<1>1. UncrossedInv => PlacedHasAccepted
  BY DEF UncrossedInv
<1> QED
  BY <1>1, UncrossedInvariance, PTL

(* An offer that is not crossed moves along the lifecycle only             *)
(* (offers.service.ts:261, 310, 357, 425).                                 *)
THEOREM FollowsLifecycle == Spec => Lifecycle
<1> DEFINE Moves(o) ==
      CASE status[o] = "ABSENT" -> status'[o] \in {"PENDING", "EXTENDED"}
        [] status[o] = "PENDING" -> status'[o] \in {"EXTENDED", "REVOKED"}
        [] status[o] = "EXTENDED" ->
             status'[o] \in {"ACCEPTED", "REJECTED", "REVOKED"}
        [] status[o] \in {"ACCEPTED", "REJECTED"} -> status'[o] = "REVOKED"
        [] OTHER -> FALSE
<1>1. ASSUME IInv, UncrossedInv, [Next]_vars,
             NEW o \in Offer \ crossed, status'[o] # status[o]
      PROVE  Moves(o)
  <2>1. PICK r \in Request, newStatus \in OfferStatus :
          Effect(r, newStatus) /\ Writes(tx[r].op, newStatus)
    BY <1>1, StatusChangesAtCommit
  <2>2. /\ tx[r] # Idle /\ tx[r].op \in Op
        /\ o = tx[r].offer /\ status'[o] = newStatus
    BY <1>1, <2>1 DEF Effect, OpenTx, Idle, IInv, TypeOK
  <2>3. tx[r].seen = status[o] /\ tx[r].seen \in OfferStatus \cup {"ABSENT"}
    BY <1>1, <2>1, <2>2 DEF UncrossedInv, SeenInv, Open, Effect, OpenTx
  <2>4. CASE tx[r].op \in {"extend", "propose"}
    BY <1>1, <2>1, <2>2, <2>3, <2>4 DEF UncrossedInv, SeenInv, Open, Inserts, Writes
  <2>5. CASE tx[r].op \in {"approve", "accept", "reject"}
    BY <1>1, <2>1, <2>2, <2>3, <2>5 DEF UncrossedInv, SeenInv, Open, Writes
  <2>6. CASE tx[r].op = "revoke"
    <3>1. newStatus = "REVOKED" /\ status[o] \notin {"ABSENT", "REVOKED"}
      BY <1>1, <2>1, <2>2, <2>3, <2>6 DEF UncrossedInv, SeenInv, Open, Writes
    <3> QED
      BY <2>2, <2>3, <3>1 DEF OfferStatus
  <2> QED
    BY <2>2, <2>4, <2>5, <2>6 DEF Op, Gated
<1>2. IInv /\ UncrossedInv /\ [Next]_vars =>
        [\A o \in Offer \ crossed : status'[o] # status[o] => Moves(o)]_vars
  BY <1>1
<1> QED
  BY <1>2, UncrossedInvariance, PTL DEF Spec, Lifecycle

(* The audit row of a revocation names the status the offer really had,    *)
(* unless requests on it crossed (offers.service.ts:446-462).              *)
THEOREM AuditIsTruthful == Spec => AuditTellsPrevious
<1>1. ASSUME IInv, UncrossedInv, [Next]_vars,
             audit' # audit /\ audit'.action = "offer.revoked"
      PROVE  \/ audit'.previousStatus = status[audit'.offer]
             \/ audit'.offer \in crossed
  <2>1. ASSUME NEW r \in Request, revokeCommit(r)
        PROVE  \/ audit'.previousStatus = status[audit'.offer]
               \/ audit'.offer \in crossed
    <3>1. tx[r] # Idle
      BY <2>1 DEF revokeCommit, Commit, Idle
    <3>2. audit' = [action |-> "offer.revoked", offer |-> tx[r].offer,
                    previousStatus |-> tx[r].seen]
      BY <2>1 DEF revokeCommit, Commit
    <3> QED
      BY <1>1, <3>1, <3>2 DEF UncrossedInv, SeenInv, Open
  <2>2. ASSUME NEW r \in Request,
               \/ proposeCommit(r) \/ extendCommit(r) \/ approveCommit(r)
               \/ acceptCommit(r) \/ rejectCommit(r)
        PROVE  FALSE
    BY <1>1, <2>2 DEF proposeCommit, extendCommit, approveCommit, acceptCommit,
       rejectCommit, Insert, Commit
  <2>3. ASSUME NEW r \in Request,
               Receive(r) \/ lockStudent(r) \/ UnderLock(r) \/ abort(r)
        PROVE  FALSE
    BY <1>1, <2>3 DEF Receive, create, createPpo, approve, accept, reject,
       revoke, Begin, lockStudent, UnderLock, assertOfferAllowed,
       countRejections, countRemaining, abort
  <2>4. CASE \/ activateOfferCap \/ activateReEligibility \/ activateDebarRule
             \/ UNCHANGED vars
    BY <1>1, <2>4 DEF activateOfferCap, activateReEligibility,
       activateDebarRule, vars
  <2> QED
    BY <1>1, <2>1, <2>2, <2>3, <2>4 DEF Next, Finish
<1>2. IInv /\ UncrossedInv /\ [Next]_vars =>
        [ (audit' # audit /\ audit'.action = "offer.revoked") =>
            \/ audit'.previousStatus = status[audit'.offer]
            \/ audit'.offer \in crossed ]_vars
  BY <1>1
<1> QED
  BY <1>2, UncrossedInvariance, PTL DEF Spec, AuditTellsPrevious

(* The placement status says whether a student has an accepted offer,      *)
(* PLACED until requests on an offer crossed (offers.service.ts:321-328,   *)
(* 435-445).                                                               *)
THEOREM PlacementTellsAcceptance == Spec => []PlacedIffAccepted
BY UnplacedMeansNoAccepted, PlacedMeansAccepted, PTL DEF PlacedIffAccepted

(* The lifecycle and the audit trail of an offer without crossing requests *)
(* (offers.service.ts:252-464).                                            *)
THEOREM HistoryIsLegal == Spec => OfferHistory
BY FollowsLifecycle, AuditIsTruthful, PTL DEF OfferHistory
=============================================================================

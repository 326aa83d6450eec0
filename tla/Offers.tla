------------------------------- MODULE Offers -------------------------------
(***************************************************************************)
(* The offer lifecycle of apps/api/src/modules/offers/offers.service.ts    *)
(* under concurrent requests.                                              *)
(*                                                                         *)
(* Every handler is one Postgres transaction (TenantPrismaService.run, no  *)
(* isolation level: READ COMMITTED).  Its steps here are:                  *)
(*   1. the reads before the lock, with their guards (create, createPpo,   *)
(*      approve, accept, reject, revoke);                                  *)
(*   2. SELECT ... FOR UPDATE on the student row (lockStudent);            *)
(*   3. the reads under the lock (assertOfferAllowed, countRejections,     *)
(*      countRemaining);                                                   *)
(*   4. the writes, which the commit makes visible together (the ...Commit *)
(*      actions).                                                          *)
(* The offer row read in step 1 is never read again: what the transaction  *)
(* saw is tx[r].seen, and it may be stale from step 2 on.                  *)
(*                                                                         *)
(* A request may fail at any step (timeout, crash, lost connection): abort *)
(* rolls it back.  Rows are columns here: status, slab and owner are the   *)
(* offers table, placement is students.placement_status.                   *)
(***************************************************************************)
EXTENDS OfferPolicy, FiniteSets

CONSTANTS
  Student, Offer, Request,      \* rows and in-flight requests
  None,                         \* no value: SQL null, a free lock
  ProposedSlabs,                \* tiers the CTC of a new offer can fall in
  CapPolicies,                  \* OFFER_CAP rules an institution activates
  ReEligibilityPolicies,        \* RE_ELIGIBILITY rules
  DebarPolicies                 \* DEBAR_RULE rules

PlacementStatus == {"UNPLACED", "PLACED", "DEBARRED"}

ASSUME NoneAssumption ==
  /\ None \notin Student \cup Offer \cup Request
  /\ None \notin SlabOrNull \cup OfferStatus \cup PlacementStatus \cup {"ABSENT"}

ASSUME SlabAssumption == ProposedSlabs \subseteq SlabOrNull

VARIABLES
  status, slab, owner,          \* offers: status, tier, student
  placement,                    \* students: placement status
  audit,                        \* last row these handlers added to audit_events
  capPolicy, reEligibilityPolicy, debarPolicy,  \* the ACTIVE policy rules
  lock,                         \* holder of FOR UPDATE on a student row
  tx,                           \* the open transaction of each request
  crossed                       \* auxiliary: offers written by one request
                                \* while another acted on an earlier reading

offers == <<status, slab, owner>>
policies == <<capPolicy, reEligibilityPolicy, debarPolicy>>
vars == <<offers, placement, audit, policies, lock, tx, crossed>>

Gated == {"extend", "approve", "accept"}          \* run assertOfferAllowed
Op == Gated \cup {"propose", "reject", "revoke"}

Idle == [pc |-> "idle", op |-> None, offer |-> None, student |-> None,
         slab |-> None, seen |-> None, cap |-> None, outcome |-> None]

OpenTx ==
  [ pc : {"lock", "decide", "commit"},
    op : Op, offer : Offer, student : Student, slab : SlabOrNull,
    seen : OfferStatus \cup {"ABSENT"},
    cap : CapPolicies \cup {None},
    outcome : PlacementStatus \cup {None} ]

AuditRow == [action : {"offer.revoked", "student.debarred"}, offer : Offer,
             previousStatus : OfferStatus \cup {"ABSENT", None}]

TypeOK ==
  /\ status \in [Offer -> OfferStatus \cup {"ABSENT"}]
  /\ slab \in [Offer -> SlabOrNull \cup {None}]
  /\ owner \in [Offer -> Student \cup {None}]
  /\ placement \in [Student -> PlacementStatus]
  /\ capPolicy \in CapPolicies
  /\ reEligibilityPolicy \in ReEligibilityPolicies
  /\ debarPolicy \in DebarPolicies
  /\ lock \in [Student -> Request \cup {None}]
  /\ tx \in [Request -> OpenTx \cup {Idle}]
  /\ audit \in AuditRow \cup {None}
  /\ crossed \subseteq Offer

Init ==
  /\ status = [o \in Offer |-> "ABSENT"]
  /\ slab = [o \in Offer |-> None]
  /\ owner = [o \in Offer |-> None]
  /\ placement = [s \in Student |-> "UNPLACED"]
  /\ audit = None
  /\ capPolicy \in CapPolicies
  /\ reEligibilityPolicy \in ReEligibilityPolicies
  /\ debarPolicy \in DebarPolicies
  /\ lock = [s \in Student |-> None]
  /\ tx = [r \in Request |-> Idle]
  /\ crossed = {}

-----------------------------------------------------------------------------
(* Before the lock.                                                        *)

(* An id no row and no open transaction uses (Prisma generates a cuid).    *)
Fresh(o) == status[o] = "ABSENT" /\ \A r \in Request : tx[r].offer # o

Begin(r, pc, op, o, s, k) ==
  /\ tx[r] = Idle
  /\ tx' = [tx EXCEPT ![r] =
       [pc |-> pc, op |-> op, offer |-> o, student |-> s, slab |-> k,
        seen |-> status[o], cap |-> None, outcome |-> None]]
  /\ UNCHANGED <<offers, placement, audit, policies, lock, crossed>>

(* A RECRUITER's (PROPOSE) offer skips the lock and the check.             *)
create(r, scope, o, s, k) ==
  /\ Fresh(o)
  /\ \/ scope = "PROPOSE" /\ Begin(r, "commit", "propose", o, s, k)
     \/ scope = "FULL" /\ Begin(r, "lock", "extend", o, s, k)

createPpo(r, o, s, k) == Fresh(o) /\ Begin(r, "lock", "extend", o, s, k)

approve(r, o) ==
  /\ status[o] = "PENDING"
  /\ Begin(r, "lock", "approve", o, owner[o], slab[o])

accept(r, o) ==
  /\ status[o] = "EXTENDED"
  /\ Begin(r, "lock", "accept", o, owner[o], slab[o])

reject(r, o) ==
  /\ status[o] = "EXTENDED"
  /\ Begin(r, "lock", "reject", o, owner[o], slab[o])

revoke(r, o) ==
  /\ status[o] \notin {"ABSENT", "REVOKED"}
  /\ Begin(r, "lock", "revoke", o, owner[o], slab[o])

-----------------------------------------------------------------------------
(* Under the lock.                                                         *)

(* Mutant: SELECT ... without FOR UPDATE. *)
ReadStudent(r) ==
  /\ tx[r].pc = "lock"
  /\ tx' = [tx EXCEPT ![r].pc = "decide",
                     ![r].cap = IF tx[r].op \in Gated THEN capPolicy ELSE None]
  /\ UNCHANGED <<offers, placement, audit, policies, lock, crossed>>

(* The first statement after the lock is granted reads the cap policy; the *)
(* two run back to back, so one action takes both.                         *)
lockStudent(r) ==
  /\ tx[r].pc = "lock"
  /\ lock[tx[r].student] = None
  /\ lock' = [lock EXCEPT ![tx[r].student] = r]
  /\ tx' = [tx EXCEPT ![r].pc = "decide",
                     ![r].cap = IF tx[r].op \in Gated THEN capPolicy ELSE None]
  /\ UNCHANGED <<offers, placement, audit, policies, crossed>>

(* Mutant: a transaction that ends keeps its row lock. *)
RollbackKeepsLock(r) ==
  /\ tx' = [tx EXCEPT ![r] = Idle]
  /\ UNCHANGED lock

(* The transaction ends and its row lock goes with it. *)
Rollback(r) ==
  /\ tx' = [tx EXCEPT ![r] = Idle]
  /\ lock' = [s \in Student |-> IF lock[s] = r THEN None ELSE lock[s]]

Decide(r, outcome) ==
  /\ tx' = [tx EXCEPT ![r].pc = "commit", ![r].outcome = outcome]
  /\ UNCHANGED lock

OthersOf(r) == {o \in Offer : owner[o] = tx[r].student} \ {tx[r].offer}

existingOffersFor(r) ==
  {[slab |-> slab[o], status |-> status[o]] : o \in OthersOf(r)}

Allowed(r) ==
  checkOfferEligibility(tx[r].slab, existingOffersFor(r), tx[r].cap,
                        reEligibilityPolicy)

(* Mutant: accept() trusts the check that was made when extending. *)
AcceptUnchecked(r) ==
  /\ tx[r].pc = "decide" /\ tx[r].op \in Gated
  /\ \/ /\ tx[r].op = "accept" \/ Allowed(r)
        /\ Decide(r, IF tx[r].op = "accept" THEN "PLACED" ELSE None)
     \/ /\ tx[r].op # "accept" /\ ~Allowed(r)
        /\ Rollback(r)
  /\ UNCHANGED <<offers, placement, audit, policies, crossed>>

assertOfferAllowed(r) ==
  /\ tx[r].pc = "decide" /\ tx[r].op \in Gated
  /\ \/ /\ Allowed(r)
        /\ Decide(r, IF tx[r].op = "accept" THEN "PLACED" ELSE None)
     \/ /\ ~Allowed(r)
        /\ Rollback(r)
  /\ UNCHANGED <<offers, placement, audit, policies, crossed>>

(* reject(): the offer itself is REJECTED by now, the DEBAR_RULE is read.  *)
countRejections(r) ==
  /\ tx[r].pc = "decide" /\ tx[r].op = "reject"
  /\ LET rejected == {o \in OthersOf(r) : status[o] = "REJECTED"}
     IN  Decide(r, IF Debars(1 + Cardinality(rejected), debarPolicy)
                     THEN "DEBARRED" ELSE None)
  /\ UNCHANGED <<offers, placement, audit, policies, crossed>>

(* Mutant: the accepted offers are counted before the row is REVOKED. *)
RevokeCountsItself(r) ==
  /\ tx[r].pc = "decide" /\ tx[r].op = "revoke"
  /\ Decide(r, IF /\ tx[r].seen = "ACCEPTED"
                  /\ \A o \in OthersOf(r) \cup {tx[r].offer} : status[o] # "ACCEPTED"
                 THEN "UNPLACED" ELSE None)
  /\ UNCHANGED <<offers, placement, audit, policies, crossed>>

(* revoke(): only an offer that was ACCEPTED when it was read, before the  *)
(* lock, makes the code look for other accepted offers.                    *)
countRemaining(r) ==
  /\ tx[r].pc = "decide" /\ tx[r].op = "revoke"
  /\ Decide(r, IF /\ tx[r].seen = "ACCEPTED"
                  /\ \A o \in OthersOf(r) : status[o] # "ACCEPTED"
                 THEN "UNPLACED" ELSE None)
  /\ UNCHANGED <<offers, placement, audit, policies, crossed>>

-----------------------------------------------------------------------------
(* The writes and the commit.                                              *)

Commit(r, op, newStatus, newAudit) ==
  LET t == tx[r]
  IN  /\ t.pc = "commit" /\ t.op = op
      /\ status' = [status EXCEPT ![t.offer] = newStatus]
      /\ placement' = IF t.outcome = None THEN placement
                        ELSE [placement EXCEPT ![t.student] = t.outcome]
      /\ audit' = newAudit
      /\ crossed' = crossed \cup
           {o \in {t.offer} : \E q \in Request \ {r} : tx[q].offer = o}
      /\ Rollback(r)
      /\ UNCHANGED policies

Insert(r, op, newStatus) ==
  /\ Commit(r, op, newStatus, audit)
  /\ slab' = [slab EXCEPT ![tx[r].offer] = tx[r].slab]
  /\ owner' = [owner EXCEPT ![tx[r].offer] = tx[r].student]

(* The insert's foreign key check takes FOR KEY SHARE on the student row,  *)
(* which waits for a FOR UPDATE another transaction holds.                 *)
proposeCommit(r) ==
  /\ tx[r].op = "propose" => lock[tx[r].student] = None
  /\ Insert(r, "propose", "PENDING")

extendCommit(r) == Insert(r, "extend", "EXTENDED")

approveCommit(r) ==
  Commit(r, "approve", "EXTENDED", audit) /\ UNCHANGED <<slab, owner>>

acceptCommit(r) ==
  Commit(r, "accept", "ACCEPTED", audit) /\ UNCHANGED <<slab, owner>>

rejectCommit(r) ==
  /\ Commit(r, "reject", "REJECTED",
       IF tx[r].outcome = "DEBARRED"
         THEN [action |-> "student.debarred", offer |-> tx[r].offer,
               previousStatus |-> None]
         ELSE audit)
  /\ UNCHANGED <<slab, owner>>

(* Mutant: the audit row takes the status from the updated row. *)
RevokeAuditsUpdated(r) ==
  /\ Commit(r, "revoke", "REVOKED",
       [action |-> "offer.revoked", offer |-> tx[r].offer,
        previousStatus |-> "REVOKED"])
  /\ UNCHANGED <<slab, owner>>

revokeCommit(r) ==
  /\ Commit(r, "revoke", "REVOKED",
       [action |-> "offer.revoked", offer |-> tx[r].offer,
        previousStatus |-> tx[r].seen])
  /\ UNCHANGED <<slab, owner>>

(* Any failure before the commit: the 5 s transaction timeout, a crash of  *)
(* the process or of its connection, an error of a statement.              *)
abort(r) ==
  /\ tx[r] # Idle
  /\ Rollback(r)
  /\ UNCHANGED <<offers, placement, audit, policies, crossed>>

(* policy-rules.service.ts activate: another rule of a family is ACTIVE.   *)
activateOfferCap ==
  /\ capPolicy' \in CapPolicies \ {NoPolicy}
  /\ UNCHANGED <<offers, placement, audit, reEligibilityPolicy, debarPolicy,
                 lock, tx, crossed>>

activateReEligibility ==
  /\ reEligibilityPolicy' \in ReEligibilityPolicies \ {NoPolicy}
  /\ UNCHANGED <<offers, placement, audit, capPolicy, debarPolicy, lock, tx,
                 crossed>>

activateDebarRule ==
  /\ debarPolicy' \in DebarPolicies \ {NoPolicy}
  /\ UNCHANGED <<offers, placement, audit, capPolicy, reEligibilityPolicy,
                 lock, tx, crossed>>

-----------------------------------------------------------------------------

Receive(r) ==
  \E o \in Offer :
    \/ \E s \in Student, k \in ProposedSlabs :
         \/ \E scope \in {"PROPOSE", "FULL"} : create(r, scope, o, s, k)
         \/ createPpo(r, o, s, k)
    \/ approve(r, o)
    \/ accept(r, o)
    \/ reject(r, o)
    \/ revoke(r, o)

UnderLock(r) ==
  assertOfferAllowed(r) \/ countRejections(r) \/ countRemaining(r)

Finish(r) ==
  \/ extendCommit(r) \/ approveCommit(r) \/ acceptCommit(r)
  \/ rejectCommit(r) \/ revokeCommit(r)

Next ==
  \/ \E r \in Request : \/ Receive(r) \/ lockStudent(r) \/ UnderLock(r)
                        \/ proposeCommit(r) \/ Finish(r) \/ abort(r)
  \/ activateOfferCap \/ activateReEligibility \/ activateDebarRule

Spec == Init /\ [][Next]_vars

(* A request that can take its next step takes it, and Postgres grants a   *)
(* row lock to its waiters in turn, so none waits while others overtake it *)
(* for ever.  Nothing is assumed of new requests, policies and failures.   *)
Fairness ==
  \A r \in Request :
    /\ WF_vars(UnderLock(r)) /\ WF_vars(Finish(r))
    /\ SF_vars(lockStudent(r)) /\ SF_vars(proposeCommit(r))

FairSpec == Spec /\ Fairness

-----------------------------------------------------------------------------
(* What the student lock buys, whatever the requests, failures and policies*)

(* Two active offers of a student are never in the same tier.  The check   *)
(* that says so is made by one transaction on what others wrote; the lock  *)
(* of lockStudent (offers.service.ts:83-86) has to keep it true until the  *)
(* commit, also when an approve or accept acts on a stale status.          *)
OneActivePerTier ==
  \A o, p \in Offer :
    ( /\ o # p /\ owner[o] = owner[p]
      /\ status[o] \in Active /\ status[p] \in Active
      /\ slab[o] = slab[p] ) => slab[o] = NoSlab

(* Under the stricter cap alone, a student has one active offer in all.    *)
OneActiveInTotal ==
  \A o, p \in Offer :
    ( /\ owner[o] = owner[p]
      /\ status[o] \in Active /\ status[p] \in Active ) => o = p

(* An offer in a tier that becomes ACCEPTED is above every offer the       *)
(* student already accepted (the re-eligibility gate of accept(),          *)
(* offers.service.ts:312-319, at the moment of the commit).                *)
AcceptClimbs ==
  [][ \A o, p \in Offer :
        ( /\ o # p /\ owner[o] = owner[p]
          /\ status[o] # "ACCEPTED" /\ status'[o] = "ACCEPTED"
          /\ slab[o] # NoSlab /\ status[p] = "ACCEPTED" )
        => SlabRank(slab[p]) < SlabRank(slab[o]) ]_vars

(* A student who counts as UNPLACED has no accepted offer: revoke()        *)
(* (offers.service.ts:430-444) decides it from a count that an accept()    *)
(* of another offer must not overtake.                                     *)
UnplacedHasNoAccepted ==
  \A o \in Offer :
    status[o] = "ACCEPTED" => placement[owner[o]] # "UNPLACED"

(* Every request that has opened a transaction is answered: no request     *)
(* waits for ever for a student another request keeps locked.              *)
RequestsFinish == \A r \in Request : tx[r] # Idle ~> tx[r] = Idle

-----------------------------------------------------------------------------
(* The inductive strengthening of the three invariants above.              *)

Open(r) == tx[r] # Idle
Inserts(r) == Open(r) /\ tx[r].op \in {"extend", "propose"}

(* The student row is locked from the in-lock reads to the commit.         *)
Holds(r) ==
  \/ tx[r].pc = "decide"
  \/ tx[r].pc = "commit" /\ tx[r].op # "propose"

(* Rows that exist have a student and a tier.                              *)
RowsInv ==
  \A o \in Offer : status[o] # "ABSENT" =>
    owner[o] \in Student /\ slab[o] \in SlabOrNull

(* A transaction on an existing offer carries that row's student and tier, *)
(* which never change; the id of a new offer belongs to one transaction.   *)
TxInv ==
  \A r \in Request : Open(r) =>
    /\ ~Inserts(r) => /\ status[tx[r].offer] # "ABSENT"
                      /\ owner[tx[r].offer] = tx[r].student
                      /\ slab[tx[r].offer] = tx[r].slab
    /\ Inserts(r) => /\ status[tx[r].offer] = "ABSENT"
                     /\ \A q \in Request \ {r} : tx[q].offer # tx[r].offer

LockInv == \A r \in Request : Holds(r) => lock[tx[r].student] = r

(* What was checked under the lock is still true at the commit.            *)
DecidedInv ==
  \A r \in Request : tx[r].pc = "commit" =>
    /\ (tx[r].op \in Gated /\ tx[r].slab # NoSlab) =>
         \A o \in OthersOf(r) : status[o] \in Active => slab[o] # tx[r].slab
    /\ tx[r].op = "accept" => tx[r].outcome = "PLACED"
    /\ (tx[r].op = "accept" /\ tx[r].slab # NoSlab) =>
         \A o \in OthersOf(r) : status[o] = "ACCEPTED" =>
           SlabRank(slab[o]) < SlabRank(tx[r].slab)
    /\ tx[r].outcome = "UNPLACED" =>
         /\ tx[r].op = "revoke"
         /\ \A o \in OthersOf(r) : status[o] # "ACCEPTED"

(* The same for an institution whose cap is ONE_TOTAL from the start.      *)
TotalInv ==
  /\ \A r \in Request :
       /\ (tx[r].pc = "decide" /\ tx[r].op \in Gated) => tx[r].cap \in CapPolicies
       /\ (tx[r].pc = "commit" /\ tx[r].op \in Gated) =>
            \A o \in OthersOf(r) : status[o] \notin Active
  /\ OneActiveInTotal

IInv ==
  /\ TypeOK /\ RowsInv /\ TxInv /\ LockInv /\ DecidedInv
  /\ OneActivePerTier /\ UnplacedHasNoAccepted

-----------------------------------------------------------------------------
(* What holds until a request writes by id an offer another one has read:  *)
(* the offers that are not crossed.                                        *)

(* A student is PLACED only while one of their offers is ACCEPTED          *)
(* (offers.service.ts:414, "Revoking an ACCEPTED offer that was the        *)
(* student's only accepted offer reverts them to UNPLACED"), unless        *)
(* requests on one of their offers crossed.                                *)
PlacedHasAccepted ==
  \A s \in Student : placement[s] = "PLACED" =>
    \E o \in Offer : owner[o] = s /\ (status[o] = "ACCEPTED" \/ o \in crossed)

(* An offer that is not crossed moves only along the lifecycle that the    *)
(* guards of the handlers describe (offers.service.ts:261, 310, 357, 425). *)
Lifecycle ==
  [][ \A o \in Offer \ crossed : status'[o] # status[o] =>
        CASE status[o] = "ABSENT" -> status'[o] \in {"PENDING", "EXTENDED"}
          [] status[o] = "PENDING" -> status'[o] \in {"EXTENDED", "REVOKED"}
          [] status[o] = "EXTENDED" ->
               status'[o] \in {"ACCEPTED", "REJECTED", "REVOKED"}
          [] status[o] \in {"ACCEPTED", "REJECTED"} -> status'[o] = "REVOKED"
          [] OTHER -> FALSE ]_vars

(* The audit row of a revocation names the status the offer really had     *)
(* (offers.service.ts:446-462), with the same exception.                   *)
AuditTellsPrevious ==
  [][ (audit' # audit /\ audit'.action = "offer.revoked") =>
        \/ audit'.previousStatus = status[audit'.offer]
        \/ audit'.offer \in crossed ]_vars

(* A student is UNPLACED only without an accepted offer, and PLACED only   *)
(* with one, unless requests on one of their offers crossed (offers.       *)
(* service.ts:321-328, 435-445).                                           *)
PlacedIffAccepted == UnplacedHasNoAccepted /\ PlacedHasAccepted

(* What becomes of an offer on which no requests crossed is legal, and its *)
(* audit row says what it was.                                             *)
OfferHistory == Lifecycle /\ AuditTellsPrevious

(* What an open transaction has seen of its offer is still so, unless the  *)
(* offer was crossed, and it is a status its handler accepts.              *)
SeenInv ==
  \A r \in Request : Open(r) =>
    /\ tx[r].seen = status[tx[r].offer] \/ tx[r].offer \in crossed
    /\ Inserts(r) => tx[r].seen = "ABSENT"
    /\ tx[r].op = "approve" => tx[r].seen = "PENDING"
    /\ tx[r].op \in {"accept", "reject"} => tx[r].seen = "EXTENDED"
    /\ tx[r].op = "revoke" => tx[r].seen \notin {"ABSENT", "REVOKED"}

(* Only accept() places a student, and a revoke() that leaves the student  *)
(* PLACED has found another accepted offer, which is there at the commit.  *)
RemainInv ==
  \A r \in Request : tx[r].pc = "commit" =>
    /\ tx[r].outcome = "PLACED" => tx[r].op = "accept"
    /\ (tx[r].op = "revoke" /\ tx[r].seen = "ACCEPTED" /\ tx[r].outcome = None) =>
         \E o \in OthersOf(r) : status[o] = "ACCEPTED"

UncrossedInv ==
  /\ SeenInv /\ RemainInv /\ PlacedHasAccepted
  /\ \A o \in crossed : status[o] # "ABSENT"

-----------------------------------------------------------------------------
(* The book of each student, read off the tables.                          *)

Held == [x \in Student \X SlabOrNull |->
           {o \in Offer : owner[o] = x[1] /\ slab[o] = x[2] /\ status[o] \in Active}]
AcceptedOffers == {o \in Offer : status[o] = "ACCEPTED"}
Unplaced == {s \in Student : placement[s] = "UNPLACED"}
LowerTier == {x \in SlabOrNull \X SlabOrNull : SlabRank(x[1]) < SlabRank(x[2])}

Ledger == INSTANCE OfferLedger WITH
  Tier <- SlabOrNull, Untiered <- NoSlab, Below <- LowerTier,
  held <- Held, accepted <- AcceptedOffers, unplaced <- Unplaced

(* The handlers, with all that may come between their reads and their      *)
(* writes, do nothing to a student's offers that the one-step operations of*)
(* OfferLedger could not: lockStudent is there for "serializing every offer*)
(* mutation (create/approve/accept/reject/revoke) for that student"        *)
(* (offers.service.ts:83).                                                 *)
ImplementsLedger == Ledger!Spec

-----------------------------------------------------------------------------
(* What the comments promise and overlapping requests break.               *)

(* "an accept racing an approve/revoke, so exactly one wins the cap check  *)
(* and the rest see the now-committed state and fail closed"               *)
(* (offers.service.ts:288-290): no accept lands on a revoked offer.        *)
AcceptFailsClosed ==
  [][ \A o \in Offer :
        status'[o] = "ACCEPTED" => status[o] # "REVOKED" ]_vars
=============================================================================

------------------------- MODULE PolicyRules_proofs -------------------------
(***************************************************************************)
(* Proofs about PolicyRules, for any number of rules, families and         *)
(* requests: the inductive invariant IInv and the three properties of the  *)
(* versions of a policy.                                                   *)
(***************************************************************************)
EXTENDS PolicyRules, TLAPS

-----------------------------------------------------------------------------
(* Type correctness.                                                       *)

(* A transaction that is not idle is a well-formed open one.               *)
LEMMA OpenIsTyped ==
  ASSUME TypeOK, NEW r \in Request, tx[r] # Idle
  PROVE  tx[r] \in OpenTx
  BY DEF TypeOK

LEMMA PcIsOpen ==
  ASSUME TypeOK, NEW r \in Request, tx[r].pc \in {"scan", "archive", "set"}
  PROVE  tx[r] # Idle /\ tx[r] \in OpenTx
  BY OpenIsTyped DEF Idle

LEMMA EndType ==
  ASSUME TypeOK, NEW r \in Request, End(r)
  PROVE  /\ tx' \in [Request -> OpenTx \cup {Idle}]
         /\ rowLock' \in [Rule -> Request \cup {None}]
         /\ UNCHANGED <<family, supersedes, overlapped>>
  BY DEF TypeOK, End

LEMMA InsertType ==
  ASSUME TypeOK, NEW q \in Rule, NEW f \in Family,
         NEW previous \in Rule \cup {None}, Insert(q, f, previous)
  PROVE  TypeOK'
  BY DEF TypeOK, Insert, PolicyRuleStatus

LEMMA BeginType ==
  ASSUME TypeOK, TargetsInv, NEW r \in Request, NEW q \in Rule, activate(r, q)
  PROVE  TypeOK'
<1>1. family[q] \in Family
  BY DEF TargetsInv, activate
<1>2. [pc |-> "scan", rule |-> q, targets |-> {}] \in OpenTx
  BY DEF OpenTx
<1> QED
  BY <1>1, <1>2 DEF TypeOK, activate, Begin, rules

LEMMA ScanType ==
  ASSUME TypeOK, NEW r \in Request, scan(r)
  PROVE  TypeOK'
<1>1. tx[r] \in OpenTx
  BY PcIsOpen DEF scan
<1>2. ActiveIn(family[tx[r].rule]) \in SUBSET Rule
  BY DEF ActiveIn
<1> QED
  BY <1>1, <1>2 DEF TypeOK, scan, OpenTx, rules

LEMMA ArchiveType ==
  ASSUME TypeOK, NEW r \in Request, archive(r)
  PROVE  TypeOK'
<1>1. tx[r] \in OpenTx
  BY PcIsOpen DEF archive
<1>2. PICK archived \in SUBSET Rule :
        /\ tx' = [tx EXCEPT ![r].pc = "set", ![r].targets = archived]
        /\ rowLock' = [q \in Rule |-> IF q \in archived THEN r ELSE rowLock[q]]
        /\ UNCHANGED <<rules, overlapped>>
  BY <1>1 DEF archive, OpenTx
<1> QED
  BY <1>1, <1>2 DEF TypeOK, OpenTx, rules

LEMMA SetType ==
  ASSUME TypeOK, NEW r \in Request, setActive(r)
  PROVE  TypeOK'
<1>1. ruleStatus' \in [Rule -> PolicyRuleStatus \cup {"ABSENT"}]
  BY DEF TypeOK, setActive, PolicyRuleStatus
<1>2. End(r)
  BY DEF setActive
<1> QED
  BY <1>1, <1>2, EndType DEF TypeOK

LEMMA InitInv == Init => IInv
  BY NoneAssumption DEF Init, IInv, TypeOK, TargetsInv, OverlapInv, AloneInv,
     OneActiveUnlessOverlapped, Idle

-----------------------------------------------------------------------------
(* The steps.  Only two kinds change a rule: inserting a new one and       *)
(* setActive.                                                              *)

(* A new rule is a DRAFT no open activation works on.                      *)
LEMMA InsertStep ==
  ASSUME IInv, NEW q \in Rule, NEW f \in Family,
         NEW previous \in Rule \cup {None}, Insert(q, f, previous)
  PROVE  IInv'
<1> USE DEF IInv
<1>1. TypeOK'
  BY InsertType
<1>2. /\ ruleStatus[q] = "ABSENT" /\ ruleStatus'[q] = "DRAFT" /\ family'[q] = f
      /\ \A p \in Rule \ {q} : ruleStatus'[p] = ruleStatus[p] /\ family'[p] = family[p]
      /\ tx' = tx /\ overlapped' = overlapped
  BY DEF Insert, TypeOK
<1>3. ASSUME NEW r \in Request, tx[r] # Idle
      PROVE  /\ tx[r].rule \in Rule \ {q}
             /\ tx[r].targets \subseteq Rule \ {q}
  BY <1>2, <1>3, OpenIsTyped DEF TargetsInv, OpenTx
<1>4. TargetsInv'
  BY <1>2, <1>3 DEF TargetsInv
<1>5. OverlapInv'
  BY <1>2, <1>3 DEF OverlapInv
<1>6. \A g : ActiveIn(g)' = ActiveIn(g)
  BY <1>2 DEF ActiveIn
<1>7. AloneInv'
  BY <1>2, <1>3, <1>6 DEF AloneInv
<1>8. OneActiveUnlessOverlapped'
  BY <1>2 DEF OneActiveUnlessOverlapped
<1> QED
  BY <1>1, <1>4, <1>5, <1>7, <1>8

(* An activation that joins another one in its family puts the family on   *)
(* record; one that is alone has found a DRAFT.                            *)
LEMMA BeginStep ==
  ASSUME IInv, NEW r \in Request, NEW q \in Rule, activate(r, q)
  PROVE  IInv'
<1> USE DEF IInv
<1>1. TypeOK'
  BY BeginType
<1>2. /\ ruleStatus[q] = "DRAFT" /\ tx[r] = Idle
      /\ tx'[r] = [pc |-> "scan", rule |-> q, targets |-> {}]
      /\ \A s \in Request \ {r} : tx'[s] = tx[s]
      /\ UNCHANGED rules /\ overlapped \subseteq overlapped'
      /\ Activating(family[q]) # {} => family[q] \in overlapped'
  BY DEF activate, Begin, TypeOK
<1>3. TargetsInv'
  BY <1>2 DEF TargetsInv, rules
<1>4. OverlapInv'
  <2> SUFFICES ASSUME NEW s \in Request, NEW u \in Request, s # u,
                      tx'[s] # Idle, tx'[u] # Idle,
                      family[tx'[s].rule] = family[tx'[u].rule]
               PROVE  family[tx'[s].rule] \in overlapped'
    BY <1>2 DEF OverlapInv, rules
  <2>1. CASE s # r /\ u # r
    BY <2>1, <1>2 DEF OverlapInv
  <2>2. CASE s = r \/ u = r
    BY <2>2, <1>2 DEF Activating
  <2> QED
    BY <2>1, <2>2
<1>5. AloneInv'
  BY <1>2 DEF AloneInv, rules, ActiveIn
<1>6. OneActiveUnlessOverlapped'
  BY <1>2 DEF OneActiveUnlessOverlapped, rules
<1> QED
  BY <1>1, <1>3, <1>4, <1>5, <1>6

(* Scanning and archiving only record what is to become ARCHIVED.          *)
LEMMA RecordStep ==
  ASSUME IInv, TypeOK', NEW r \in Request, tx[r] # Idle, NEW T,
         tx'[r].rule = tx[r].rule, tx'[r].targets = T, tx'[r] # Idle,
         \A s \in Request \ {r} : tx'[s] = tx[s],
         UNCHANGED <<rules, overlapped>>,
         T \subseteq ActiveIn(family[tx[r].rule]),
         family[tx[r].rule] \notin overlapped => T = ActiveIn(family[tx[r].rule])
  PROVE  IInv'
<1> USE DEF IInv
<1>1. TargetsInv'
  BY DEF TargetsInv, rules, ActiveIn
<1>2. OverlapInv'
  BY DEF OverlapInv, rules
<1>3. AloneInv'
  BY DEF AloneInv, rules, ActiveIn
<1>4. OneActiveUnlessOverlapped'
  BY DEF OneActiveUnlessOverlapped, rules
<1> QED
  BY <1>1, <1>2, <1>3, <1>4

LEMMA ScanStep ==
  ASSUME IInv, NEW r \in Request, scan(r)
  PROVE  IInv'
<1> USE DEF IInv
<1>1. TypeOK' /\ tx[r] # Idle /\ tx[r] \in OpenTx
  BY ScanType, PcIsOpen DEF scan
<1>2. /\ tx'[r].rule = tx[r].rule /\ tx'[r] # Idle
      /\ tx'[r].targets = ActiveIn(family[tx[r].rule])
      /\ \A s \in Request \ {r} : tx'[s] = tx[s]
      /\ UNCHANGED <<rules, overlapped>>
  BY <1>1 DEF scan, TypeOK, OpenTx, Idle
<1> QED
  BY <1>1, <1>2, RecordStep

LEMMA ArchiveStep ==
  ASSUME IInv, NEW r \in Request, archive(r)
  PROVE  IInv'
<1> USE DEF IInv
<1> DEFINE archived == {q \in tx[r].targets : ruleStatus[q] = "ACTIVE"}
<1>1. /\ TypeOK' /\ tx[r] # Idle /\ tx[r] \in OpenTx
      /\ tx[r].pc = "archive" /\ tx[r].targets \subseteq Rule
  BY ArchiveType, PcIsOpen DEF archive, OpenTx
<1>2. /\ tx'[r].rule = tx[r].rule /\ tx'[r] # Idle
      /\ tx'[r].targets = archived
      /\ \A s \in Request \ {r} : tx'[s] = tx[s]
      /\ UNCHANGED <<rules, overlapped>>
  BY <1>1 DEF archive, TypeOK, OpenTx, Idle
<1>3. archived \subseteq ActiveIn(family[tx[r].rule])
  BY <1>1 DEF TargetsInv, ActiveIn
<1>4. family[tx[r].rule] \notin overlapped =>
        archived = ActiveIn(family[tx[r].rule])
  BY <1>1 DEF AloneInv, ActiveIn
<1> QED
  BY <1>1, <1>2, <1>3, <1>4, RecordStep

LEMMA AbortStep ==
  ASSUME IInv, NEW r \in Request, abort(r)
  PROVE  IInv'
<1> USE DEF IInv
<1>1. TypeOK'
  BY EndType DEF TypeOK, abort
<1>2. /\ tx'[r] = Idle /\ \A s \in Request \ {r} : tx'[s] = tx[s]
      /\ UNCHANGED <<rules, overlapped>>
  BY DEF abort, End, TypeOK, rules
<1>3. TargetsInv'
  BY <1>2 DEF TargetsInv, rules
<1>4. OverlapInv'
  BY <1>2 DEF OverlapInv, rules
<1>5. AloneInv'
  BY <1>2 DEF AloneInv, rules, ActiveIn
<1>6. OneActiveUnlessOverlapped'
  BY <1>2 DEF OneActiveUnlessOverlapped, rules
<1> QED
  BY <1>1, <1>3, <1>4, <1>5, <1>6

(* What setActive does to the rules of its own family and of the others.   *)
LEMMA SetEffect ==
  ASSUME TypeOK, TargetsInv, NEW r \in Request, setActive(r)
  PROVE  /\ tx[r] # Idle /\ tx[r].rule \in Rule /\ tx[r].pc = "set"
         /\ tx'[r] = Idle /\ \A s \in Request \ {r} : tx'[s] = tx[s]
         /\ family' = family /\ overlapped' = overlapped
         /\ ruleStatus'[tx[r].rule] = "ACTIVE"
         /\ \A q \in tx[r].targets \ {tx[r].rule} : ruleStatus'[q] = "ARCHIVED"
         /\ \A q \in Rule \ (tx[r].targets \cup {tx[r].rule}) :
              ruleStatus'[q] = ruleStatus[q]
         /\ \A q \in Rule : ruleStatus'[q] = "ABSENT" => ruleStatus[q] = "ABSENT"
         /\ \A q \in Rule : family[q] # family[tx[r].rule] =>
              ruleStatus'[q] = ruleStatus[q]
<1>1. tx[r] # Idle /\ tx[r] \in OpenTx /\ tx[r].pc = "set"
  BY PcIsOpen DEF setActive
<1>2. tx[r].rule \in Rule /\ tx[r].targets \subseteq Rule
  BY <1>1 DEF OpenTx
<1>3. /\ tx'[r] = Idle /\ \A s \in Request \ {r} : tx'[s] = tx[s]
      /\ family' = family /\ overlapped' = overlapped
  BY DEF setActive, End, TypeOK
<1>4. /\ ruleStatus'[tx[r].rule] = "ACTIVE"
      /\ \A q \in tx[r].targets \ {tx[r].rule} : ruleStatus'[q] = "ARCHIVED"
      /\ \A q \in Rule \ (tx[r].targets \cup {tx[r].rule}) :
           ruleStatus'[q] = ruleStatus[q]
  BY <1>2 DEF setActive
<1>5. \A q \in tx[r].targets : family[q] = family[tx[r].rule]
  BY <1>1 DEF TargetsInv
<1> QED
  BY <1>1, <1>2, <1>3, <1>4, <1>5

LEMMA SetStep ==
  ASSUME IInv, NEW r \in Request, setActive(r)
  PROVE  IInv'
<1> USE DEF IInv
<1> DEFINE f == family[tx[r].rule]
<1>1. TypeOK'
  BY SetType
<1>2. TargetsInv'
  BY SetEffect, OpenIsTyped DEF TargetsInv, OpenTx
<1>3. OverlapInv'
  BY SetEffect DEF OverlapInv
<1>4. AloneInv'
  <2>1. ASSUME NEW s \in Request \ {r}, tx[s] # Idle,
               family[tx[s].rule] \notin overlapped
        PROVE  \A q \in Rule : family[q] = family[tx[s].rule] =>
                 ruleStatus'[q] = ruleStatus[q]
    <3>1. family[tx[s].rule] # f
      BY <2>1, SetEffect DEF OverlapInv
    <3> QED
      BY <3>1, SetEffect
  <2>2. ASSUME NEW s \in Request \ {r}, tx[s] # Idle,
               family[tx[s].rule] \notin overlapped
        PROVE  /\ ruleStatus'[tx[s].rule] = "DRAFT"
               /\ tx[s].pc \in {"archive", "set"} =>
                    tx[s].targets = {q \in Rule : /\ family[q] = family[tx[s].rule]
                                                  /\ ruleStatus'[q] = "ACTIVE"}
    <3>1. tx[s].rule \in Rule
      BY <2>2, OpenIsTyped DEF OpenTx
    <3> QED
      BY <2>1, <2>2, <3>1 DEF AloneInv, ActiveIn
  <2> QED
    BY <2>2, SetEffect DEF AloneInv, ActiveIn
<1>5. OneActiveUnlessOverlapped'
  <2> SUFFICES ASSUME NEW q \in Rule, NEW p \in Rule,
                      ruleStatus'[q] = "ACTIVE", ruleStatus'[p] = "ACTIVE",
                      family[q] = family[p], family[q] \notin overlapped
               PROVE  q = p
    BY SetEffect DEF OneActiveUnlessOverlapped
  <2>1. CASE family[q] # f
    BY <2>1, SetEffect DEF OneActiveUnlessOverlapped
  <2>2. CASE family[q] = f
    <3>1. tx[r].targets = ActiveIn(f)
      BY <2>2, SetEffect DEF AloneInv
    <3>2. ASSUME NEW s \in Rule, family[s] = f, ruleStatus'[s] = "ACTIVE"
          PROVE  s = tx[r].rule
      BY <3>1, <3>2, SetEffect DEF ActiveIn
    <3> QED
      BY <2>2, <3>2
  <2> QED
    BY <2>1, <2>2
<1> QED
  BY <1>1, <1>2, <1>3, <1>4, <1>5

LEMMA StepInv == IInv /\ [Next]_vars => IInv'
<1> SUFFICES ASSUME IInv, [Next]_vars PROVE IInv'
  OBVIOUS
<1>1. ASSUME NEW q \in Rule, NEW f \in Family, create(q, f) PROVE IInv'
  BY <1>1, InsertStep DEF create
<1>2. ASSUME NEW q \in Rule, NEW p \in Rule, createVersion(q, p) PROVE IInv'
  BY <1>2, InsertStep DEF createVersion, IInv, TargetsInv
<1>3. ASSUME NEW r \in Request, NEW q \in Rule, activate(r, q) PROVE IInv'
  BY <1>3, BeginStep
<1>4. ASSUME NEW r \in Request, scan(r) PROVE IInv'
  BY <1>4, ScanStep
<1>5. ASSUME NEW r \in Request, archive(r) PROVE IInv'
  BY <1>5, ArchiveStep
<1>6. ASSUME NEW r \in Request, setActive(r) PROVE IInv'
  BY <1>6, SetStep
<1>7. ASSUME NEW r \in Request, abort(r) PROVE IInv'
  BY <1>7, AbortStep
<1>8. CASE UNCHANGED vars
  BY <1>8 DEF IInv, vars, rules, TypeOK, TargetsInv, OverlapInv, AloneInv,
     OneActiveUnlessOverlapped, ActiveIn
<1> QED
  BY <1>1, <1>2, <1>3, <1>4, <1>5, <1>6, <1>7, <1>8 DEF Next

-----------------------------------------------------------------------------

(* The inductive invariant holds in every reachable state of activate(),   *)
(* create() and createVersion(), for any constants.                        *)
THEOREM Invariance == Spec => []IInv
  BY InitInv, StepInv, PTL DEF Spec

(* At most one rule of a family is ACTIVE as long as no two activations in *)
(* that family were open together (policy-rules.service.ts:102-136).       *)
THEOREM OneActive == Spec => []OneActiveUnlessOverlapped
<1>1. IInv => OneActiveUnlessOverlapped
  BY DEF IInv
<1> QED
  BY <1>1, Invariance, PTL

(* Where each step leaves the rules: a rule changes when it is inserted or *)
(* by setActive, and nothing else.                                         *)
LEMMA RulesChange ==
  ASSUME IInv, [Next]_vars
  PROVE  \/ \E q \in Rule :
              /\ ruleStatus[q] = "ABSENT" /\ ruleStatus'[q] = "DRAFT"
              /\ \A p \in Rule \ {q} : ruleStatus'[p] = ruleStatus[p]
                                       /\ family'[p] = family[p]
         \/ \E r \in Request : setActive(r)
         \/ UNCHANGED <<ruleStatus, family>>
<1>1. ASSUME NEW q \in Rule, NEW f, NEW previous, Insert(q, f, previous)
      PROVE  /\ ruleStatus[q] = "ABSENT" /\ ruleStatus'[q] = "DRAFT"
             /\ \A p \in Rule \ {q} : ruleStatus'[p] = ruleStatus[p]
                                      /\ family'[p] = family[p]
  BY <1>1 DEF Insert, IInv, TypeOK
<1> QED
  BY <1>1 DEF Next, create, createVersion, activate, Begin, scan, archive,
     abort, End, vars, rules

(* Activating another version never leaves a family without an ACTIVE      *)
(* rule, however many activations race and fail: archiving and activating  *)
(* commit together.                                                        *)
THEOREM AlwaysARule == Spec => NeverWithoutRule
<1>1. ASSUME IInv, [Next]_vars, NEW f \in Family, ActiveIn(f) # {}
      PROVE  ActiveIn(f)' # {}
  <2>1. PICK p \in Rule : family[p] = f /\ ruleStatus[p] = "ACTIVE"
    BY <1>1 DEF ActiveIn
  <2>2. ASSUME NEW q \in Rule, ruleStatus[q] = "ABSENT",
               \A s \in Rule \ {q} : ruleStatus'[s] = ruleStatus[s]
                                     /\ family'[s] = family[s]
        PROVE  ActiveIn(f)' # {}
    BY <2>1, <2>2 DEF ActiveIn
  <2>3. ASSUME NEW r \in Request, setActive(r) PROVE ActiveIn(f)' # {}
    <3>1. CASE family[tx[r].rule] = f
      BY <1>1, <2>3, <3>1, SetEffect DEF IInv, ActiveIn
    <3>2. CASE family[tx[r].rule] # f
      BY <1>1, <2>1, <2>3, <3>2, SetEffect DEF IInv, ActiveIn
    <3> QED
      BY <3>1, <3>2
  <2>4. CASE UNCHANGED <<ruleStatus, family>>
    BY <2>1, <2>4 DEF ActiveIn
  <2> QED
    BY <1>1, <2>2, <2>3, <2>4, RulesChange
<1>2. IInv /\ [Next]_vars =>
        [\A f \in Family : ActiveIn(f) # {} => ActiveIn(f)' # {}]_vars
  BY <1>1
<1> QED
  BY <1>2, Invariance, PTL DEF Spec, NeverWithoutRule

(* An ARCHIVED rule comes back only where activations raced: "Only a DRAFT *)
(* rule can be activated" (policy-rules.service.ts:114-118).               *)
THEOREM ArchivedStays == Spec => ArchivedStaysUnlessOverlapped
<1>1. ASSUME IInv, [Next]_vars, NEW q \in Rule,
             ruleStatus[q] = "ARCHIVED", ruleStatus'[q] # "ARCHIVED"
      PROVE  family[q] \in overlapped
  <2>1. PICK r \in Request : setActive(r)
    BY <1>1, RulesChange
  <2>2. q = tx[r].rule
    BY <1>1, <2>1, SetEffect DEF IInv
  <2> QED
    BY <1>1, <2>1, <2>2, SetEffect DEF IInv, AloneInv
<1>2. IInv /\ [Next]_vars =>
        [\A q \in Rule :
           ( /\ ruleStatus[q] = "ARCHIVED" /\ ruleStatus'[q] # "ARCHIVED" )
           => family[q] \in overlapped]_vars
  BY <1>1
<1> QED
  BY <1>2, Invariance, PTL DEF Spec, ArchivedStaysUnlessOverlapped
=============================================================================

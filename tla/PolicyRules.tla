----------------------------- MODULE PolicyRules -----------------------------
(***************************************************************************)
(* The versions of an institution's policy rules                           *)
(* (apps/api/src/modules/policy/policy-rules.service.ts) under concurrent  *)
(* requests.  A rule's definition never changes, so a rule is its family   *)
(* (type and name), the rule it supersedes and its status.                 *)
(*                                                                         *)
(* activate() is one READ COMMITTED transaction of three statements:       *)
(*   1. SELECT the rule, which must be a DRAFT (activate);                 *)
(*   2. UPDATE ... WHERE status = ACTIVE: Postgres takes the rows its      *)
(*      snapshot has (scan), waits for their locks and changes those that  *)
(*      are still ACTIVE (archive);                                        *)
(*   3. UPDATE the rule by id, whatever its status is by now (setActive,   *)
(*      with the commit).                                                  *)
(***************************************************************************)
EXTENDS FiniteSets

CONSTANTS Rule, Family, Request, None

ASSUME NoneAssumption == None \notin Rule \cup Family \cup Request

VARIABLES
  ruleStatus, family, supersedes,  \* policy_rules
  rowLock,                      \* the transaction that has updated a rule
  tx,                           \* the open activation of each request
  overlapped                    \* auxiliary: families in which two
                                \* activations were open at the same time

rules == <<ruleStatus, family, supersedes>>
vars == <<rules, rowLock, tx, overlapped>>

PolicyRuleStatus == {"DRAFT", "ACTIVE", "ARCHIVED"}

Idle == [pc |-> "idle", rule |-> None, targets |-> {}]

OpenTx == [pc : {"scan", "archive", "set"}, rule : Rule, targets : SUBSET Rule]

TypeOK ==
  /\ ruleStatus \in [Rule -> PolicyRuleStatus \cup {"ABSENT"}]
  /\ family \in [Rule -> Family \cup {None}]
  /\ supersedes \in [Rule -> Rule \cup {None}]
  /\ rowLock \in [Rule -> Request \cup {None}]
  /\ tx \in [Request -> OpenTx \cup {Idle}]
  /\ overlapped \subseteq Family

Init ==
  /\ ruleStatus = [q \in Rule |-> "ABSENT"]
  /\ family = [q \in Rule |-> None]
  /\ supersedes = [q \in Rule |-> None]
  /\ rowLock = [q \in Rule |-> None]
  /\ tx = [r \in Request |-> Idle]
  /\ overlapped = {}

-----------------------------------------------------------------------------

Insert(q, f, previous) ==
  /\ ruleStatus[q] = "ABSENT"
  /\ ruleStatus' = [ruleStatus EXCEPT ![q] = "DRAFT"]
  /\ family' = [family EXCEPT ![q] = f]
  /\ supersedes' = [supersedes EXCEPT ![q] = previous]
  /\ UNCHANGED <<rowLock, tx, overlapped>>

create(q, f) == Insert(q, f, None)

(* Any existing rule may be superseded, also an ARCHIVED one.  Reading it  *)
(* and inserting is one action: what is read never changes.                *)
createVersion(q, previous) ==
  /\ ruleStatus[previous] # "ABSENT"
  /\ Insert(q, family[previous], previous)

ActiveIn(f) == {q \in Rule : family[q] = f /\ ruleStatus[q] = "ACTIVE"}

Activating(f) == {r \in Request : tx[r] # Idle /\ family[tx[r].rule] = f}

Begin(r, q) ==
  /\ tx[r] = Idle
  /\ tx' = [tx EXCEPT ![r] = [pc |-> "scan", rule |-> q, targets |-> {}]]
  /\ overlapped' = IF Activating(family[q]) = {} THEN overlapped
                     ELSE overlapped \cup {family[q]}
  /\ UNCHANGED <<rules, rowLock>>

(* Mutant: an ARCHIVED rule can be activated again. *)
ActivateAny(r, q) == ruleStatus[q] # "ABSENT" /\ Begin(r, q)

activate(r, q) == ruleStatus[q] = "DRAFT" /\ Begin(r, q)

(* Mutant: only the rule that is superseded is archived. *)
ScanSuperseded(r) ==
  /\ tx[r].pc = "scan"
  /\ tx' = [tx EXCEPT ![r].pc = "archive",
                      ![r].targets = ActiveIn(family[tx[r].rule])
                                       \cap {supersedes[tx[r].rule]}]
  /\ UNCHANGED <<rules, rowLock, overlapped>>

scan(r) ==
  /\ tx[r].pc = "scan"
  /\ tx' = [tx EXCEPT ![r].pc = "archive",
                      ![r].targets = ActiveIn(family[tx[r].rule])]
  /\ UNCHANGED <<rules, rowLock, overlapped>>

Unlocked(r, Q) == \A q \in Q : rowLock[q] \in {None, r}

(* Mutant: the archiving commits by itself, before the rule is activated.  *)
ArchiveCommits(r) ==
  /\ tx[r].pc = "archive" /\ Unlocked(r, tx[r].targets)
  /\ tx' = [tx EXCEPT ![r].pc = "set", ![r].targets = {}]
  /\ ruleStatus' = [q \in Rule |-> IF q \in tx[r].targets /\ ruleStatus[q] = "ACTIVE"
                                 THEN "ARCHIVED" ELSE ruleStatus[q]]
  /\ UNCHANGED <<family, supersedes, rowLock, overlapped>>

archive(r) ==
  /\ tx[r].pc = "archive" /\ Unlocked(r, tx[r].targets)
  /\ LET archived == {q \in tx[r].targets : ruleStatus[q] = "ACTIVE"}
     IN  /\ tx' = [tx EXCEPT ![r].pc = "set", ![r].targets = archived]
         /\ rowLock' = [q \in Rule |-> IF q \in archived THEN r ELSE rowLock[q]]
  /\ UNCHANGED <<rules, overlapped>>

End(r) ==
  /\ tx' = [tx EXCEPT ![r] = Idle]
  /\ rowLock' = [q \in Rule |-> IF rowLock[q] = r THEN None ELSE rowLock[q]]
  /\ UNCHANGED <<family, supersedes, overlapped>>

setActive(r) ==
  /\ tx[r].pc = "set" /\ Unlocked(r, {tx[r].rule})
  /\ ruleStatus' = [q \in Rule |-> CASE q = tx[r].rule -> "ACTIVE"
                                 [] q \in tx[r].targets \ {tx[r].rule} -> "ARCHIVED"
                                 [] OTHER -> ruleStatus[q]]
  /\ End(r)

(* The transaction fails: its 5 s timeout, a deadlock of row locks, a lost *)
(* connection.  Nothing of it remains.                                     *)
abort(r) == tx[r] # Idle /\ End(r) /\ UNCHANGED ruleStatus

Next ==
  \/ \E q \in Rule : \/ \E f \in Family : create(q, f)
                     \/ \E p \in Rule : createVersion(q, p)
  \/ \E r \in Request : \/ \E q \in Rule : activate(r, q)
                        \/ scan(r) \/ archive(r) \/ setActive(r) \/ abort(r)

Spec == Init /\ [][Next]_vars

-----------------------------------------------------------------------------

(* Until two activations in a family overlap, it has at most one ACTIVE    *)
(* rule, whatever fails in between: the comment of activate() (policy-     *)
(* rules.service.ts:102-107) for requests that do not race.                *)
OneActiveUnlessOverlapped ==
  \A q, p \in Rule :
    ( /\ ruleStatus[q] = "ACTIVE" /\ ruleStatus[p] = "ACTIVE"
      /\ family[q] = family[p] /\ family[q] \notin overlapped ) => q = p

(* A family that has an ACTIVE rule is never without one again, whatever   *)
(* races and fails: offers and evaluations never fall back to the default  *)
(* policy in the middle of a change of policy.                             *)
NeverWithoutRule ==
  [][ \A f \in Family : ActiveIn(f) # {} => ActiveIn(f)' # {} ]_vars

(* A rule that is archived stays so, until activations of its family       *)
(* overlap: "Only a DRAFT rule can be activated" (policy-rules.service.ts  *)
(* :114-118).                                                              *)
ArchivedStaysUnlessOverlapped ==
  [][ \A q \in Rule :
        ( /\ ruleStatus[q] = "ARCHIVED" /\ ruleStatus'[q] # "ARCHIVED" )
        => family[q] \in overlapped ]_vars

(* "so there is never more than one active ruleset a given evaluator could *)
(* ambiguously pick between" (policy-rules.service.ts:104-106).            *)
NeverTwoActive ==
  \A q, p \in Rule :
    ( /\ ruleStatus[q] = "ACTIVE" /\ ruleStatus[p] = "ACTIVE"
      /\ family[q] = family[p] ) => q = p

-----------------------------------------------------------------------------
(* The inductive strengthening of OneActiveUnlessOverlapped.               *)

(* An open activation works on a rule that exists, and what it archives is *)
(* of that rule's family.                                                  *)
TargetsInv ==
  /\ \A q \in Rule : ruleStatus[q] # "ABSENT" => family[q] \in Family
  /\ \A r \in Request : tx[r] # Idle =>
       /\ ruleStatus[tx[r].rule] # "ABSENT"
       /\ \A q \in tx[r].targets : /\ ruleStatus[q] # "ABSENT"
                                   /\ family[q] = family[tx[r].rule]

(* Two open activations in a family are on record as overlapping.          *)
OverlapInv ==
  \A r, s \in Request :
    ( /\ tx[r] # Idle /\ tx[s] # Idle /\ r # s
      /\ family[tx[r].rule] = family[tx[s].rule] )
    => family[tx[r].rule] \in overlapped

(* While an activation is alone, what it found ACTIVE is all there is, and *)
(* the rule it read as a DRAFT still is one.                               *)
AloneInv ==
  \A r \in Request :
    ( tx[r] # Idle /\ family[tx[r].rule] \notin overlapped ) =>
      /\ ruleStatus[tx[r].rule] = "DRAFT"
      /\ tx[r].pc \in {"archive", "set"} =>
           tx[r].targets = ActiveIn(family[tx[r].rule])

IInv ==
  /\ TypeOK /\ TargetsInv /\ OverlapInv /\ AloneInv
  /\ OneActiveUnlessOverlapped
=============================================================================

---------------------------- MODULE Rules_proofs ----------------------------
(***************************************************************************)
(* The rules of MCRules for every input.  The lemmas and the theorems with *)
(* ASSUME are about any offers, candidate, criteria, rows and callers that *)
(* meet what they assume; the theorems about Spec apply them to the inputs *)
(* of MCRules, whatever its bounds.                                        *)
(***************************************************************************)
EXTENDS MCRules, FiniteSetTheorems, TLAPS

(* What every state of MCRules holds.                                      *)
Inv ==
  /\ existing \subseteq ExistingOffer /\ IsFiniteSet(existing)
  /\ ctcLpa \in Nat
  /\ candidate \in Records \cup {None}
  /\ user \in Callers \cup {None}
  /\ cohort = None \/ cohort \in [Student -> StudentRows]

LEMMA Invariance == Spec => []Inv
<1>1. Init => Inv
  BY FS_EmptySet DEF Init, Fresh, Idle, Inv
<1>2. Inv /\ [Next]_vars => Inv'
  <2> SUFFICES ASSUME Inv, [Next]_vars
               PROVE  Inv'
    OBVIOUS
  <2>1. CASE AddOffer
    BY <2>1, FS_AddElement DEF AddOffer, Inv
  <2>2. CASE RaiseCtc
    BY <2>2 DEF RaiseCtc, Inv
  <2>3. CASE TakeCandidate
    BY <2>3 DEF TakeCandidate, Inv
  <2>4. CASE TakeCaller
    BY <2>4 DEF TakeCaller, Inv
  <2>5. CASE TakeCohort
    BY <2>5 DEF TakeCohort, Inv
  <2>6. CASE UNCHANGED vars
    BY <2>6 DEF vars, Inv
  <2>7. QED
    BY <2>1, <2>2, <2>3, <2>4, <2>5, <2>6 DEF Next
<1>3. QED
  BY <1>1, <1>2, PTL DEF Spec

-----------------------------------------------------------------------------
(* Offer rules *)

(* The ranks of the tiers (SLAB_RANK), and what they say of the upward     *)
(* transitions (offer-eligibility.util.ts).                                *)
LEMMA RankRange == \A slab : SlabRank(slab) \in -1..2
BY DEF SlabRank

LEMMA RankInjective ==
  \A a, b \in SlabOrNull : SlabRank(a) = SlabRank(b) => a = b
BY DEF SlabRank, SlabOrNull, Slab, NoSlab

LEMMA RankOrder ==
  ASSUME NEW a \in Slab, NEW b \in SlabOrNull, SlabRank(b) > SlabRank(a)
  PROVE  <<a, b>> \in Upward
<1>1. /\ SlabRank("NON_DREAM") = 0 /\ SlabRank("SUPER_DREAM") = 1
      /\ SlabRank("DREAM") = 2 /\ SlabRank("null") = -1
  BY DEF SlabRank
<1>2. QED
  BY <1>1 DEF Slab, SlabOrNull, NoSlab, Upward

(* Some offer of a non-empty set has the highest rank.                     *)
LEMMA HighestRank ==
  ASSUME NEW S, S # {}
  PROVE  \E o \in S : \A p \in S : SlabRank(p.slab) <= SlabRank(o.slab)
<1>1. \/ \E o \in S : SlabRank(o.slab) = 2
      \/ \E o \in S : SlabRank(o.slab) = 1 /\ \A p \in S : SlabRank(p.slab) # 2
      \/ \E o \in S : SlabRank(o.slab) = 0 /\ \A p \in S : SlabRank(p.slab) \notin 1..2
      \/ \A p \in S : SlabRank(p.slab) = -1
  BY RankRange
<1>2. QED
  BY <1>1, RankRange

(* The two gates as coded and as documented.                               *)
LEMMA CapAgrees ==
  ASSUME IsFiniteSet(existing), NEW p \in SlabOrNull, NEW c \in CapPolicies
  PROVE  CapAllows(p, existing, c) <=> CapReference(p, c)
<1> DEFINE active == {o \in existing : o.status \in {"EXTENDED", "ACCEPTED"}}
<1>1. IsFiniteSet(active)
  BY FS_Subset
<1>2. Cardinality(active) = 0 <=> active = {}
  BY <1>1, FS_EmptySet
<1>3. QED
  BY <1>2, NoPolicyAssumption
  DEF CapAllows, CapReference, EffectiveCap, CapPolicies, OfferCap, Active

LEMMA ReEligibilityAgrees ==
  ASSUME existing \subseteq ExistingOffer,
         NEW p \in SlabOrNull, NEW r \in ReEligibilityPolicies
  PROVE  ReEligibilityAllows(p, existing, r) <=> ReEligibilityReference(p, r)
<1> DEFINE accepted == {o \in existing : o.status = "ACCEPTED"}
           ranks == {SlabRank(o.slab) : o \in accepted}
           top == CHOOSE k \in ranks : \A q \in ranks : q <= k
           from == CHOOSE s \in SlabOrNull : SlabRank(s) = top
<1>1. CASE p = NoSlab \/ accepted = {}
  BY <1>1 DEF ReEligibilityAllows, ReEligibilityReference
<1>2. CASE p # NoSlab /\ accepted # {}
  <2>1. PICK highest \in accepted :
          \A o \in accepted : SlabRank(o.slab) <= SlabRank(highest.slab)
    BY <1>2, HighestRank
  <2>2. highest.slab \in SlabOrNull
    BY DEF ExistingOffer
  <2>3. top \in ranks /\ \A q \in ranks : q <= top
    BY <2>1
  <2>4. top = SlabRank(highest.slab)
    BY <2>1, <2>3, RankRange
  <2>5. from \in SlabOrNull /\ SlabRank(from) = top
    BY <2>2, <2>4
  <2>6. from = highest.slab
    BY <2>2, <2>4, <2>5, RankInjective
  <2>7. \A o \in accepted :
          (\A q \in accepted : SlabRank(q.slab) <= SlabRank(o.slab)) => o.slab = from
    BY <2>1, <2>2, <2>6, RankRange, RankInjective DEF ExistingOffer
  <2>8. r = NoPolicy \/ r \in SUBSET Upward
    BY DEF ReEligibilityPolicies
  <2>9. ReEligibilityAllows(p, existing, r) <=>
          SlabRank(p) > top /\ <<from, p>> \in Upward \cap EffectiveReEligibility(r)
    <3> HIDE DEF top, from, ranks
    <3>1. ASSUME NEW o \in accepted,
                 \A q \in accepted : SlabRank(q.slab) <= SlabRank(o.slab)
          PROVE  o.slab = from /\ SlabRank(o.slab) = top
      BY <3>1, <2>4, <2>6, <2>7
    <3>2. QED
      BY <1>2, <2>1, <3>1 DEF ReEligibilityAllows, isUpwardTransitionAllowed
  <2>10. ReEligibilityReference(p, r) <=>
           /\ SlabRank(p) > top
           /\ r = NoPolicy => from \in Slab
           /\ r # NoPolicy => <<from, p>> \in r
    BY <1>2 DEF ReEligibilityReference
  <2>11. SlabRank(p) > top /\ from \in Slab => <<from, p>> \in Upward
    BY <2>5, RankOrder
  <2>12. <<from, p>> \in Upward => from \in Slab
    BY DEF Upward, Slab
  <2>13. QED
    BY <2>8, <2>9, <2>10, <2>11, <2>12 DEF EffectiveReEligibility
<1>3. QED
  BY <1>1, <1>2

(* A looser policy lets through what the stricter one does.                *)
LEMMA Relaxing ==
  ASSUME NEW p \in SlabOrNull, NEW c \in CapPolicies, NEW d \in CapPolicies,
         NEW r, NEW s, Looser(c, r, d, s),
         checkOfferEligibility(p, existing, c, r)
  PROVE  checkOfferEligibility(p, existing, d, s)
<1>1. CapAllows(p, existing, d)
  BY NoPolicyAssumption
  DEF Looser, checkOfferEligibility, CapAllows, EffectiveCap, CapPolicies, OfferCap
<1>2. ReEligibilityAllows(p, existing, s)
  BY DEF Looser, checkOfferEligibility, ReEligibilityAllows, isUpwardTransitionAllowed
<1>3. QED
  BY <1>1, <1>2 DEF checkOfferEligibility

LEMMA TwoElements ==
  ASSUME NEW a, NEW b, a # b
  PROVE  Cardinality({a, b}) = 2
<1>1. IsFiniteSet({b}) /\ Cardinality({b}) = 1 /\ a \notin {b}
  BY FS_Singleton
<1>2. Cardinality({b} \cup {a}) = Cardinality({b}) + 1
  BY <1>1, FS_AddElement
<1>3. {b} \cup {a} = {a, b}
  OBVIOUS
<1>4. QED
  BY <1>1, <1>2, <1>3

(* For any two natural thresholds: the rank is the number of those reached.*)
LEMMA TierCounts ==
  ASSUME NEW ctc \in Nat, NEW d \in [superDreamMinCtc : Nat, dreamMinCtc : Nat],
         d # NoPolicy, ValidSlabDefinition(d)
  PROVE  SlabRank(classifySlab(ctc, d)) = Cardinality({f \in DOMAIN d : ctc >= d[f]})
<1> DEFINE reached == {f \in DOMAIN d : ctc >= d[f]}
<1>1. DOMAIN d = {"superDreamMinCtc", "dreamMinCtc"}
  OBVIOUS
<1>2. /\ d.superDreamMinCtc \in Nat /\ d.dreamMinCtc \in Nat
      /\ d.dreamMinCtc >= d.superDreamMinCtc
  BY DEF ValidSlabDefinition
<1>3. CASE ctc >= d.dreamMinCtc
  <2>1. classifySlab(ctc, d) = "DREAM"
    BY <1>3 DEF classifySlab
  <2>2. reached = {"superDreamMinCtc", "dreamMinCtc"}
    BY <1>1, <1>2, <1>3
  <2>3. Cardinality({"superDreamMinCtc", "dreamMinCtc"}) = 2
    BY TwoElements
  <2>4. QED
    BY <2>1, <2>2, <2>3 DEF SlabRank
<1>4. CASE ctc < d.dreamMinCtc /\ ctc >= d.superDreamMinCtc
  <2>1. classifySlab(ctc, d) = "SUPER_DREAM"
    BY <1>2, <1>4 DEF classifySlab
  <2>2. reached = {"superDreamMinCtc"}
    BY <1>1, <1>2, <1>4
  <2>3. Cardinality(reached) = 1
    BY <2>2, FS_Singleton
  <2>4. QED
    BY <2>1, <2>3 DEF SlabRank
<1>5. CASE ctc < d.superDreamMinCtc
  <2>1. classifySlab(ctc, d) = "NON_DREAM"
    BY <1>2, <1>5 DEF classifySlab
  <2>2. reached = {}
    BY <1>1, <1>2, <1>5
  <2>3. Cardinality(reached) = 0
    BY <2>2, FS_EmptySet
  <2>4. QED
    BY <2>1, <2>3 DEF SlabRank
<1>6. QED
  BY <1>2, <1>3, <1>4, <1>5

(* The offer rules say what the comment of checkOfferEligibility says, and *)
(* grow with the policy and the CTC, on every finite set of offers of a    *)
(* student (offer-eligibility.util.ts:51-129, slab.service.ts:25-31).      *)
THEOREM OfferRulesHold ==
  ASSUME existing \subseteq ExistingOffer, IsFiniteSet(existing), ctcLpa \in Nat
  PROVE  OfferRulesAgree
<1>1. AgreesWithReference
  BY CapAgrees, ReEligibilityAgrees DEF AgreesWithReference, checkOfferEligibility
<1>2. RelaxingNeverRefuses
  BY Relaxing DEF RelaxingNeverRefuses
<1>3. TierCountsThresholds
  <2>1. \A d \in SlabDefinitions :
          /\ d \in [superDreamMinCtc : Nat, dreamMinCtc : Nat]
          /\ d # NoPolicy /\ ValidSlabDefinition(d)
    BY NoPolicyAssumption, BoundsAssumption DEF SlabDefinitions
  <2>2. QED
    BY <2>1, TierCounts DEF TierCountsThresholds, classifySlab
<1>4. QED
  BY <1>1, <1>2, <1>3 DEF OfferRulesAgree

-----------------------------------------------------------------------------

(* OfferRulesAgree in every state of MCRules, whatever MaxExisting and     *)
(* MaxCtc (checkOfferEligibility, classifySlab).                           *)
THEOREM OfferRules == Spec => []OfferRulesAgree
<1>1. Inv => OfferRulesAgree
  BY OfferRulesHold DEF Inv
<1>2. QED
  BY <1>1, Invariance, PTL

-----------------------------------------------------------------------------
(* Eligibility *)

(* A verdict is the conjunction of the ten rules.                          *)
LEMMA Verdict ==
  ASSUME NEW s, NEW criteria, NEW programs
  PROVE  runEligibilityEvaluators(s, criteria, programs).eligible <=>
           /\ evaluateDebarStatus(s)
           /\ evaluateProgram(s, programs)
           /\ evaluateCgpa(s, criteria)
           /\ evaluateTenthPercent(s, criteria)
           /\ evaluateTwelfthPercent(s, criteria)
           /\ evaluateActiveBacklogs(s, criteria)
           /\ evaluateBacklogHistory(s, criteria)
           /\ evaluateGapYears(s, criteria)
           /\ evaluateDiploma(s, criteria)
           /\ evaluateCategory(s, criteria)
<1> DEFINE ok == passed(s, criteria, programs)
<1>1. DOMAIN ok = 1..10
  BY DEF passed
<1>2. (\A i \in 1..10 : ok[i]) <=>
        /\ ok[1] /\ ok[2] /\ ok[3] /\ ok[4] /\ ok[5]
        /\ ok[6] /\ ok[7] /\ ok[8] /\ ok[9] /\ ok[10]
  OBVIOUS
<1>3. runEligibilityEvaluators(s, criteria, programs).eligible <=> \A i \in 1..10 : ok[i]
  <2>1. runEligibilityEvaluators(s, criteria, programs).eligible = (\A i \in DOMAIN ok : ok[i])
    BY DEF runEligibilityEvaluators
  <2>2. QED
    BY <1>1, <2>1
<1>4. QED
  BY <1>2, <1>3 DEF passed

(* Criteria as the schema accepts them: the limits are numbers.            *)
Numeric(criteria) ==
  \A f \in DOMAIN criteria : f \in MinFields \cup MaxFields => criteria[f] \in Nat

Mark(m) == m \in Nat \cup {Missing}

(* t is at least as good as s in every column a rule looks at.             *)
AtLeast(t, s) ==
  /\ \A f \in {"cgpa", "tenthPercent", "twelfthPercent"} :
       /\ Mark(s[f]) /\ Mark(t[f])
       /\ s[f] # Missing => t[f] # Missing /\ t[f] >= s[f]
  /\ \A f \in {"activeBacklogs", "backlogHistory", "gapYears"} :
       s[f] \in Nat /\ t[f] \in Nat /\ t[f] <= s[f]
  /\ t.departmentCode = s.departmentCode
  /\ t.diplomaFlag => s.diplomaFlag
  /\ s.category # Missing => t.category = s.category
  /\ t.placementStatus = "DEBARRED" => s.placementStatus = "DEBARRED"

(* evaluateMinThreshold and evaluateMaxThreshold are monotone.             *)
LEMMA MinKept ==
  ASSUME NEW a, NEW b, Mark(a), Mark(b), a # Missing => b # Missing /\ b >= a,
         NEW criteria, Numeric(criteria), NEW field \in MinFields,
         evaluateMinThreshold(a, criteria, field)
  PROVE  evaluateMinThreshold(b, criteria, field)
BY DEF Mark, Numeric, evaluateMinThreshold

LEMMA MaxKept ==
  ASSUME NEW a \in Nat, NEW b \in Nat, b <= a,
         NEW criteria, Numeric(criteria), NEW field \in MaxFields,
         evaluateMaxThreshold(a, criteria, field)
  PROVE  evaluateMaxThreshold(b, criteria, field)
BY DEF Numeric, evaluateMaxThreshold

(* Whoever is eligible stays eligible with a record that is better in any  *)
(* number of columns, whatever the criteria and the programs               *)
(* (threshold.helper.ts:1-79, category.evaluator.ts:3): a missing mark     *)
(* fails closed, so filling it in costs nothing.                           *)
THEOREM NobodyLosesByImproving ==
  ASSUME NEW s, NEW t, AtLeast(t, s), NEW criteria, Numeric(criteria), NEW programs,
         runEligibilityEvaluators(s, criteria, programs).eligible
  PROVE  runEligibilityEvaluators(t, criteria, programs).eligible
<1>1. /\ evaluateCgpa(t, criteria)
      /\ evaluateTenthPercent(t, criteria)
      /\ evaluateTwelfthPercent(t, criteria)
  BY Verdict, MinKept
  DEF AtLeast, MinFields, evaluateCgpa, evaluateTenthPercent, evaluateTwelfthPercent
<1>2. /\ evaluateActiveBacklogs(t, criteria)
      /\ evaluateBacklogHistory(t, criteria)
      /\ evaluateGapYears(t, criteria)
  BY Verdict, MaxKept
  DEF AtLeast, MaxFields, evaluateActiveBacklogs, evaluateBacklogHistory, evaluateGapYears
<1>3. /\ evaluateDebarStatus(t)
      /\ evaluateProgram(t, programs)
      /\ evaluateDiploma(t, criteria)
      /\ evaluateCategory(t, criteria)
  BY Verdict
  DEF AtLeast, evaluateDebarStatus, evaluateProgram, evaluateDiploma, evaluateCategory
<1>4. QED
  BY <1>1, <1>2, <1>3, Verdict

(* The home page's preview of a drive holds for every student the engine   *)
(* finds eligible under the institution's and the job description's        *)
(* criteria merged (student-home.tsx:65, criteria.helper.ts mergeCriteria):*)
(* it looks at fewer rules, and a missing CGPA that it takes for zero is   *)
(* one the engine has refused.                                             *)
THEOREM FitHidesNothing ==
  ASSUME NEW student, NEW institution, NEW jd, NEW programs,
         runEligibilityEvaluators(student, mergeCriteria(institution, jd), programs).eligible
  PROVE  assessFit([minCriteria |-> jd, eligiblePrograms |-> programs], student)
<1> DEFINE merged == mergeCriteria(institution, jd)
           drive == [minCriteria |-> jd, eligiblePrograms |-> programs]
<1>1. \A f \in DOMAIN jd : f \in DOMAIN merged /\ merged[f] = jd[f]
  BY DEF mergeCriteria
<1>2. /\ evaluateProgram(student, programs)
      /\ evaluateCgpa(student, merged)
      /\ evaluateActiveBacklogs(student, merged)
  BY Verdict
<1>3. programs # {} => student.departmentCode \in programs
  BY <1>2 DEF evaluateProgram
<1>4. "minCgpa" \in DOMAIN jd => cgpaNumber(student) >= jd["minCgpa"]
  BY <1>1, <1>2 DEF evaluateCgpa, evaluateMinThreshold, cgpaNumber
<1>5. "maxActiveBacklogs" \in DOMAIN jd => student.activeBacklogs <= jd["maxActiveBacklogs"]
  BY <1>1, <1>2 DEF evaluateActiveBacklogs, evaluateMaxThreshold
<1>6. QED
  BY <1>3, <1>4, <1>5 DEF assessFit

(* The criteria of MCRules are such.                                       *)
LEMMA OptionalNumeric ==
  ASSUME NEW field, NEW values, field \in MinFields \cup MaxFields => values \subseteq Nat
  PROVE  \A c \in Optional(field, values) : Numeric(c)
BY DEF Numeric, Optional

LEMMA BothNumeric ==
  ASSUME NEW A, NEW B, \A c \in A : Numeric(c), \A d \in B : Numeric(d)
  PROVE  \A c \in Both(A, B) : Numeric(c)
<1> SUFFICES ASSUME NEW c \in A, NEW d \in B
             PROVE  Numeric(mergeCriteria(c, d))
  BY DEF Both
<1> QED
  BY DEF Numeric, mergeCriteria

LEMMA CriteriaNumeric == \A c \in Criteria : Numeric(c)
<1> DEFINE marks == Both(Optional("minCgpa", {1, 2}), Optional("minTenthPercent", {1}))
           counts == Both(Optional("maxActiveBacklogs", {0}), Optional("maxGapYears", {0}))
           flags == Optional("allowDiploma", {FALSE})
                      \cup Optional("allowedCategories", {{}, {"GENERAL"}})
<1>1. \A c \in Optional("minCgpa", {1, 2}) : Numeric(c)
  BY OptionalNumeric
<1>2. \A c \in Optional("minTenthPercent", {1}) : Numeric(c)
  BY OptionalNumeric
<1>3. \A c \in Optional("maxActiveBacklogs", {0}) : Numeric(c)
  BY OptionalNumeric
<1>4. \A c \in Optional("maxGapYears", {0}) : Numeric(c)
  BY OptionalNumeric
<1>5. \A c \in flags : Numeric(c)
  BY OptionalNumeric DEF MinFields, MaxFields
<1>6. \A c \in marks : Numeric(c)
  <2> HIDE DEF Numeric
  <2> QED
    BY <1>1, <1>2, BothNumeric
<1>7. \A c \in counts : Numeric(c)
  BY <1>3, <1>4, BothNumeric
<1>8. \A c \in Both(marks, counts) : Numeric(c)
  <2> HIDE DEF marks, counts
  <2> QED
    BY <1>6, <1>7, BothNumeric
<1>9. \A c \in Both(Both(marks, counts), flags) : Numeric(c)
  <2> DEFINE limits == Both(marks, counts)
  <2> HIDE DEF limits, flags
  <2> QED
    BY <1>5, <1>8, BothNumeric DEF limits
<1>10. QED
  BY <1>9 DEF Criteria

(* A record that is better in one field is at least as good in all of them.*)
LEMMA BetterIsAtLeast ==
  ASSUME NEW s \in Records, NEW t \in BetterIn(s)
  PROVE  AtLeast(t, s)
<1> DEFINE Marks == {"cgpa", "tenthPercent", "twelfthPercent"}
           Counts == {"activeBacklogs", "backlogHistory", "gapYears"}
           Better(f) ==
             CASE f \in {"cgpa", "tenthPercent", "twelfthPercent"} ->
                    t[f] # Missing /\ (s[f] # Missing => t[f] > s[f])
               [] f \in {"activeBacklogs", "backlogHistory", "gapYears"} -> t[f] < s[f]
               [] f = "diplomaFlag" -> s[f] /\ ~t[f]
               [] f = "category" -> s[f] = Missing /\ t[f] # Missing
               [] f = "placementStatus" -> s[f] = "DEBARRED"
<1>1. PICK f \in DOMAIN s \ {"departmentCode"} :
        /\ \A g \in DOMAIN s \ {f} : t[g] = s[g]
        /\ Better(f)
  BY DEF BetterIn
<1>2. t \in Records
  BY DEF BetterIn
<1>3. f \in Marks => t[f] # Missing /\ (s[f] # Missing => t[f] > s[f])
  BY <1>1
<1>4. f \in Counts => t[f] < s[f]
  BY <1>1
<1>5. DOMAIN s = Marks \cup Counts
                   \cup {"diplomaFlag", "category", "departmentCode", "placementStatus"}
  BY DEF Records
<1>6. ASSUME NEW g \in Marks
      PROVE  /\ Mark(s[g]) /\ Mark(t[g])
             /\ s[g] # Missing => t[g] # Missing /\ t[g] >= s[g]
  <2>1. s[g] \in {Missing, 1, 2} /\ t[g] \in {Missing, 1, 2}
    BY <1>2 DEF Records
  <2>2. CASE f = g
    BY <1>3, <2>1, <2>2 DEF Mark
  <2>3. CASE f # g
    BY <1>1, <1>5, <2>1, <2>3 DEF Mark
  <2>4. QED
    BY <2>2, <2>3
<1>7. ASSUME NEW g \in Counts
      PROVE  s[g] \in Nat /\ t[g] \in Nat /\ t[g] <= s[g]
  <2>1. s[g] \in {0, 1} /\ t[g] \in {0, 1}
    BY <1>2 DEF Records
  <2>2. CASE f = g
    BY <1>4, <2>1, <2>2
  <2>3. CASE f # g
    BY <1>1, <1>5, <2>1, <2>3
  <2>4. QED
    BY <2>2, <2>3, <2>1
<1>8. t["departmentCode"] = s["departmentCode"]
  BY <1>1, <1>5
<1>9. t["diplomaFlag"] => s["diplomaFlag"]
  BY <1>1, <1>5
<1>10. s["category"] # Missing => t["category"] = s["category"]
  BY <1>1, <1>5
<1>11. t["placementStatus"] = "DEBARRED" => s["placementStatus"] = "DEBARRED"
  BY <1>1, <1>5
<1>12. QED
  BY <1>6, <1>7, <1>8, <1>9, <1>10, <1>11 DEF AtLeast

(* BetterStaysEligible in every state of MCRules (runEligibilityEvaluators)*)
THEOREM BetterNeverRefused == Spec => []BetterStaysEligible
<1>1. ASSUME candidate \in Records
      PROVE  BetterStaysEligible
  BY <1>1, BetterIsAtLeast, CriteriaNumeric, NobodyLosesByImproving DEF BetterStaysEligible
<1>2. Inv => BetterStaysEligible
  BY <1>1 DEF Inv, BetterStaysEligible
<1>3. QED
  BY <1>2, Invariance, PTL

(* FitNeverHidesEligible in every state of MCRules (assessFit).            *)
THEOREM FitNeverHides == Spec => []FitNeverHidesEligible
<1>1. FitNeverHidesEligible
  BY FitHidesNothing DEF FitNeverHidesEligible
<1>2. QED
  BY <1>1, PTL

-----------------------------------------------------------------------------
(* Placement numbers *)

(* Each number of a summary counts the rows its drilldown lists, for any   *)
(* students and any scope, though the aggregate and the drilldowns are     *)
(* separate queries (analytics-query.service.ts:238-246).                  *)
THEOREM NumbersAreLists ==
  ASSUME NEW rows, NEW scope
  PROVE  LET numbers == computeScopedAggregate(rows, scope)
         IN  /\ \A metric \in Metric :
                  numbers[metric] = Cardinality(getDrilldown(rows, scope, metric))
             /\ numbers.accepted = getDrilldown(rows, scope, "ACCEPTED_OFFERS")
<1> DEFINE numbers == computeScopedAggregate(rows, scope)
           scoped == {s \in Student : InScope(s, scope)}
           Listed(metric) == getDrilldown(rows, scope, metric)
<1>1. numbers["PLACED"] = Cardinality(Listed("PLACED"))
  <2>1. numbers["PLACED"] = Cardinality({s \in scoped : rows[s].placementStatus = "PLACED"})
    BY DEF computeScopedAggregate
  <2>2. Listed("PLACED") = {s \in scoped : rows[s].placementStatus = "PLACED"}
    BY DEF getDrilldown
  <2>3. QED
    BY <2>1, <2>2
<1>2. numbers["UNPLACED"] = Cardinality(Listed("UNPLACED"))
  <2>1. numbers["UNPLACED"] =
          Cardinality({s \in scoped : rows[s].placementStatus = "UNPLACED"})
    BY DEF computeScopedAggregate
  <2>2. Listed("UNPLACED") = {s \in scoped : rows[s].placementStatus = "UNPLACED"}
    BY DEF getDrilldown
  <2>3. QED
    BY <2>1, <2>2
<1>3. numbers["ELIGIBLE"] = Cardinality(Listed("ELIGIBLE"))
  <2>1. numbers["ELIGIBLE"] = Cardinality({s \in scoped : rows[s].eligible})
    BY DEF computeScopedAggregate
  <2>2. Listed("ELIGIBLE") = {s \in scoped : rows[s].eligible}
    BY DEF getDrilldown
  <2>3. QED
    BY <2>1, <2>2
<1>4. numbers["APPLIED"] = Cardinality(Listed("APPLIED"))
  <2>1. numbers["APPLIED"] = Cardinality({s \in scoped : rows[s].applications # {}})
    BY DEF computeScopedAggregate, SqlApplied
  <2>2. Listed("APPLIED") = {s \in scoped : rows[s].applications # {}}
    BY DEF getDrilldown
  <2>3. QED
    BY <2>1, <2>2
<1>5. numbers["SHORTLISTED"] = Cardinality(Listed("SHORTLISTED"))
  <2>1. numbers["SHORTLISTED"] =
          Cardinality({s \in scoped : "SHORTLISTED" \in rows[s].applications})
    BY DEF computeScopedAggregate
  <2>2. Listed("SHORTLISTED") = {s \in scoped : "SHORTLISTED" \in rows[s].applications}
    BY DEF getDrilldown
  <2>3. QED
    BY <2>1, <2>2
<1>6. numbers["SELECTED"] = Cardinality(Listed("SELECTED"))
  <2>1. numbers["SELECTED"] = Cardinality({s \in scoped : "SELECTED" \in rows[s].applications})
    BY DEF computeScopedAggregate
  <2>2. Listed("SELECTED") = {s \in scoped : "SELECTED" \in rows[s].applications}
    BY DEF getDrilldown
  <2>3. QED
    BY <2>1, <2>2
<1>7. numbers.accepted = Listed("ACCEPTED_OFFERS")
  BY DEF computeScopedAggregate, getDrilldown
<1>8. QED
  <2> HIDE DEF numbers, Listed
  <2>1. \A metric \in Metric : numbers[metric] = Cardinality(Listed(metric))
    BY <1>1, <1>2, <1>3, <1>4, <1>5, <1>6 DEF Metric
  <2>2. QED
    BY <1>7, <2>1 DEF numbers, Listed

(* A recruiter's counts are those of the offers listed for it, for any     *)
(* offers (getRecruiterSummary, offers.controller.ts findAll).             *)
THEOREM RecruiterCountsAreLists ==
  ASSUME user # None, user.role = "RECRUITER", user.companyId # None, NEW offers
  PROVE  CountsAgree(offers)
<1> DEFINE List(u, s) == listOffers(u, s, offers, AnyRow)
           counts == getRecruiterSummary(offers, user.companyId)
           own == {o \in offers : o.companyId = user.companyId}
<1>1. resolvePermissionScope("offers.manage", user.role) = "PROPOSE"
  BY DEF resolvePermissionScope, PERMISSIONS, PermissionResource, Row
<1>2. Shown("offers.manage", List) = own
  <2>1. Shown("offers.manage", List) = listOffers(user, "PROPOSE", offers, AnyRow).rows
    BY <1>1 DEF Shown, Request, Token, authUser, JwtAuthGuard, PermissionGuard
  <2>2. listOffers(user, "PROPOSE", offers, AnyRow).rows = own
    BY DEF listOffers, Ok, Where, OrNone
  <2>3. QED
    BY <2>1, <2>2
<1>3. ASSUME NEW status \in DOMAIN counts
      PROVE  counts[status] =
               Cardinality({o \in Shown("offers.manage", List) : o.status = status})
  <2>1. {o \in Shown("offers.manage", List) : o.status = status} =
          {o \in offers : o.companyId = user.companyId /\ o.status = status}
    BY <1>2
  <2>2. counts[status] =
          Cardinality({o \in offers : o.companyId = user.companyId /\ o.status = status})
    BY DEF getRecruiterSummary
  <2>3. QED
    BY <2>1, <2>2
<1>4. QED
  BY <1>3 DEF CountsAgree

(* KpiMatchesDrilldown in every state of MCRules (computeScopedAggregate,  *)
(* getDrilldown, getRecruiterSummary).                                     *)
THEOREM NumbersMatch == Spec => []KpiMatchesDrilldown
<1>1. KpiMatchesDrilldown
  <2>1. user # None /\ user.role = "RECRUITER" /\ user.companyId # None =>
          CountsAgree([userId : {"ana", "ben"}, companyId : {"acme", "bolt", "ppo"},
                       status : OfferStatus \ {"REVOKED"}])
    BY RecruiterCountsAreLists
  <2>2. \A scope \in Department \cup {Null} :
          LET numbers == computeScopedAggregate(cohort, scope)
          IN  /\ \A metric \in Metric :
                   numbers[metric] = Cardinality(getDrilldown(cohort, scope, metric))
              /\ numbers.accepted = getDrilldown(cohort, scope, "ACCEPTED_OFFERS")
    BY NumbersAreLists
  <2>3. QED
    BY <2>1, <2>2 DEF KpiMatchesDrilldown
<1>2. QED
  BY <1>1, PTL

-----------------------------------------------------------------------------
(* Permissions and row checks *)

LEMMA RoleIs == Role = {"SUPER_ADMIN", "TPO", "FACULTY_COORD", "STUDENT", "RECRUITER"}
<1>1. DOMAIN Roles = 1..5
  BY DEF Roles
<1>2. QED
  BY <1>1 DEF Roles, Role

(* A caller has a role of the registry, and what it lacks is None and not a*)
(* text that the code takes for missing or puts in its place.              *)
Caller ==
  /\ user # None
  /\ user.role \in Role
  /\ user.departmentId # ""
  /\ user.companyId # "__none__"

LEMMA CallerRole ==
  ASSUME Caller
  PROVE  user.role \in {"SUPER_ADMIN", "TPO", "FACULTY_COORD", "STUDENT", "RECRUITER"}
BY RoleIs DEF Caller

(* What the registry gives a caller, for each resource                     *)
(* (permissions.registry.ts:24).                                           *)
LEMMA StudentsScope ==
  ASSUME Caller
  PROVE  resolvePermissionScope("students.records", user.role) =
           IF user.role \in {"SUPER_ADMIN", "TPO"} THEN "FULL"
           ELSE IF user.role = "FACULTY_COORD" THEN "OWN_DEPARTMENT"
           ELSE IF user.role = "STUDENT" THEN "SELF" ELSE "NONE"
<1>1. PERMISSIONS["students.records"] = Row("FULL", "FULL", "OWN_DEPARTMENT", "SELF", "NONE")
  BY DEF PERMISSIONS, PermissionResource
<1>2. QED
  BY <1>1, CallerRole DEF resolvePermissionScope, Row

LEMMA CompaniesScope ==
  ASSUME Caller
  PROVE  resolvePermissionScope("companies.records", user.role) =
           IF user.role \in {"SUPER_ADMIN", "TPO"} THEN "FULL"
           ELSE IF user.role = "RECRUITER" THEN "SELF" ELSE "VIEW"
<1>1. PERMISSIONS["companies.records"] = Row("FULL", "FULL", "VIEW", "VIEW", "SELF")
  BY DEF PERMISSIONS, PermissionResource
<1>2. QED
  BY <1>1, CallerRole DEF resolvePermissionScope, Row

LEMMA JdScope ==
  ASSUME Caller
  PROVE  resolvePermissionScope("jd.shortlist", user.role) =
           IF user.role \in {"SUPER_ADMIN", "TPO"} THEN "FULL"
           ELSE IF user.role = "RECRUITER" THEN "SELF" ELSE "NONE"
<1>1. PERMISSIONS["jd.shortlist"] = Row("FULL", "FULL", "NONE", "NONE", "SELF")
  BY DEF PERMISSIONS, PermissionResource
<1>2. QED
  BY <1>1, CallerRole DEF resolvePermissionScope, Row

LEMMA DrivesScope ==
  ASSUME Caller
  PROVE  resolvePermissionScope("drives.manage", user.role) =
           IF user.role \in {"SUPER_ADMIN", "TPO"} THEN "FULL"
           ELSE IF user.role = "FACULTY_COORD" THEN "PROPOSE"
           ELSE IF user.role = "STUDENT" THEN "VIEW" ELSE "NONE"
<1>1. PERMISSIONS["drives.manage"] = Row("FULL", "FULL", "PROPOSE", "VIEW", "NONE")
  BY DEF PERMISSIONS, PermissionResource
<1>2. QED
  BY <1>1, CallerRole DEF resolvePermissionScope, Row

LEMMA ApplicationsScope ==
  ASSUME Caller
  PROVE  resolvePermissionScope("applications.apply", user.role) =
           IF user.role \in {"TPO", "FACULTY_COORD"} THEN "ON_BEHALF"
           ELSE IF user.role = "STUDENT" THEN "SELF" ELSE "NONE"
<1>1. PERMISSIONS["applications.apply"] = Row("NONE", "ON_BEHALF", "ON_BEHALF", "SELF", "NONE")
  BY DEF PERMISSIONS, PermissionResource
<1>2. QED
  BY <1>1, CallerRole DEF resolvePermissionScope, Row

LEMMA OffersScope ==
  ASSUME Caller
  PROVE  resolvePermissionScope("offers.manage", user.role) =
           IF user.role \in {"SUPER_ADMIN", "TPO"} THEN "FULL"
           ELSE IF user.role = "FACULTY_COORD" THEN "VIEW"
           ELSE IF user.role = "STUDENT" THEN "SELF" ELSE "PROPOSE"
<1>1. PERMISSIONS["offers.manage"] = Row("FULL", "FULL", "VIEW", "SELF", "PROPOSE")
  BY DEF PERMISSIONS, PermissionResource
<1>2. QED
  BY <1>1, CallerRole DEF resolvePermissionScope, Row

LEMMA ResumeScope ==
  ASSUME Caller
  PROVE  resolvePermissionScope("resume.manage", user.role) =
           IF user.role = "STUDENT" THEN "SELF"
           ELSE IF user.role = "RECRUITER" THEN "NONE" ELSE "VIEW"
<1>1. PERMISSIONS["resume.manage"] = Row("VIEW", "VIEW", "VIEW", "SELF", "NONE")
  BY DEF PERMISSIONS, PermissionResource
<1>2. QED
  BY <1>1, CallerRole DEF resolvePermissionScope, Row

LEMMA MentorshipScope ==
  ASSUME Caller
  PROVE  resolvePermissionScope("mentorship.community", user.role) =
           IF user.role \in {"SUPER_ADMIN", "TPO"} THEN "FULL"
           ELSE IF user.role = "FACULTY_COORD" THEN "VIEW"
           ELSE IF user.role = "STUDENT" THEN "SELF" ELSE "NONE"
<1>1. PERMISSIONS["mentorship.community"] = Row("FULL", "FULL", "VIEW", "SELF", "NONE")
  BY DEF PERMISSIONS, PermissionResource
<1>2. QED
  BY <1>1, CallerRole DEF resolvePermissionScope, Row

LEMMA PolicyScope ==
  ASSUME Caller
  PROVE  resolvePermissionScope("policy.rules", user.role) =
           IF user.role \in {"SUPER_ADMIN", "TPO"} THEN "FULL" ELSE "NONE"
<1>1. PERMISSIONS["policy.rules"] = Row("FULL", "FULL", "NONE", "NONE", "NONE")
  BY DEF PERMISSIONS, PermissionResource
<1>2. QED
  BY <1>1, CallerRole DEF resolvePermissionScope, Row

LEMMA AnalyticsScope ==
  ASSUME Caller
  PROVE  resolvePermissionScope("analytics.view", user.role) =
           IF user.role \in {"SUPER_ADMIN", "TPO"} THEN "FULL"
           ELSE IF user.role = "FACULTY_COORD" THEN "OWN_DEPARTMENT" ELSE "SELF"
<1>1. PERMISSIONS["analytics.view"] = Row("FULL", "FULL", "OWN_DEPARTMENT", "SELF", "SELF")
  BY DEF PERMISSIONS, PermissionResource
<1>2. QED
  BY <1>1, CallerRole DEF resolvePermissionScope, Row

(* A signed-in caller passes JwtAuthGuard.                                 *)
LEMMA Granted ==
  ASSUME Caller
  PROVE  Token(user).valid /\ Token(user).payload = user /\ authUser(Token(user)) = user
         /\ JwtAuthGuard(user)
BY DEF Caller, Token, authUser, JwtAuthGuard

(* What a request is answered by a handler that answers it so.             *)
Guarded(resource, answer) ==
  IF resolvePermissionScope(resource, user.role) = "NONE" THEN Refuse(403) ELSE answer

(* Each table: list and findOne agree, whatever rows it holds, as long as  *)
(* its foreign keys are set.                                               *)
LEMMA StudentsAgreeAlways ==
  ASSUME Caller, NEW rows, \A s \in rows : s.departmentId # None
  PROVE  StudentsAgree(rows)
<1> DEFINE mine == resolvePermissionScope("students.records", user.role)
<1> SUFFICES ASSUME NEW s \in rows, NEW q \in Queries
             PROVE  LET Answer(a) == Guarded("students.records", a)
                        found == Answer(findStudent(user, mine, s)).status = 200
                    IN  /\ s \in Answer(listStudents(user, mine, rows, q)).rows => found
                        /\ s \in Answer(listStudents(user, mine, rows, AnyRow)).rows <=> found
  BY Granted DEF StudentsAgree, Shown, Found, Request, PermissionGuard, Guarded
<1>1. mine \in {"FULL", "OWN_DEPARTMENT", "SELF", "NONE"}
  BY StudentsScope
<1>2. CASE mine = "NONE"
  BY <1>2 DEF Guarded, Refuse
<1>3. CASE mine = "FULL"
  BY <1>3 DEF Guarded, findStudent, listStudents, Ok, AnyRow, Where
<1>4. CASE mine = "OWN_DEPARTMENT"
  <2>1. findStudent(user, mine, s) =
          Check(user.departmentId # None /\ user.departmentId = s.departmentId, s)
    BY <1>4 DEF findStudent, assertOwnDepartment, Caller
  <2>2. \A query : s \in listStudents(user, mine, rows, query).rows
                     <=> user.departmentId # None /\ user.departmentId = s.departmentId
    BY <1>4 DEF listStudents, Ok, Refuse, Where
  <2>3. findStudent(user, mine, s).status = 200
          <=> user.departmentId # None /\ user.departmentId = s.departmentId
    BY <2>1 DEF Check, Ok, Refuse
  <2>4. QED
    BY <1>4, <2>2, <2>3 DEF Guarded
<1>5. CASE mine = "SELF"
  <2>1. findStudent(user, mine, s) = Check(user.sub = s.userId, s)
    BY <1>5 DEF findStudent, assertSelf
  <2>2. \A query : s \in listStudents(user, mine, rows, query).rows <=> user.sub = s.userId
    BY <1>5 DEF listStudents, Ok
  <2>3. findStudent(user, mine, s).status = 200 <=> user.sub = s.userId
    BY <2>1 DEF Check, Ok, Refuse
  <2>4. QED
    BY <1>5, <2>2, <2>3 DEF Guarded
<1>6. QED
  BY <1>1, <1>2, <1>3, <1>4, <1>5

LEMMA CompaniesAgreeAlways ==
  ASSUME Caller, NEW rows, \A c \in rows : c.companyId \notin {None, "__none__"}
  PROVE  CompaniesAgree(rows)
<1> DEFINE mine == resolvePermissionScope("companies.records", user.role)
<1> SUFFICES ASSUME NEW c \in rows
             PROVE  LET Answer(a) == Guarded("companies.records", a)
                    IN  c \in Answer(listCompanies(user, mine, rows)).rows
                          <=> Answer(findCompany(user, mine, c)).status = 200
  BY Granted DEF CompaniesAgree, Shown, Found, Request, PermissionGuard, Guarded
<1>1. mine # "NONE"
  BY CompaniesScope
<1>2. findCompany(user, mine, c).status = 200
        <=> (mine = "SELF" => c.companyId = user.companyId)
  BY DEF findCompany, Check, Ok, Refuse
<1>3. c \in listCompanies(user, mine, rows).rows
        <=> (mine = "SELF" => c.companyId = user.companyId)
  <2>1. CASE mine = "SELF"
    BY <2>1, NoneAssumption DEF listCompanies, Ok, Where, OrNone, Caller
  <2>2. CASE mine # "SELF"
    BY <2>2 DEF listCompanies, Ok, Where
  <2>3. QED
    BY <2>1, <2>2
<1>4. QED
  BY <1>1, <1>2, <1>3 DEF Guarded

LEMMA JobDescriptionsAgreeAlways ==
  ASSUME Caller, NEW rows, \A j \in rows : j.companyId \notin {None, "__none__"}
  PROVE  JobDescriptionsAgree(rows)
<1> DEFINE mine == resolvePermissionScope("jd.shortlist", user.role)
<1> SUFFICES ASSUME NEW j \in rows, NEW q \in Queries
             PROVE  LET Answer(a) == Guarded("jd.shortlist", a)
                        found == Answer(findJobDescription(user, mine, j)).status = 200
                    IN  /\ j \in Answer(listJobDescriptions(user, mine, rows, q)).rows => found
                        /\ j \in Answer(listJobDescriptions(user, mine, rows, AnyRow)).rows
                             <=> found
  BY Granted DEF JobDescriptionsAgree, Shown, Found, Request, PermissionGuard, Guarded
<1>1. findJobDescription(user, mine, j).status = 200
        <=> (mine = "SELF" => j.companyId = user.companyId)
  BY DEF findJobDescription, Check, Ok, Refuse
<1>2. CASE mine = "NONE"
  BY <1>2 DEF Guarded, Refuse
<1>3. CASE mine = "SELF"
  <2>1. \A query : j \in listJobDescriptions(user, mine, rows, query).rows
                     <=> j.companyId = user.companyId
    BY <1>3, NoneAssumption DEF listJobDescriptions, Ok, Where, OrNone, Caller
  <2>2. QED
    BY <1>1, <1>3, <2>1 DEF Guarded
<1>4. CASE mine \notin {"NONE", "SELF"}
  <2>1. j \in listJobDescriptions(user, mine, rows, AnyRow).rows
    BY <1>4 DEF listJobDescriptions, Ok, Where, AnyRow
  <2>2. QED
    BY <1>1, <1>4, <2>1 DEF Guarded
<1>5. QED
  BY <1>2, <1>3, <1>4

LEMMA DrivesAgreeAlways ==
  ASSUME Caller, NEW rows
  PROVE  DrivesAgree(rows)
<1> DEFINE mine == resolvePermissionScope("drives.manage", user.role)
<1> SUFFICES ASSUME NEW d \in rows
             PROVE  LET Answer(a) == Guarded("drives.manage", a)
                    IN  d \in Answer(listDrives(user, mine, rows)).rows
                          <=> Answer(findDrive(user, mine, d)).status = 200
  BY Granted DEF DrivesAgree, Shown, Found, Request, PermissionGuard, Guarded
<1>1. d \in listDrives(user, mine, rows).rows
        <=> (mine = "VIEW" => d.status \in VIEW_VISIBLE_STATUSES)
  BY DEF listDrives, Ok
<1>2. findDrive(user, mine, d).status = 200
        <=> (mine = "VIEW" => d.status \in VIEW_VISIBLE_STATUSES)
  BY DEF findDrive, Ok, Refuse
<1>3. QED
  BY <1>1, <1>2 DEF Guarded, Refuse

LEMMA ApplicationsAgreeAlways ==
  ASSUME Caller, NEW rows, user.sub # None,
         \A a \in rows : a.departmentId \notin {None, "__none__"},
         user.departmentId # "__none__"
  PROVE  ApplicationsAgree(rows)
<1> DEFINE mine == resolvePermissionScope("applications.apply", user.role)
<1> SUFFICES ASSUME NEW a \in rows
             PROVE  LET Answer(x) == Guarded("applications.apply", x)
                    IN  a \in Answer(listApplications(user, mine, rows)).rows
                          <=> Answer(findApplication(user, mine, a)).status = 200
  BY Granted DEF ApplicationsAgree, Shown, Found, Request, PermissionGuard, Guarded
<1>1. findApplication(user, mine, a).status = 200 <=> ActsFor(user, mine, a)
  BY DEF findApplication, Check, Ok, Refuse
<1>2. a \in listApplications(user, mine, rows).rows <=> ActsFor(user, mine, a)
  <2>1. mine = "SELF" => user.role # "FACULTY_COORD"
    BY ApplicationsScope
  <2>2. CASE mine = "SELF"
    BY <2>1, <2>2 DEF listApplications, Ok, Where, ActsFor
  <2>3. CASE mine # "SELF" /\ user.role = "FACULTY_COORD"
    BY <2>3, NoneAssumption DEF listApplications, Ok, Where, ActsFor, OrNone
  <2>4. CASE mine # "SELF" /\ user.role # "FACULTY_COORD"
    BY <2>4 DEF listApplications, Ok, ActsFor
  <2>5. QED
    BY <2>2, <2>3, <2>4
<1>3. QED
  BY <1>1, <1>2 DEF Guarded, Refuse

LEMMA OffersAgreeAlways ==
  ASSUME Caller, NEW rows, user.sub # None,
         \A o \in rows : o.companyId \notin {None, "__none__"}
  PROVE  OffersAgree(rows)
<1> DEFINE mine == resolvePermissionScope("offers.manage", user.role)
<1> SUFFICES ASSUME NEW o \in rows, NEW q \in Queries
             PROVE  LET Answer(a) == Guarded("offers.manage", a)
                        found == Answer(findOffer(user, mine, o, rows)).status = 200
                    IN  /\ o \in Answer(listOffers(user, mine, rows, q)).rows => found
                        /\ o \in Answer(listOffers(user, mine, rows, AnyRow)).rows <=> found
  BY Granted DEF OffersAgree, Shown, Found, Request, PermissionGuard, Guarded
<1>1. mine \in {"FULL", "VIEW", "SELF", "PROPOSE"}
  BY OffersScope
<1>2. CASE mine = "SELF"
  <2>1. \A query : o \in listOffers(user, mine, rows, query).rows <=> o.userId = user.sub
    BY <1>2 DEF listOffers, Ok, Where
  <2>2. findOffer(user, mine, o, rows) = Check(o.userId = user.sub, o)
    BY <1>2, <2>1 DEF findOffer
  <2>3. findOffer(user, mine, o, rows).status = 200 <=> o.userId = user.sub
    BY <2>2 DEF Check, Ok, Refuse
  <2>4. QED
    BY <1>2, <2>1, <2>3 DEF Guarded
<1>3. CASE mine = "PROPOSE"
  <2>1. \A query : o \in listOffers(user, mine, rows, query).rows
                     <=> o.companyId = user.companyId
    BY <1>3, NoneAssumption DEF listOffers, Ok, Where, OrNone, Caller
  <2>2. findOffer(user, mine, o, rows) = Check(o.companyId = user.companyId, o)
    BY <1>3 DEF findOffer
  <2>3. findOffer(user, mine, o, rows).status = 200 <=> o.companyId = user.companyId
    BY <2>2 DEF Check, Ok, Refuse
  <2>4. QED
    BY <1>3, <2>1, <2>3 DEF Guarded
<1>4. CASE mine \in {"FULL", "VIEW"}
  <2>1. o \in listOffers(user, mine, rows, AnyRow).rows
    BY <1>4 DEF listOffers, Ok, Where, AnyRow
  <2>2. findOffer(user, mine, o, rows).status = 200
    BY <1>4 DEF findOffer, Ok
  <2>3. QED
    BY <1>4, <2>1, <2>2 DEF Guarded
<1>5. QED
  BY <1>1, <1>2, <1>3, <1>4

(* Everything is a placement officer's own; what is whose for the others.  *)
LEMMA Owns ==
  ASSUME Caller, NEW row
  PROVE  /\ user.role \in {"SUPER_ADMIN", "TPO"} => Own(row)
         /\ user.role = "STUDENT" =>
              (Own(row) <=> "userId" \in DOMAIN row /\ row.userId = user.sub)
         /\ user.role = "RECRUITER" =>
              (Own(row) <=> "companyId" \in DOMAIN row /\ row.companyId = user.companyId)
         /\ user.role = "FACULTY_COORD" =>
              (Own(row) <=>
                 IF "status" \in DOMAIN row THEN row.status = "DRAFT"
                 ELSE "departmentId" \in DOMAIN row
                        /\ row.departmentId = user.departmentId)
BY DEF Own

(* Each table: writes reach the caller's own rows only, whatever rows it   *)
(* holds.  An apply names one student: userId is unique.                   *)
LEMMA StudentWritesOwnAlways ==
  ASSUME Caller, NEW U, NEW D, NEW rows \in SUBSET [userId : U, departmentId : D],
         \A s, t \in rows : s.userId = t.userId => s = t
  PROVE  StudentWritesOwn(rows)
<1> DEFINE scope(resource) == resolvePermissionScope(resource, user.role)
           mine == {s \in rows : s.userId = user.sub}
<1> SUFFICES
      /\ \A row \in Guarded("students.records",
                      updateMyLinks(user, scope("students.records"), rows)).rows : Own(row)
      /\ \A row \in Guarded("resume.manage",
                      updateMyResume(user, scope("resume.manage"), rows)).rows : Own(row)
      /\ \A row \in Guarded("mentorship.community",
                      updateMentorProfile(user, scope("mentorship.community"), rows)).rows :
           Own(row)
      /\ \A b \in Queries :
           \A row \in Guarded("applications.apply",
                        apply(user, scope("applications.apply"), rows, b)).rows : Own(row)
  BY Granted DEF StudentWritesOwn, OwnOnly, Request, PermissionGuard, Guarded
<1>1. ASSUME user.role = "STUDENT", NEW row \in mine
      PROVE  Own(row)
  BY <1>1, Owns
<1>2. /\ scope("students.records") = "SELF" => user.role = "STUDENT"
      /\ scope("resume.manage") = "SELF" => user.role = "STUDENT"
      /\ scope("mentorship.community") = "SELF" => user.role = "STUDENT"
  BY StudentsScope, ResumeScope, MentorshipScope
<1>3. \A row \in Guarded("students.records",
                   updateMyLinks(user, scope("students.records"), rows)).rows : Own(row)
  BY <1>1, <1>2 DEF Guarded, updateMyLinks, Refuse, Ok
<1>4. \A row \in Guarded("resume.manage",
                   updateMyResume(user, scope("resume.manage"), rows)).rows : Own(row)
  BY <1>1, <1>2 DEF Guarded, updateMyResume, getMyResume, Refuse, Ok
<1>5. \A row \in Guarded("mentorship.community",
                   updateMentorProfile(user, scope("mentorship.community"), rows)).rows :
        Own(row)
  BY <1>1, <1>2 DEF Guarded, updateMentorProfile, Refuse, Ok
<1>6. ASSUME NEW b \in Queries,
             NEW row \in Guarded("applications.apply",
                           apply(user, scope("applications.apply"), rows, b)).rows
      PROVE  Own(row)
  <2> DEFINE scp == scope("applications.apply")
             chosen == {s \in rows : s.userId =
                          IF scp = "SELF" THEN user.sub ELSE b.userId}
  <2>1. /\ scp # "NONE"
        /\ row \in chosen
        /\ user.role = "FACULTY_COORD" =>
             \E s \in chosen : s.departmentId = user.departmentId
    <3>1. scp # "NONE" /\ row \in apply(user, scp, rows, b).rows
      BY <1>6 DEF Guarded, Refuse
    <3> HIDE DEF scp
    <3>2. QED
      BY <3>1 DEF apply, Refuse, Ok
  <2>2. CASE user.role = "STUDENT"
    BY <1>1, <2>1, <2>2, ApplicationsScope
  <2>3. CASE user.role = "FACULTY_COORD"
    <3>1. PICK s \in chosen : s.departmentId = user.departmentId
      BY <2>1, <2>3
    <3>2. s = row
      BY <2>1
    <3>3. "status" \notin DOMAIN row /\ "departmentId" \in DOMAIN row
      BY <2>1
    <3>4. QED
      BY <2>3, <3>1, <3>2, <3>3, Owns
  <2>4. CASE user.role \in {"SUPER_ADMIN", "TPO"}
    BY <2>4, Owns
  <2>5. user.role # "RECRUITER"
    BY <2>1, ApplicationsScope, RoleIs
  <2>6. QED
    BY <2>2, <2>3, <2>4, <2>5, RoleIs DEF Caller
<1>7. QED
  BY <1>3, <1>4, <1>5, <1>6

(* So only the roles other than the office's are left to look at.          *)
LEMMA Others ==
  ASSUME Caller, NEW row,
         user.role = "STUDENT" => Own(row),
         user.role = "RECRUITER" => Own(row),
         user.role = "FACULTY_COORD" => Own(row)
  PROVE  Own(row)
BY Owns, RoleIs DEF Caller

LEMMA CompanyWritesOwnAlways ==
  ASSUME Caller, NEW C, NEW rows \in SUBSET [companyId : C]
  PROVE  CompanyWritesOwn(rows)
<1> DEFINE records == resolvePermissionScope("companies.records", user.role)
           jd == resolvePermissionScope("jd.shortlist", user.role)
<1> SUFFICES ASSUME NEW c \in rows
             PROVE
      /\ \A row \in Guarded("companies.records", createCompany(user, records, c)).rows : Own(row)
      /\ \A row \in Guarded("companies.records", updateCompany(user, records, c)).rows : Own(row)
      /\ \A row \in Guarded("jd.shortlist", createJobDescription(user, jd, c)).rows : Own(row)
  BY Granted DEF CompanyWritesOwn, OwnOnly, Request, PermissionGuard, Guarded
<1>1. ASSUME NEW row \in Guarded("companies.records", createCompany(user, records, c)).rows
      PROVE  Own(row)
  <2>1. records = "FULL"
    <3> HIDE DEF records
    <3> QED
      BY <1>1 DEF Guarded, createCompany, Check, Refuse, Ok
  <2>2. QED
    BY <2>1, CompaniesScope, Others
<1>2. ASSUME NEW row \in Guarded("companies.records", updateCompany(user, records, c)).rows
      PROVE  Own(row)
  <2>1. /\ records # "VIEW" /\ row = c
        /\ records = "SELF" => c.companyId = user.companyId
    <3> HIDE DEF records
    <3> QED
      BY <1>2 DEF Guarded, updateCompany, Check, Refuse, Ok
  <2>2. QED
    BY <2>1, CompaniesScope, Others, Owns
<1>3. ASSUME NEW row \in Guarded("jd.shortlist", createJobDescription(user, jd, c)).rows
      PROVE  Own(row)
  <2>1. /\ jd # "NONE" /\ row = c
        /\ jd = "SELF" => c.companyId = user.companyId
    <3>1. jd # "NONE"
      BY <1>3 DEF Guarded, Refuse
    <3> HIDE DEF jd
    <3> QED
      BY <1>3, <3>1 DEF Guarded, createJobDescription, Check, Refuse, Ok
  <2>2. QED
    BY <2>1, JdScope, Others, Owns
<1>4. QED
  BY <1>1, <1>2, <1>3

LEMMA DriveWritesOwnAlways ==
  ASSUME Caller, NEW S, NEW rows \in SUBSET [status : S]
  PROVE  DriveWritesOwn(rows)
<1> DEFINE mine == resolvePermissionScope("drives.manage", user.role)
           Answer(a) == Guarded("drives.manage", a)
<1> SUFFICES ASSUME NEW d \in rows
             PROVE  /\ \A row \in Answer(createDrive(user, mine, d)).rows : Own(row)
                    /\ \A row \in Answer(updateDriveStatus(user, mine, d)).rows : Own(row)
                    /\ \A row \in Answer(addRound(user, mine, d)).rows : Own(row)
  BY Granted DEF DriveWritesOwn, OwnOnly, Request, PermissionGuard, Guarded
<1>1. ASSUME NEW row \in Answer(createDrive(user, mine, d)).rows
      PROVE  Own(row)
  <2>1. mine # "NONE" /\ row \in createDrive(user, mine, d).rows
    BY <1>1 DEF Guarded, Refuse
  <2>2. /\ mine # "VIEW" /\ "status" \in DOMAIN row
        /\ mine = "PROPOSE" => row.status = "DRAFT"
    <3> HIDE DEF mine
    <3> QED
      BY <2>1 DEF createDrive, Refuse, Ok
  <2>3. QED
    BY <2>1, <2>2, DrivesScope, Others, Owns
<1>2. ASSUME NEW row \in Answer(updateDriveStatus(user, mine, d)).rows
      PROVE  Own(row)
  <2>1. mine = "FULL"
    <3>1. row \in updateDriveStatus(user, mine, d).rows
      BY <1>2 DEF Guarded, Refuse
    <3> HIDE DEF mine
    <3> QED
      BY <3>1 DEF updateDriveStatus, Check, Refuse, Ok
  <2>2. QED
    BY <2>1, DrivesScope, Others
<1>3. ASSUME NEW row \in Answer(addRound(user, mine, d)).rows
      PROVE  Own(row)
  <2>1. mine # "NONE" /\ row \in addRound(user, mine, d).rows
    BY <1>3 DEF Guarded, Refuse
  <2>2. /\ mine # "VIEW" /\ "status" \in DOMAIN row
        /\ mine = "PROPOSE" => row.status = "DRAFT"
    <3> HIDE DEF mine
    <3> QED
      BY <2>1 DEF addRound, Check, Refuse, Ok
  <2>3. QED
    BY <2>1, <2>2, DrivesScope, Others, Owns
<1>4. QED
  BY <1>1, <1>2, <1>3

LEMMA ApplicationWritesOwnAlways ==
  ASSUME Caller, NEW U, NEW D, NEW C,
         NEW rows \in SUBSET [userId : U, departmentId : D, companyId : C]
  PROVE  ApplicationWritesOwn(rows)
<1> DEFINE scope(resource) == resolvePermissionScope(resource, user.role)
           own == scope("applications.apply")
           jd == scope("jd.shortlist")
           drives == scope("drives.manage")
           offers == scope("offers.manage")
<1> SUFFICES ASSUME NEW a \in rows
             PROVE
      /\ \A row \in Guarded("applications.apply", withdraw(user, own, a)).rows : Own(row)
      /\ \A row \in Guarded("jd.shortlist", shortlist(user, jd, a)).rows : Own(row)
      /\ \A row \in Guarded("drives.manage", recordRoundResult(user, drives, a)).rows : Own(row)
      /\ \A row \in Guarded("offers.manage", createOffer(user, offers, a)).rows : Own(row)
  BY Granted DEF ApplicationWritesOwn, OwnOnly, Request, PermissionGuard, Guarded
<1>0. /\ {"userId", "departmentId", "companyId"} \subseteq DOMAIN a
      /\ "status" \notin DOMAIN a
  OBVIOUS
<1>1. ASSUME NEW row \in Guarded("applications.apply", withdraw(user, own, a)).rows
      PROVE  Own(row)
  <2>1. own # "NONE" /\ row \in withdraw(user, own, a).rows
    BY <1>1 DEF Guarded, Refuse
  <2>2. row = a /\ ActsFor(user, own, a)
    <3> HIDE DEF own
    <3> QED
      BY <2>1 DEF withdraw, Check, Refuse, Ok
  <2>3. user.role # "RECRUITER"
    BY <2>1, ApplicationsScope
  <2>4. user.role = "STUDENT" => Own(row)
    BY <1>0, <2>2, ApplicationsScope, Owns DEF ActsFor
  <2>5. user.role = "FACULTY_COORD" => Own(row)
    BY <1>0, <2>2, Owns DEF ActsFor
  <2>6. QED
    BY <2>3, <2>4, <2>5, Others
<1>2. ASSUME NEW row \in Guarded("jd.shortlist", shortlist(user, jd, a)).rows
      PROVE  Own(row)
  <2>1. jd # "NONE" /\ row \in shortlist(user, jd, a).rows
    BY <1>2 DEF Guarded, Refuse
  <2>2. row = a /\ (jd = "SELF" => a.companyId = user.companyId)
    <3> HIDE DEF jd
    <3> QED
      BY <2>1 DEF shortlist, Check, Refuse, Ok
  <2>3. QED
    BY <1>0, <2>1, <2>2, JdScope, Others, Owns
<1>3. ASSUME NEW row \in Guarded("drives.manage", recordRoundResult(user, drives, a)).rows
      PROVE  Own(row)
  <2>1. row \in recordRoundResult(user, drives, a).rows
    BY <1>3 DEF Guarded, Refuse
  <2>2. drives = "FULL"
    <3> HIDE DEF drives
    <3> QED
      BY <2>1 DEF recordRoundResult, Check, Refuse, Ok
  <2>3. QED
    BY <2>2, DrivesScope, Others
<1>4. ASSUME NEW row \in Guarded("offers.manage", createOffer(user, offers, a)).rows
      PROVE  Own(row)
  <2>1. row \in createOffer(user, offers, a).rows
    BY <1>4 DEF Guarded, Refuse
  <2>2. /\ row = a /\ offers \in {"FULL", "PROPOSE"}
        /\ offers = "PROPOSE" => a.companyId = user.companyId
    <3> HIDE DEF offers
    <3> QED
      BY <2>1 DEF createOffer, Check, Refuse, Ok
  <2>3. QED
    BY <1>0, <2>2, OffersScope, Others, Owns
<1>5. QED
  BY <1>1, <1>2, <1>3, <1>4

LEMMA OfferWritesOwnAlways ==
  ASSUME Caller, NEW U, NEW C, NEW rows \in SUBSET [userId : U, companyId : C]
  PROVE  OfferWritesOwn(rows)
<1> DEFINE mine == resolvePermissionScope("offers.manage", user.role)
           Answer(a) == Guarded("offers.manage", a)
<1> SUFFICES ASSUME NEW o \in rows
             PROVE  /\ \A row \in Answer(acceptOffer(user, mine, o)).rows : Own(row)
                    /\ \A row \in Answer(rejectOffer(user, mine, o)).rows : Own(row)
                    /\ \A row \in Answer(approveOffer(user, mine, o)).rows : Own(row)
                    /\ \A row \in Answer(revokeOffer(user, mine, o)).rows : Own(row)
                    /\ \A row \in Answer(createPpo(user, mine, o)).rows : Own(row)
  BY Granted DEF OfferWritesOwn, OwnOnly, Request, PermissionGuard, Guarded
<1>1. ASSUME NEW row, row \in Answer(acceptOffer(user, mine, o)).rows
                      \cup Answer(rejectOffer(user, mine, o)).rows
      PROVE  Own(row)
  <2>1. \/ row \in acceptOffer(user, mine, o).rows
        \/ row \in rejectOffer(user, mine, o).rows
    BY <1>1 DEF Guarded, Refuse
  <2>2. row = o /\ mine = "SELF" /\ o.userId = user.sub
    <3> HIDE DEF mine
    <3> QED
      BY <2>1 DEF acceptOffer, rejectOffer, Check, Refuse, Ok
  <2>3. user.role = "STUDENT" /\ "userId" \in DOMAIN row
    BY <2>2, OffersScope
  <2>4. QED
    BY <2>2, <2>3, Owns
<1>2. ASSUME NEW row, row \in Answer(approveOffer(user, mine, o)).rows
                      \cup Answer(revokeOffer(user, mine, o)).rows
                      \cup Answer(createPpo(user, mine, o)).rows
      PROVE  Own(row)
  <2>1. \/ row \in approveOffer(user, mine, o).rows
        \/ row \in revokeOffer(user, mine, o).rows
        \/ row \in createPpo(user, mine, o).rows
    BY <1>2 DEF Guarded, Refuse
  <2>2. mine = "FULL"
    <3> HIDE DEF mine
    <3> QED
      BY <2>1 DEF approveOffer, revokeOffer, createPpo, Check, Refuse, Ok
  <2>3. QED
    BY <2>2, OffersScope, Others
<1>3. QED
  BY <1>1, <1>2

LEMMA VerdictWritesOwnAlways ==
  ASSUME Caller, NEW students, NEW drives
  PROVE  VerdictWritesOwn(students, drives)
<1> DEFINE mine == resolvePermissionScope("drives.manage", user.role)
           Roster(d) == IF getEligibility(user, mine, d).status = 200
                          THEN Ok(students) ELSE Refuse(403)
<1> SUFFICES
      /\ \A s \in students : user.role \notin {"STUDENT", "FACULTY_COORD"} =>
           \A row \in Guarded("drives.manage", evaluateEligibility(user, mine, s)).rows : Own(row)
      /\ \A d \in drives : user.role # "FACULTY_COORD" =>
           \A row \in Guarded("drives.manage", Roster(d)).rows : Own(row)
  BY Granted DEF VerdictWritesOwn, OwnOnly, Request, PermissionGuard, Guarded
<1>1. ASSUME NEW s \in students, user.role \notin {"STUDENT", "FACULTY_COORD"},
             NEW row \in Guarded("drives.manage", evaluateEligibility(user, mine, s)).rows
      PROVE  Own(row)
  <2>1. mine # "NONE"
    BY <1>1 DEF Guarded, Refuse
  <2>2. QED
    BY <1>1, <2>1, DrivesScope, Others
<1>2. ASSUME NEW d \in drives, user.role # "FACULTY_COORD",
             NEW row \in Guarded("drives.manage", Roster(d)).rows
      PROVE  Own(row)
  <2>1. mine # "NONE" /\ row \in Roster(d).rows
    BY <1>2 DEF Guarded, Refuse
  <2>2. mine # "VIEW"
    <3> HIDE DEF mine
    <3> QED
      BY <2>1 DEF getEligibility, Check, Refuse, Ok
  <2>3. QED
    BY <1>2, <2>1, <2>2, DrivesScope, Others
<1>3. QED
  BY <1>1, <1>2

LEMMA BoardWritesOwnAlways ==
  ASSUME Caller, NEW U, NEW threads \in SUBSET [userId : U]
  PROVE  BoardWritesOwn(threads)
<1> DEFINE mine == resolvePermissionScope("mentorship.community", user.role)
           New(t) == [t EXCEPT !.userId = user.sub]
           Answer(a) == Guarded("mentorship.community", a)
<1> SUFFICES ASSUME NEW t \in threads
             PROVE  /\ \A row \in Answer(createThread(user, mine, New(t))).rows : Own(row)
                    /\ user.role # "STUDENT" =>
                         \A row \in Answer(addReply(user, mine, t)).rows : Own(row)
  BY Granted DEF BoardWritesOwn, OwnOnly, Request, PermissionGuard, Guarded
<1>1. ASSUME NEW row, row \in Answer(createThread(user, mine, New(t))).rows
                      \cup Answer(addReply(user, mine, t)).rows
      PROVE  mine \notin {"NONE", "VIEW"} /\ row \in {New(t), t}
  <2>1. /\ mine # "NONE"
        /\ row \in createThread(user, mine, New(t)).rows \cup addReply(user, mine, t).rows
    BY <1>1 DEF Guarded, Refuse
  <2> HIDE DEF mine, New
  <2>2. QED
    BY <2>1 DEF createThread, addReply, Check, Refuse, Ok
<1>2. ASSUME NEW row \in Answer(createThread(user, mine, New(t))).rows
      PROVE  Own(row)
  <2>1. row = New(t)
    <3> HIDE DEF mine, New
    <3> QED
      BY <1>2 DEF Guarded, createThread, Check, Refuse, Ok
  <2>2. "userId" \in DOMAIN row /\ row.userId = user.sub
    BY <2>1
  <2>3. mine \notin {"NONE", "VIEW"}
    BY <1>1, <1>2
  <2>4. QED
    BY <2>2, <2>3, MentorshipScope, Others, Owns
<1>3. ASSUME user.role # "STUDENT", NEW row \in Answer(addReply(user, mine, t)).rows
      PROVE  Own(row)
  <2>1. mine \notin {"NONE", "VIEW"}
    BY <1>1, <1>3
  <2>2. QED
    BY <1>3, <2>1, MentorshipScope, Others
<1>4. QED
  BY <1>2, <1>3

LEMMA PolicyWritesOwnAlways ==
  ASSUME Caller, NEW rules
  PROVE  PolicyWritesOwn(rules)
<1> DEFINE mine == resolvePermissionScope("policy.rules", user.role)
<1> SUFFICES ASSUME NEW r \in rules,
                    NEW row \in Guarded("policy.rules", policyRules(user, mine, r)).rows
             PROVE  Own(row)
  BY Granted DEF PolicyWritesOwn, OwnOnly, Request, PermissionGuard, Guarded
<1>1. mine # "NONE"
  BY DEF Guarded, Refuse
<1>2. QED
  BY <1>1, PolicyScope, Others

(* The lists and the single reads of the six controllers agree for any     *)
(* caller and whatever rows the tables hold (students, companies,          *)
(* job-descriptions, drives, applications and offers.controller.ts).       *)
THEOREM AnyRowsAgree ==
  ASSUME Caller, user.sub # None, user.departmentId # "__none__",
         NEW students, \A s \in students : s.departmentId # None,
         NEW companies, \A c \in companies : c.companyId \notin {None, "__none__"},
         NEW drives,
         NEW applications, \A a \in applications : a.departmentId \notin {None, "__none__"},
         NEW offers, \A o \in offers : o.companyId \notin {None, "__none__"}
  PROVE  /\ StudentsAgree(students)
         /\ CompaniesAgree(companies)
         /\ JobDescriptionsAgree(companies)
         /\ DrivesAgree(drives)
         /\ ApplicationsAgree(applications)
         /\ OffersAgree(offers)
BY StudentsAgreeAlways, CompaniesAgreeAlways, JobDescriptionsAgreeAlways, DrivesAgreeAlways,
   ApplicationsAgreeAlways, OffersAgreeAlways

(* A write of a guarded controller reaches its caller's own rows only, for *)
(* any caller and whatever rows the tables hold, but for the three named at*)
(* WritesStayInScope: evaluate, a coordinator's roster, a student's reply  *)
(* (the controllers and services of ListsAgree, and those of eligibility,  *)
(* resumes, mentorship and policy).                                        *)
THEOREM AnyWriteIsOwn ==
  ASSUME Caller, NEW U, NEW D, NEW C, NEW S,
         NEW students \in SUBSET [userId : U, departmentId : D],
         \A s, t \in students : s.userId = t.userId => s = t,
         NEW companies \in SUBSET [companyId : C],
         NEW drives \in SUBSET [status : S],
         NEW applications \in SUBSET [userId : U, departmentId : D, companyId : C],
         NEW offers \in SUBSET [userId : U, companyId : C],
         NEW threads \in SUBSET [userId : U],
         NEW rules
  PROVE  /\ StudentWritesOwn(students)
         /\ CompanyWritesOwn(companies)
         /\ DriveWritesOwn(drives)
         /\ ApplicationWritesOwn(applications)
         /\ OfferWritesOwn(offers)
         /\ VerdictWritesOwn(students, drives)
         /\ BoardWritesOwn(threads)
         /\ PolicyWritesOwn(rules)
BY StudentWritesOwnAlways, CompanyWritesOwnAlways, DriveWritesOwnAlways,
   ApplicationWritesOwnAlways, OfferWritesOwnAlways, VerdictWritesOwnAlways,
   BoardWritesOwnAlways, PolicyWritesOwnAlways

(* The callers of MCRules are such.                                        *)
LEMMA CallerHolds ==
  ASSUME Inv, user # None
  PROVE  Caller /\ user.sub # None /\ user.departmentId # "__none__"
BY NoneAssumption DEF Inv, Callers, Caller

LEMMA StudentRecords ==
  Students \in SUBSET [userId : {"ana", "ben"}, departmentId : {"CSE", "ECE"}]
BY DEF Students

(* ListAgreesWithFindOne in every state of MCRules: the lists of the six   *)
(* controllers and their findOne, for every caller.                        *)
THEOREM ListsAgree == Spec => []ListAgreesWithFindOne
<1>1. ASSUME Inv, user # None
      PROVE  ListAgreesWithFindOne
  <2>1. Caller /\ user.sub # None /\ user.departmentId # "__none__"
    BY <1>1, CallerHolds
  <2>2. StudentsAgree(Students)
    <3>1. \A s \in Students : s.departmentId # None
      BY NoneAssumption, StudentRecords
    <3>2. QED
      BY <2>1, <3>1, StudentsAgreeAlways
  <2>3. CompaniesAgree(Companies)
    BY <2>1, NoneAssumption, CompaniesAgreeAlways DEF Companies
  <2>4. JobDescriptionsAgree(Companies)
    BY <2>1, NoneAssumption, JobDescriptionsAgreeAlways DEF Companies
  <2>5. DrivesAgree(Drives)
    BY <2>1, DrivesAgreeAlways
  <2>6. ApplicationsAgree(Applications)
    <3>1. \A a \in Applications : a.departmentId \notin {None, "__none__"}
      <4>1. \A s \in Students : s.departmentId \notin {None, "__none__"}
        BY NoneAssumption, StudentRecords
      <4>2. QED
        BY <4>1 DEF Applications
    <3>2. QED
      BY <2>1, <3>1, ApplicationsAgreeAlways
  <2>7. OffersAgree(OfferRows)
    BY <2>1, NoneAssumption, OffersAgreeAlways DEF OfferRows
  <2>8. QED
    BY <2>2, <2>3, <2>4, <2>5, <2>6, <2>7 DEF ListAgreesWithFindOne
<1>2. Inv => ListAgreesWithFindOne
  BY <1>1 DEF ListAgreesWithFindOne
<1>3. QED
  BY <1>2, Invariance, PTL

(* WritesStayInScope in every state of MCRules: of the writes of the       *)
(* guarded controllers, only the three named there reach a row that is not *)
(* the caller's own.                                                       *)
THEOREM WritesOwn == Spec => []WritesStayInScope
<1>1. ASSUME Inv, user # None
      PROVE  WritesStayInScope
  <2>1. Caller
    BY <1>1, CallerHolds
  <2>2. StudentWritesOwn(Students)
    <3>2. \A s, t \in Students : s.userId = t.userId => s = t
      BY DEF Students
    <3>3. QED
      BY <2>1, <3>2, StudentRecords, StudentWritesOwnAlways
  <2>3. CompanyWritesOwn(Companies)
    BY <2>1, CompanyWritesOwnAlways DEF Companies
  <2>4. DriveWritesOwn(Drives)
    BY <2>1, DriveWritesOwnAlways DEF Drives
  <2>5. ApplicationWritesOwn(Applications)
    <3>1. Applications \in SUBSET [userId : {"ana", "ben"}, departmentId : {"CSE", "ECE"},
                                   companyId : {"acme", "bolt"}]
      BY DEF Applications, Students, Companies
    <3>2. QED
      BY <2>1, <3>1, ApplicationWritesOwnAlways
  <2>6. OfferWritesOwn(OfferRows)
    BY <2>1, OfferWritesOwnAlways DEF OfferRows
  <2>7. VerdictWritesOwn(Students, Drives)
    BY <2>1, VerdictWritesOwnAlways
  <2>8. BoardWritesOwn(Threads)
    BY <2>1, BoardWritesOwnAlways DEF Threads
  <2>9. PolicyWritesOwn(PolicyRows)
    BY <2>1, PolicyWritesOwnAlways
  <2>10. QED
    BY <2>2, <2>3, <2>4, <2>5, <2>6, <2>7, <2>8, <2>9 DEF WritesStayInScope
<1>2. Inv => WritesStayInScope
  BY <1>1 DEF WritesStayInScope
<1>3. QED
  BY <1>2, Invariance, PTL

-----------------------------------------------------------------------------
(***************************************************************************)
(* The pages.  Each component of a page is fine for whoever is shown it:   *)
(* its queries are answered and its buttons are for requests that the API  *)
(* accepts, and both are keyed by the section of the cache they are of.    *)
(***************************************************************************)

(* A signed-in user of a tenant: a student has a record, a coordinator a   *)
(* department and a recruiter a company.                                   *)
Signed(db) ==
  /\ Caller
  /\ user.sub # None
  /\ user.role = "STUDENT" => \E s \in db.students : s.userId = user.sub
  /\ user.role = "FACULTY_COORD" => user.departmentId \notin {None, "__none__"}
  /\ user.role = "RECRUITER" => user.companyId # None

(* The keys below a section of the cache.                                  *)
Under(section, key) ==
  \/ key = <<section>>
  \/ \E a : key = <<section, a>>
  \/ \E a, b : key = <<section, a, b>>

(* Where each fact is shown from: below which keys.                        *)
ReadKeyed(href, r) ==
  LET key == r.query.key
  IN  /\ "company" \in r.shows => Under("companies", key)
      /\ "jd" \in r.shows => Under("job-descriptions", key)
      /\ "drive" \in r.shows => Under("drives", key) \/ href \in {"/dashboard", "/analytics"}
      /\ "application" \in r.shows => Under("applications", key)
      /\ "offer" \in r.shows => Under("offers", key)
      /\ "rule" \in r.shows => Under("policy-rules", key)
      /\ "resume" \in r.shows => key = <<"resume", "me">>
      /\ "links" \in r.shows => Under("students", key)
      /\ "mentor" \in r.shows => Under("mentorship", key) \/ Under("students", key)
      /\ "board" \in r.shows => key = <<"mentorship", "threads">>
      /\ {"thread", "answers"} \cap r.shows # {} => Under("mentorship", key)

(* What each fact's mutations invalidate.                                  *)
SendKeyed(href, m) ==
  /\ m.writes \subseteq {"company", "jd", "drive", "application", "offer", "rule", "resume",
                         "links", "mentor", "board", "thread", "answers"}
  /\ "company" \in m.writes => <<"companies">> \in m.invalidates
  /\ "jd" \in m.writes => <<"job-descriptions">> \in m.invalidates
  /\ "drive" \in m.writes =>
       <<"drives">> \in m.invalidates /\ href \notin {"/dashboard", "/analytics"}
  /\ "application" \in m.writes => <<"applications">> \in m.invalidates
  /\ "offer" \in m.writes => <<"offers">> \in m.invalidates
  /\ "rule" \in m.writes => <<"policy-rules">> \in m.invalidates
  /\ "resume" \in m.writes => <<"resume", "me">> \in m.invalidates
  /\ "links" \in m.writes => <<"students">> \in m.invalidates
  /\ "mentor" \in m.writes => {<<"mentorship">>, <<"students">>} \subseteq m.invalidates
  /\ "board" \in m.writes => {<<"mentorship">>, <<"mentorship", "threads">>} \cap m.invalidates # {}
  /\ {"thread", "answers"} \cap m.writes # {} => <<"mentorship">> \in m.invalidates

LEMMA UnderIsPrefixed ==
  ASSUME NEW section, NEW key, Under(section, key)
  PROVE  Seqs!IsPrefix(<<section>>, key)
<1>1. ASSUME key = <<section>>
      PROVE  Seqs!IsPrefix(<<section>>, key)
  BY <1>1 DEF Seqs!IsPrefix
<1>2. ASSUME NEW a, key = <<section, a>>
      PROVE  Seqs!IsPrefix(<<section>>, key)
  BY <1>2 DEF Seqs!IsPrefix
<1>3. ASSUME NEW a, NEW b, key = <<section, a, b>>
      PROVE  Seqs!IsPrefix(<<section>>, key)
  BY <1>3 DEF Seqs!IsPrefix
<1>4. QED
  BY <1>1, <1>2, <1>3 DEF Under

LEMMA KeyedRefreshes ==
  ASSUME NEW href, NEW r, NEW m, ReadKeyed(href, r), SendKeyed(href, m),
         m.writes \cap r.shows # {}
  PROVE  \E k \in m.invalidates : Seqs!IsPrefix(k, r.query.key)
<1> DEFINE key == r.query.key
           Fresh1(k) == k \in m.invalidates /\ Seqs!IsPrefix(k, key)
<1>1. PICK f \in m.writes : f \in r.shows
  OBVIOUS
<1>2. f \in {"company", "jd", "drive", "application", "offer", "rule", "resume",
             "links", "mentor", "board", "thread", "answers"}
  BY <1>1 DEF SendKeyed
<1>3. \/ \E section : Under(section, key) /\ <<section>> \in m.invalidates
      \/ key = <<"resume", "me">> /\ <<"resume", "me">> \in m.invalidates
      \/ key = <<"mentorship", "threads">> /\ <<"mentorship", "threads">> \in m.invalidates
      \/ key = <<"mentorship", "threads">> /\ <<"mentorship">> \in m.invalidates
  <2>1. CASE f \in {"company", "jd", "drive", "application", "offer", "rule"}
    BY <1>1, <2>1 DEF ReadKeyed, SendKeyed
  <2>2. CASE f \in {"links", "mentor", "thread", "answers"}
    BY <1>1, <2>2 DEF ReadKeyed, SendKeyed
  <2>3. CASE f \in {"resume", "board"}
    BY <1>1, <2>3 DEF ReadKeyed, SendKeyed
  <2>4. QED
    BY <1>2, <2>1, <2>2, <2>3
<1>4. Seqs!IsPrefix(<<"resume", "me">>, <<"resume", "me">>)
  BY DEF Seqs!IsPrefix
<1>5. Seqs!IsPrefix(<<"mentorship", "threads">>, <<"mentorship", "threads">>)
  BY DEF Seqs!IsPrefix
<1>6. Seqs!IsPrefix(<<"mentorship">>, <<"mentorship", "threads">>)
  BY DEF Seqs!IsPrefix
<1>7. QED
  BY <1>3, <1>4, <1>5, <1>6, UnderIsPrefixed

-----------------------------------------------------------------------------

(* A query that is answered, with a key below a section of the cache.      *)
Plain(query, section) == query.answer.status = 200 /\ Under(section, query.key)

LEMMA StudentsRead ==
  ASSUME NEW db, Signed(db), NEW d, user.role # "RECRUITER"
  PROVE  Plain(useStudents(user, db, d), "students")
<1> DEFINE scope == resolvePermissionScope("students.records", user.role)
           answer == listStudents(user, scope, db.students, [NoQuery EXCEPT !.departmentId = d])
<1>1. useStudents(user, db, d) = [key |-> <<"students", d>>,
                                  answer |-> Guarded("students.records", answer)]
  BY Granted DEF Signed, useStudents, Query, Cached, Request, PermissionGuard, Guarded
<1>2. scope # "NONE" /\ (scope = "OWN_DEPARTMENT" => user.departmentId # None)
  BY StudentsScope, CallerRole DEF Signed
<1>3. answer.status = 200
  <2> HIDE DEF scope
  <2>1. QED
    BY <1>2 DEF listStudents, Ok
<1>4. Guarded("students.records", answer) = answer
  BY <1>2 DEF Guarded
<1>5. QED
  BY <1>1, <1>3, <1>4 DEF Plain, Under

LEMMA CompaniesRead ==
  ASSUME NEW db, Signed(db)
  PROVE  Plain(useCompanies(user, db), "companies")
<1> DEFINE scope == resolvePermissionScope("companies.records", user.role)
<1>1. scope # "NONE"
  BY CompaniesScope, CallerRole DEF Signed
<1>2. useCompanies(user, db) = [key |-> <<"companies">>,
                                answer |-> listCompanies(user, scope, db.companies)]
  BY <1>1, Granted DEF Signed, useCompanies, Query, Cached, Request, PermissionGuard
<1>3. QED
  BY <1>2 DEF Plain, Under, listCompanies, Ok

LEMMA JobDescriptionsRead ==
  ASSUME NEW db, Signed(db), NEW companyId,
         user.role \in {"SUPER_ADMIN", "TPO", "RECRUITER"}
  PROVE  Plain(useJobDescriptions(user, db, companyId), "job-descriptions")
<1> DEFINE scope == resolvePermissionScope("jd.shortlist", user.role)
           answer == listJobDescriptions(user, scope, db.jobDescriptions,
                                         [NoQuery EXCEPT !.companyId = companyId])
<1>1. scope # "NONE"
  BY JdScope, CallerRole DEF Signed
<1>2. useJobDescriptions(user, db, companyId) =
        [key |-> <<"job-descriptions", companyId>>, answer |-> answer]
  BY <1>1, Granted DEF Signed, useJobDescriptions, Query, Cached, Request, PermissionGuard
<1>3. answer.status = 200
  <2> HIDE DEF scope
  <2>1. QED
    BY <1>1 DEF listJobDescriptions, Ok
<1>4. QED
  BY <1>2, <1>3 DEF Plain, Under

LEMMA DrivesRead ==
  ASSUME NEW db, Signed(db), NEW jd, user.role # "RECRUITER"
  PROVE  Plain(useDrives(user, db, jd), "drives")
<1> DEFINE scope == resolvePermissionScope("drives.manage", user.role)
           answer == listDrives(user, scope,
               IF jd = None THEN db.drives
               ELSE {d \in db.drives : d.companyId = jd.companyId})
<1>1. scope # "NONE"
  BY DrivesScope, CallerRole DEF Signed
<1>2. useDrives(user, db, jd) =
        [key |-> <<"drives", IF jd = None THEN "all" ELSE jd.companyId>>, answer |-> answer]
  BY <1>1, Granted DEF Signed, useDrives, Query, Cached, Request, PermissionGuard
<1>3. answer.status = 200
  <2> HIDE DEF scope
  <2>1. QED
    BY <1>1 DEF listDrives, Ok
<1>4. QED
  BY <1>2, <1>3 DEF Plain, Under

LEMMA DriveRead ==
  ASSUME NEW db, Signed(db), NEW drive, user.role \in {"SUPER_ADMIN", "TPO"}
  PROVE  Plain(useDrive(user, drive), "drives")
<1> DEFINE scope == resolvePermissionScope("drives.manage", user.role)
           answer == findDrive(user, scope, drive)
<1>1. scope = "FULL"
  BY DrivesScope, CallerRole DEF Signed
<1>2. useDrive(user, drive) =
        [key |-> <<"drives", "detail">>, answer |-> answer]
  BY <1>1, Granted DEF Signed, useDrive, Query, Cached, Request, PermissionGuard
<1>3. answer.status = 200
  <2> HIDE DEF scope
  <2>1. QED
    BY <1>1 DEF findDrive, Ok
<1>4. QED
  BY <1>2, <1>3 DEF Plain, Under

LEMMA DriveEligibilityRead ==
  ASSUME NEW db, Signed(db), NEW drive,
         user.role \in {"SUPER_ADMIN", "TPO", "FACULTY_COORD"}
  PROVE  Plain(useDriveEligibility(user, drive), "drives")
<1> DEFINE scope == resolvePermissionScope("drives.manage", user.role)
           answer == getEligibility(user, scope, drive)
<1>1. scope \in {"FULL", "PROPOSE"}
  BY DrivesScope, CallerRole DEF Signed
<1>2. useDriveEligibility(user, drive) =
        [key |-> <<"drives", "eligibility">>, answer |-> answer]
  BY <1>1, Granted DEF Signed, useDriveEligibility, Query, Cached, Request, PermissionGuard
<1>3. answer.status = 200
  <2> HIDE DEF scope
  <2>1. QED
    BY <1>1 DEF getEligibility, Check, Ok
<1>4. QED
  BY <1>2, <1>3 DEF Plain, Under

LEMMA ApplicationsRead ==
  ASSUME NEW db, Signed(db), user.role \in {"TPO", "FACULTY_COORD", "STUDENT"}
  PROVE  Plain(useApplications(user, db), "applications")
<1> DEFINE scope == resolvePermissionScope("applications.apply", user.role)
           answer == listApplications(user, scope, db.applications)
<1>1. scope # "NONE"
  BY ApplicationsScope, CallerRole DEF Signed
<1>2. useApplications(user, db) =
        [key |-> <<"applications", "all">>, answer |-> answer]
  BY <1>1, Granted DEF Signed, useApplications, Query, Cached, Request, PermissionGuard
<1>3. answer.status = 200
  <2> HIDE DEF scope
  <2>1. QED
    BY <1>1 DEF listApplications, Ok
<1>4. QED
  BY <1>2, <1>3 DEF Plain, Under

LEMMA OffersRead ==
  ASSUME NEW db, Signed(db)
  PROVE  Plain(useOffers(user, db), "offers")
<1> DEFINE scope == resolvePermissionScope("offers.manage", user.role)
           answer == listOffers(user, scope, db.offers, NoQuery)
<1>1. scope # "NONE"
  BY OffersScope, CallerRole DEF Signed
<1>2. useOffers(user, db) =
        [key |-> <<"offers">>, answer |-> answer]
  BY <1>1, Granted DEF Signed, useOffers, Query, Cached, Request, PermissionGuard
<1>3. answer.status = 200
  <2> HIDE DEF scope
  <2>1. QED
    BY <1>1 DEF listOffers, Ok
<1>4. QED
  BY <1>2, <1>3 DEF Plain, Under

LEMMA PolicyRulesRead ==
  ASSUME NEW db, Signed(db), user.role \in {"SUPER_ADMIN", "TPO"}
  PROVE  Plain(usePolicyRules(user, db), "policy-rules")
<1> DEFINE scope == resolvePermissionScope("policy.rules", user.role)
           answer == Ok(db.rules)
<1>1. scope # "NONE"
  BY PolicyScope, CallerRole DEF Signed
<1>2. usePolicyRules(user, db) =
        [key |-> <<"policy-rules">>, answer |-> answer]
  BY <1>1, Granted DEF Signed, usePolicyRules, Query, Cached, Request, PermissionGuard
<1>3. answer.status = 200
  <2> HIDE DEF scope
  <2>1. QED
    BY <1>1 DEF Ok
<1>4. QED
  BY <1>2, <1>3 DEF Plain, Under

LEMMA MentorsRead ==
  ASSUME NEW db, Signed(db), user.role # "RECRUITER"
  PROVE  Plain(useMentors(user, db), "mentorship")
<1> DEFINE scope == resolvePermissionScope("mentorship.community", user.role)
           answer == readBoard(user, scope, {t \in db.students : t.mentorOptIn})
<1>1. scope # "NONE"
  BY MentorshipScope, CallerRole DEF Signed
<1>2. useMentors(user, db) =
        [key |-> <<"mentorship", "mentors">>, answer |-> answer]
  BY <1>1, Granted DEF Signed, useMentors, Query, Cached, Request, PermissionGuard
<1>3. answer.status = 200
  <2> HIDE DEF scope
  <2>1. QED
    BY <1>1 DEF readBoard, Ok
<1>4. QED
  BY <1>2, <1>3 DEF Plain, Under

LEMMA ThreadRead ==
  ASSUME NEW db, Signed(db), NEW thread, user.role # "RECRUITER"
  PROVE  Plain(useThread(user, thread), "mentorship")
<1> DEFINE scope == resolvePermissionScope("mentorship.community", user.role)
           answer == readBoard(user, scope, {thread})
<1>1. scope # "NONE"
  BY MentorshipScope, CallerRole DEF Signed
<1>2. useThread(user, thread) =
        [key |-> <<"mentorship", "thread", thread.thread>>, answer |-> answer]
  BY <1>1, Granted DEF Signed, useThread, Query, Cached, Request, PermissionGuard
<1>3. answer.status = 200
  <2> HIDE DEF scope
  <2>1. QED
    BY <1>1 DEF readBoard, Ok
<1>4. QED
  BY <1>2, <1>3 DEF Plain, Under

LEMMA ThreadsRead ==
  ASSUME NEW db, Signed(db), user.role # "RECRUITER"
  PROVE  /\ useThreads(user, db).answer.status = 200
         /\ useThreads(user, db).key = <<"mentorship", "threads">>
<1> DEFINE scope == resolvePermissionScope("mentorship.community", user.role)
           answer == readBoard(user, scope, db.threads)
<1>1. scope # "NONE"
  BY MentorshipScope, CallerRole DEF Signed
<1>2. useThreads(user, db) =
        [key |-> <<"mentorship", "threads">>, answer |-> answer]
  BY <1>1, Granted DEF Signed, useThreads, Query, Cached, Request, PermissionGuard
<1>3. answer.status = 200
  <2> HIDE DEF scope
  <2>1. QED
    BY <1>1 DEF readBoard, Ok
<1>4. QED
  BY <1>2, <1>3

LEMMA MyResumeRead ==
  ASSUME NEW db, Signed(db), user.role = "STUDENT"
  PROVE  /\ useMyResume(user, db).answer.status = 200
         /\ useMyResume(user, db).key = <<"resume", "me">>
<1> DEFINE scope == resolvePermissionScope("resume.manage", user.role)
           answer == getMyResume(user, scope, db.students)
<1>1. scope = "SELF"
  BY ResumeScope, CallerRole DEF Signed
<1>2. useMyResume(user, db) =
        [key |-> <<"resume", "me">>, answer |-> answer]
  BY <1>1, Granted DEF Signed, useMyResume, Query, Cached, Request, PermissionGuard
<1>3. answer.status = 200
  <2> HIDE DEF scope
  <2>1. QED
    BY <1>1 DEF getMyResume, Ok
<1>4. QED
  BY <1>2, <1>3

(* The clauses of PageAnswered for one query.                              *)
Answered(href, query) ==
  /\ \/ query.answer.status = 200
     \/ href = "/offers" /\ user.role = "SUPER_ADMIN" /\ query.key[1] = "applications"
  /\ \/ query.key[1] # "analytics" \/ Len(query.key) < 4
     \/ query.key[Len(query.key)] \in {None} \cup {row.departmentId : row \in Data(query)}
     \/ href = "/reports" /\ user.role = "FACULTY_COORD"

Staff == {"SUPER_ADMIN", "TPO", "FACULTY_COORD"}

(* A query for a department that its caller may ask for.                   *)
MayAsk(href, q) ==
  /\ user.role \in Staff => q.batchId # None
  /\ \/ q.departmentId = None
     \/ user.role \in Office
     \/ href = "/reports" /\ user.role = "FACULTY_COORD"

LEMMA ScopeResolved ==
  ASSUME NEW db, Signed(db), NEW q, user.role # "RECRUITER",
         user.role \in Staff => q.batchId # None
  PROVE  LET scope == resolvePermissionScope("analytics.view", user.role)
             answer == resolveScope(user, scope, db.students, q)
         IN  /\ answer = Ok(answer.rows)
             /\ user.role \in Office => answer.rows = {q.departmentId}
<1> DEFINE scope == resolvePermissionScope("analytics.view", user.role)
           Resolved(answer) == /\ answer = Ok(answer.rows)
                               /\ user.role \in Office => answer.rows = {q.departmentId}
<1> SUFFICES Resolved(resolveScope(user, scope, db.students, q))
  OBVIOUS
<1>1. \/ user.role \in Office /\ scope = "FULL" /\ q.batchId # None
      \/ user.role = "FACULTY_COORD" /\ scope = "OWN_DEPARTMENT" /\ q.batchId # None
         /\ user.departmentId # None
      \/ user.role = "STUDENT" /\ scope = "SELF"
  BY AnalyticsScope, CallerRole DEF Signed, Office, Staff
<1> HIDE DEF scope
<1>2. CASE user.role \in Office /\ scope = "FULL" /\ q.batchId # None
  BY <1>2 DEF resolveScope, Ok
<1>3. CASE user.role = "FACULTY_COORD" /\ scope = "OWN_DEPARTMENT" /\ q.batchId # None
           /\ user.departmentId # None
  BY <1>3 DEF resolveScope, Ok, Office
<1>4. CASE user.role = "STUDENT" /\ scope = "SELF"
  <2>1. {s.departmentId : s \in {t \in db.students : t.userId = user.sub}} # {}
    BY <1>4 DEF Signed
  <2>2. QED
    BY <1>4, <2>1 DEF resolveScope, Ok, Office
<1>5. QED
  BY <1>1, <1>2, <1>3, <1>4

(* What the keys and the rows of an analytics query make of it.            *)
LEMMA DepartmentsAnswered ==
  ASSUME NEW href, NEW q, NEW kind, NEW rows, MayAsk(href, q),
         user.role \in Office => rows = {q.departmentId}
  PROVE  Answered(href, [key |-> <<"analytics", kind, q.batchId, q.departmentId>>,
                         answer |-> Departments(Ok(rows))])
<1> DEFINE query == [key |-> <<"analytics", kind, q.batchId, q.departmentId>>,
                     answer |-> Departments(Ok(rows))]
<1>1. query.answer = [status |-> 200, rows |-> {[departmentId |-> d] : d \in rows}]
  BY DEF Departments, Ok
<1>2. Len(query.key) = 4 /\ query.key[4] = q.departmentId
  OBVIOUS
<1>3. user.role \in Office => q.departmentId \in {row.departmentId : row \in Data(query)}
  <2>1. user.role \in Office => [departmentId |-> q.departmentId] \in query.answer.rows
    BY <1>1
  <2>2. QED
    BY <2>1 DEF Data
<1>4. QED
  BY <1>1, <1>2, <1>3 DEF Answered, MayAsk

LEMMA SummaryRead ==
  ASSUME NEW db, Signed(db), NEW q, NEW href, MayAsk(href, q)
  PROVE  Answered(href, useSummary(user, db, q))
<1> DEFINE scope == resolvePermissionScope("analytics.view", user.role)
           answer == summaryScope(user, scope, db.students, q)
<1>1. scope # "NONE" /\ (user.role # "FACULTY_COORD" /\ user.role \notin Office => scope = "SELF")
      /\ (user.role \in Staff => scope # "SELF")
  BY AnalyticsScope, CallerRole DEF Signed, Office, Staff
<1>2. useSummary(user, db, q) =
        [key |-> <<"analytics", "summary", q.batchId, q.departmentId>>,
         answer |-> Departments(answer)]
  BY <1>1, Granted DEF Signed, useSummary, Cached, Request, PermissionGuard
<1>3. answer = Ok(answer.rows) /\ (user.role \in Office => answer.rows = {q.departmentId})
  <2>1. CASE user.role = "RECRUITER"
    BY <2>1 DEF summaryScope, Ok, Signed, Office
  <2>2. CASE user.role # "RECRUITER"
    <3>1. answer = resolveScope(user, scope, db.students, q)
      BY <2>2 DEF summaryScope
    <3>2. QED
      BY <2>2, <3>1, ScopeResolved DEF MayAsk
  <2>3. QED
    BY <2>1, <2>2
<1>4. QED
  BY <1>2, <1>3, DepartmentsAnswered

LEMMA YoyRead ==
  ASSUME NEW db, Signed(db), NEW q, NEW href, MayAsk(href, q),
         user.role # "RECRUITER"
  PROVE  Answered(href, useYoy(user, db, q))
<1> DEFINE scope == resolvePermissionScope("analytics.view", user.role)
           answer == yoyScope(user, scope, db.students, q)
<1>1. scope # "NONE" /\ (user.role # "FACULTY_COORD" /\ user.role \notin Office => scope = "SELF")
      /\ (user.role \in Staff => scope # "SELF")
  BY AnalyticsScope, CallerRole DEF Signed, Office, Staff
<1>2. useYoy(user, db, q) =
        [key |-> <<"analytics", "yoy", q.batchId, q.departmentId>>,
         answer |-> Departments(answer)]
  BY <1>1, Granted DEF Signed, useYoy, Cached, Request, PermissionGuard
<1>3. answer = Ok(answer.rows) /\ (user.role \in Office => answer.rows = {q.departmentId})
  <2>1. answer = resolveScope(user, scope, db.students, q)
    BY DEF yoyScope
  <2>2. QED
    BY <2>1, ScopeResolved DEF MayAsk
<1>4. QED
  BY <1>2, <1>3, DepartmentsAnswered

LEMMA DrilldownRead ==
  ASSUME NEW db, Signed(db), NEW q, NEW href, MayAsk(href, q),
         user.role \in Staff
  PROVE  Answered(href, useDrilldown(user, db, q))
<1> DEFINE scope == resolvePermissionScope("analytics.view", user.role)
           answer == drilldownScope(user, scope, db.students, q)
<1>1. scope # "NONE" /\ (user.role # "FACULTY_COORD" /\ user.role \notin Office => scope = "SELF")
      /\ (user.role \in Staff => scope # "SELF")
  BY AnalyticsScope, CallerRole DEF Signed, Office, Staff
<1>2. useDrilldown(user, db, q) =
        [key |-> <<"analytics", "drilldown", q.batchId, q.departmentId>>,
         answer |-> Departments(answer)]
  BY <1>1, Granted DEF Signed, useDrilldown, Cached, Request, PermissionGuard
<1>3. answer = Ok(answer.rows) /\ (user.role \in Office => answer.rows = {q.departmentId})
  <2>1. answer = resolveScope(user, scope, db.students, q)
    BY <1>1 DEF drilldownScope
  <2>2. QED
    BY <2>1, ScopeResolved DEF MayAsk, Staff
<1>4. QED
  BY <1>2, <1>3, DepartmentsAnswered

LEMMA FilterOptionsRead ==
  ASSUME NEW db, Signed(db), NEW href, user.role \in Staff
  PROVE  Answered(href, useFilterOptions(user, db))
<1> DEFINE scope == resolvePermissionScope("analytics.view", user.role)
           answer == filterOptions(user, scope, db.departments)
<1>1. scope \notin {"NONE", "SELF"}
  BY AnalyticsScope DEF Signed, Staff
<1>2. useFilterOptions(user, db) =
        [key |-> <<"analytics", "filter-options">>, answer |-> Departments(answer)]
  BY <1>1, Granted DEF Signed, useFilterOptions, Cached, Request, PermissionGuard
<1>3. answer = Ok(db.departments)
  BY <1>1 DEF filterOptions
<1>4. QED
  BY <1>2, <1>3 DEF Answered, Departments, Ok

LEMMA UpcomingDrivesRead ==
  ASSUME NEW db, Signed(db), NEW href, user.role \in Staff
  PROVE  Answered(href, useUpcomingDrives(user, db))
<1> DEFINE scope == resolvePermissionScope("analytics.view", user.role)
           answer == upcomingDrives(user, scope, db.drives)
<1>1. scope \notin {"NONE", "SELF"}
  BY AnalyticsScope DEF Signed, Staff
<1>2. useUpcomingDrives(user, db) =
        [key |-> <<"analytics", "upcoming-drives">>, answer |-> answer]
  BY <1>1, Granted DEF Signed, useUpcomingDrives, Cached, Request, PermissionGuard
<1>3. answer = Ok(db.drives)
  BY <1>1 DEF upcomingDrives
<1>4. QED
  BY <1>2, <1>3 DEF Answered, Departments, Ok

-----------------------------------------------------------------------------

ReadFine(href, r) == Answered(href, r.query) /\ ReadKeyed(href, r)

(* The facts the pages show from the keys of a section.                    *)
MayShow(section, facts) ==
  \/ section = "students" /\ facts \subseteq {"name", "student", "mentor", "links"}
  \/ section = "companies" /\ facts \subseteq {"company"}
  \/ section = "job-descriptions" /\ facts \subseteq {"jd"}
  \/ section = "drives" /\ facts \subseteq {"drive", "verdict"}
  \/ section = "applications" /\ facts \subseteq {"application"}
  \/ section = "offers" /\ facts \subseteq {"offer"}
  \/ section = "policy-rules" /\ facts \subseteq {"rule"}
  \/ section = "mentorship" /\ facts \subseteq {"mentor", "thread", "answers"}

LEMMA PlainRead ==
  ASSUME NEW href, NEW query, NEW section, NEW facts,
         Plain(query, section), MayShow(section, facts)
  PROVE  ReadFine(href, Read(query, facts))
<1>1. query.key[1] = section
  BY DEF Plain, Under
<1>2. Answered(href, query)
  BY <1>1 DEF Plain, Answered, MayShow
<1>3. ReadKeyed(href, Read(query, facts))
  <2>1. Under(section, query.key)
    BY DEF Plain
  <2>2. QED
    BY <2>1 DEF MayShow, ReadKeyed, Read
<1>4. QED
  BY <1>2, <1>3 DEF ReadFine, Read

LEMMA BoardRead ==
  ASSUME NEW db, Signed(db), NEW href, user.role # "RECRUITER"
  PROVE  ReadFine(href, Read(useThreads(user, db), {"board"}))
BY ThreadsRead DEF ReadFine, Answered, ReadKeyed, Read

LEMMA ResumeRead ==
  ASSUME NEW db, Signed(db), NEW href, user.role = "STUDENT"
  PROVE  ReadFine(href, Read(useMyResume(user, db), {"resume"}))
BY MyResumeRead DEF ReadFine, Answered, ReadKeyed, Read

(* Numbers are no facts of rows, and the drives beside them are not written*)
(* to from where they are shown.                                           *)
LEMMA NumbersRead ==
  ASSUME NEW href, NEW query, Answered(href, query)
  PROVE  /\ ReadFine(href, Read(query, {}))
         /\ href \in {"/dashboard", "/analytics"} => ReadFine(href, Read(query, {"drive"}))
BY DEF ReadFine, ReadKeyed, Read

-----------------------------------------------------------------------------

(* What the mutations write and what they invalidate.                      *)
MayWrite(href, m) ==
  \/ m.writes = {}
  \/ m.writes = {"company"} /\ m.invalidates = {<<"companies">>}
  \/ m.writes = {"jd"} /\ m.invalidates = {<<"job-descriptions">>}
  \/ m.writes = {"drive"} /\ m.invalidates = {<<"drives">>} /\ href = "/companies"
  \/ m.writes = {"application"} /\ m.invalidates = {<<"applications">>}
  \/ m.writes = {"offer"} /\ m.invalidates = {<<"offers">>}
  \/ m.writes = {"rule"} /\ m.invalidates = {<<"policy-rules">>}
  \/ m.writes = {"resume"} /\ m.invalidates = {<<"resume", "me">>}
  \/ m.writes = {"links"} /\ m.invalidates = {<<"students">>}
  \/ m.writes = {"mentor"} /\ m.invalidates = {<<"mentorship">>, <<"students">>}
  \/ m.writes = {"board"} /\ m.invalidates = {<<"mentorship", "threads">>}
  \/ m.writes = {"board", "thread", "answers"} /\ m.invalidates = {<<"mentorship">>}

LEMMA WritesKeyed ==
  ASSUME NEW href, NEW m, MayWrite(href, m)
  PROVE  SendKeyed(href, m)
<1>1. CASE m.writes = {}
  BY <1>1 DEF SendKeyed
<1>2. CASE m.writes = {"company"} /\ m.invalidates = {<<"companies">>}
  BY <1>2 DEF SendKeyed
<1>3. CASE m.writes = {"jd"} /\ m.invalidates = {<<"job-descriptions">>}
  BY <1>3 DEF SendKeyed
<1>4. CASE m.writes = {"drive"} /\ m.invalidates = {<<"drives">>} /\ href = "/companies"
  BY <1>4 DEF SendKeyed
<1>5. CASE m.writes = {"application"} /\ m.invalidates = {<<"applications">>}
  BY <1>5 DEF SendKeyed
<1>6. CASE m.writes = {"offer"} /\ m.invalidates = {<<"offers">>}
  BY <1>6 DEF SendKeyed
<1>7. CASE m.writes = {"rule"} /\ m.invalidates = {<<"policy-rules">>}
  BY <1>7 DEF SendKeyed
<1>8. CASE m.writes = {"resume"} /\ m.invalidates = {<<"resume", "me">>}
  BY <1>8 DEF SendKeyed
<1>9. CASE m.writes = {"links"} /\ m.invalidates = {<<"students">>}
  BY <1>9 DEF SendKeyed
<1>10. CASE m.writes = {"mentor"} /\ m.invalidates = {<<"mentorship">>, <<"students">>}
  BY <1>10 DEF SendKeyed
<1>11. CASE m.writes = {"board"} /\ m.invalidates = {<<"mentorship", "threads">>}
  BY <1>11 DEF SendKeyed
<1>12. CASE m.writes = {"board", "thread", "answers"} /\ m.invalidates = {<<"mentorship">>}
  BY <1>12 DEF SendKeyed
<1>13. QED
  BY <1>1, <1>2, <1>3, <1>4, <1>5, <1>6, <1>7, <1>8, <1>9, <1>10, <1>11, <1>12 DEF MayWrite

LEMMA MutationsKeyed ==
  ASSUME NEW href
  PROVE  /\ \A row : /\ SendKeyed(href, useCreateOffer(user, row))
                     /\ SendKeyed(href, useCreatePpoOffer(user, row))
                     /\ SendKeyed(href, useApproveOffer(user, row))
                     /\ SendKeyed(href, useAcceptOffer(user, row))
                     /\ SendKeyed(href, useRejectOffer(user, row))
                     /\ SendKeyed(href, useRevokeOffer(user, row))
         /\ \A row : /\ SendKeyed(href, useWithdrawApplication(user, row))
                     /\ SendKeyed(href, useShortlistApplication(user, row))
                     /\ SendKeyed(href, useRecordRoundResult(user, row))
         /\ \A db, drive, student :
              SendKeyed(href, useCreateApplication(user, db, drive, student))
         /\ SendKeyed(href, useCreateCompany(user))
         /\ \A row : SendKeyed(href, useCreateJobDescription(user, row))
         /\ href = "/companies" =>
              \A row : /\ SendKeyed(href, useCreateDrive(user, row))
                      /\ SendKeyed(href, useUpdateDriveStatus(user, row))
                      /\ SendKeyed(href, useCreateRound(user, row))
         /\ \A db : SendKeyed(href, useDryRunEligibility(user, db))
         /\ SendKeyed(href, useCreatePolicyRule(user))
         /\ \A row : /\ SendKeyed(href, useCreatePolicyRuleVersion(user, row))
                     /\ SendKeyed(href, useActivatePolicyRule(user, row))
         /\ \A db : /\ SendKeyed(href, useUpdateMyResume(user, db))
                    /\ SendKeyed(href, useUpdateMyLinks(user, db))
                    /\ SendKeyed(href, useUpdateMentorProfile(user, db))
         /\ \A db, mentor : SendKeyed(href, useCreateThread(user, db, mentor))
         /\ \A row : SendKeyed(href, useCreateReply(user, row))
<1>1. ASSUME NEW row
      PROVE  /\ MayWrite(href, useCreateOffer(user, row))
             /\ MayWrite(href, useCreatePpoOffer(user, row))
             /\ MayWrite(href, useApproveOffer(user, row))
             /\ MayWrite(href, useAcceptOffer(user, row))
             /\ MayWrite(href, useRejectOffer(user, row))
             /\ MayWrite(href, useRevokeOffer(user, row))
  BY DEF MayWrite, Mutation, useOfferMutation, useCreateOffer, useCreatePpoOffer,
         useApproveOffer, useAcceptOffer, useRejectOffer, useRevokeOffer
<1>2. ASSUME NEW row
      PROVE  /\ MayWrite(href, useWithdrawApplication(user, row))
             /\ MayWrite(href, useShortlistApplication(user, row))
             /\ MayWrite(href, useRecordRoundResult(user, row))
  BY DEF MayWrite, Mutation, useWithdrawApplication, useShortlistApplication,
         useRecordRoundResult
<1>3. ASSUME NEW db, NEW drive, NEW student
      PROVE  MayWrite(href, useCreateApplication(user, db, drive, student))
  BY DEF MayWrite, Mutation, useCreateApplication
<1>4. ASSUME NEW row
      PROVE  /\ MayWrite(href, useCreateCompany(user))
             /\ MayWrite(href, useCreateJobDescription(user, row))
  BY DEF MayWrite, Mutation, useCreateCompany, useCreateJobDescription
<1>5. ASSUME href = "/companies", NEW row
      PROVE  /\ MayWrite(href, useCreateDrive(user, row))
             /\ MayWrite(href, useUpdateDriveStatus(user, row))
             /\ MayWrite(href, useCreateRound(user, row))
  BY <1>5 DEF MayWrite, Mutation, DriveMutation, useCreateDrive, useUpdateDriveStatus,
              useCreateRound
<1>6. ASSUME NEW db, NEW row
      PROVE  /\ MayWrite(href, useDryRunEligibility(user, db))
             /\ MayWrite(href, useCreatePolicyRule(user))
             /\ MayWrite(href, useCreatePolicyRuleVersion(user, row))
             /\ MayWrite(href, useActivatePolicyRule(user, row))
  BY DEF MayWrite, Mutation, useDryRunEligibility, PolicyRuleMutation, useCreatePolicyRule,
         useCreatePolicyRuleVersion, useActivatePolicyRule
<1>7. ASSUME NEW db, NEW mentor, NEW row
      PROVE  /\ MayWrite(href, useUpdateMyResume(user, db))
             /\ MayWrite(href, useUpdateMyLinks(user, db))
             /\ MayWrite(href, useUpdateMentorProfile(user, db))
             /\ MayWrite(href, useCreateThread(user, db, mentor))
             /\ MayWrite(href, useCreateReply(user, row))
  BY DEF MayWrite, Mutation, useUpdateMyResume, useUpdateMyLinks, useUpdateMentorProfile,
         useCreateThread, useCreateReply
<1>8. QED
  BY <1>1, <1>2, <1>3, <1>4, <1>5, <1>6, <1>7, WritesKeyed

(* Where the institution has no criteria and the job descriptions none but *)
(* those the preview looks at.                                             *)
Previewed(db) ==
  /\ \A s, t \in db.students : s.userId = t.userId => s = t
  /\ DOMAIN db.criteria = {}
  /\ \A d \in db.drives :
       /\ DOMAIN d.minCriteria \subseteq {"minCgpa", "maxActiveBacklogs"}
       /\ "minCgpa" \in DOMAIN d.minCriteria => d.minCriteria["minCgpa"] \in Nat \ {0}

(* The clauses of PageAccepted for one mutation.                           *)
Accepted(db, href, m) ==
  \/ m.answer.status = 200
  \/ m.name = "apply" /\ href = "/applications"
  \/ m.name = "apply" /\ \E me \in Me(user, db) : me.placementStatus = "DEBARRED"
  \/ m.name = "createReply" /\ user.role = "FACULTY_COORD"
  \/ m.name = "recordRoundResult" /\ m.answer.status = 409

SendFine(db, href, m) ==
  SendKeyed(href, m) /\ (Accepted(db, href, m) \/ (href = "/dashboard" /\ ~Previewed(db)))

LEMMA Sent ==
  ASSUME NEW db, NEW href, NEW m, SendKeyed(href, m), m.answer.status = 200
  PROVE  SendFine(db, href, m)
BY DEF SendFine, Accepted

LEMMA OfficeAnswered ==
  ASSUME Caller, user.role \in Office
  PROVE  /\ \A row : /\ useCreateOffer(user, row).answer.status = 200
                     /\ useCreatePpoOffer(user, row).answer.status = 200
                     /\ row.status = "PENDING" => useApproveOffer(user, row).answer.status = 200
                     /\ row.status # "REVOKED" => useRevokeOffer(user, row).answer.status = 200
         /\ \A row : /\ row.status = "APPLIED" =>
                           useShortlistApplication(user, row).answer.status = 200
                     /\ useRecordRoundResult(user, row).answer.status \in {200, 409}
         /\ useCreateCompany(user).answer.status = 200
         /\ \A row : useCreateJobDescription(user, row).answer.status = 200
         /\ \A row : /\ useCreateDrive(user, row).answer.status = 200
                     /\ useUpdateDriveStatus(user, row).answer.status = 200
                     /\ useCreateRound(user, row).answer.status = 200
         /\ \A db : useDryRunEligibility(user, db).answer.status = 200
         /\ useCreatePolicyRule(user).answer.status = 200
         /\ \A row : /\ useCreatePolicyRuleVersion(user, row).answer.status = 200
                     /\ row.status = "DRAFT" =>
                          useActivatePolicyRule(user, row).answer.status = 200
         /\ \A row : useCreateReply(user, row).answer.status = 200
<1>1. /\ resolvePermissionScope("offers.manage", user.role) = "FULL"
      /\ resolvePermissionScope("jd.shortlist", user.role) = "FULL"
      /\ resolvePermissionScope("drives.manage", user.role) = "FULL"
      /\ resolvePermissionScope("companies.records", user.role) = "FULL"
      /\ resolvePermissionScope("policy.rules", user.role) = "FULL"
      /\ resolvePermissionScope("mentorship.community", user.role) = "FULL"
  BY OffersScope, JdScope, DrivesScope, CompaniesScope, PolicyScope, MentorshipScope DEF Office
<1>2. ASSUME NEW row
      PROVE  /\ OfferRequest(user, row, createOffer).status = 200
             /\ OfferRequest(user, row, createPpo).status = 200
             /\ OfferRequest(user, row, approveOffer).status = 200
             /\ OfferRequest(user, row, revokeOffer).status = 200
  BY <1>1, Granted DEF OfferRequest, Request, PermissionGuard, createOffer, createPpo,
       approveOffer, revokeOffer, Check, Ok
<1>3. ASSUME NEW row
      PROVE  /\ useCreateOffer(user, row).answer.status = 200
             /\ useCreatePpoOffer(user, row).answer.status = 200
             /\ row.status = "PENDING" => useApproveOffer(user, row).answer.status = 200
             /\ row.status # "REVOKED" => useRevokeOffer(user, row).answer.status = 200
  BY <1>2 DEF useCreateOffer, useCreatePpoOffer, useApproveOffer, useRevokeOffer,
       useOfferMutation, Mutation, Unless
<1>4. ASSUME NEW row
      PROVE  /\ row.status = "APPLIED" =>
                  useShortlistApplication(user, row).answer.status = 200
             /\ useRecordRoundResult(user, row).answer.status \in {200, 409}
  BY <1>1, Granted DEF useShortlistApplication, useRecordRoundResult, Mutation, Unless, Refuse,
       Request, PermissionGuard, shortlist, recordRoundResult, Check, Ok
<1>5. /\ useCreateCompany(user).answer.status = 200
      /\ \A row : useCreateJobDescription(user, row).answer.status = 200
  BY <1>1, Granted DEF useCreateCompany, useCreateJobDescription, Mutation, Request,
       PermissionGuard, createCompany, createJobDescription, Check, Ok
<1>6. ASSUME NEW row
      PROVE  /\ useCreateDrive(user, row).answer.status = 200
             /\ useUpdateDriveStatus(user, row).answer.status = 200
             /\ useCreateRound(user, row).answer.status = 200
  BY <1>1, Granted DEF useCreateDrive, useUpdateDriveStatus, useCreateRound, DriveMutation,
       Mutation, Request, PermissionGuard, createDrive, updateDriveStatus, addRound, Check, Ok
<1>7. \A db : useDryRunEligibility(user, db).answer.status = 200
  BY <1>1, Granted DEF useDryRunEligibility, Mutation, Request, PermissionGuard,
       dryRunEligibility, Ok
<1>8. \A row : PolicyRuleRequest(user, row).status = 200
  BY <1>1, Granted DEF PolicyRuleRequest, Request, PermissionGuard, policyRules, Ok
<1>9. /\ useCreatePolicyRule(user).answer.status = 200
      /\ \A row : /\ useCreatePolicyRuleVersion(user, row).answer.status = 200
                  /\ row.status = "DRAFT" => useActivatePolicyRule(user, row).answer.status = 200
  BY <1>8 DEF useCreatePolicyRule, useCreatePolicyRuleVersion, useActivatePolicyRule,
       PolicyRuleMutation, Mutation, Unless
<1>10. \A row : useCreateReply(user, row).answer.status = 200
  BY <1>1, Granted DEF useCreateReply, Mutation, Request, PermissionGuard, addReply, Check, Ok
<1>11. QED
  BY <1>3, <1>4, <1>5, <1>6, <1>7, <1>9, <1>10

(* What the lists hold.                                                    *)
LEMMA OwnRows ==
  ASSUME NEW db, Signed(db), user.role = "STUDENT"
  PROVE  /\ Data(useOffers(user, db)) = {o \in db.offers : o.userId = user.sub}
         /\ Data(useApplications(user, db)) = {a \in db.applications : a.userId = user.sub}
         /\ Me(user, db) = {s \in db.students : s.userId = user.sub}
         /\ Data(useDrives(user, db, None)) \subseteq db.drives
         /\ Data(useMentors(user, db)) = {s \in db.students : s.mentorOptIn}
<1>1. /\ resolvePermissionScope("offers.manage", user.role) = "SELF"
      /\ resolvePermissionScope("applications.apply", user.role) = "SELF"
      /\ resolvePermissionScope("students.records", user.role) = "SELF"
      /\ resolvePermissionScope("drives.manage", user.role) = "VIEW"
      /\ resolvePermissionScope("mentorship.community", user.role) = "SELF"
  BY OffersScope, ApplicationsScope, StudentsScope, DrivesScope, MentorshipScope DEF Signed
<1>2. Caller /\ user.sub # None
  BY DEF Signed
<1>3. useOffers(user, db).answer = listOffers(user, "SELF", db.offers, NoQuery)
  BY <1>1, <1>2, Granted DEF useOffers, Query, Cached, Request, PermissionGuard
<1>4. useApplications(user, db).answer = listApplications(user, "SELF", db.applications)
  BY <1>1, <1>2, Granted DEF useApplications, Query, Cached, Request, PermissionGuard
<1>5. useStudents(user, db, None).answer =
        listStudents(user, "SELF", db.students, [NoQuery EXCEPT !.departmentId = None])
  BY <1>1, <1>2, Granted DEF useStudents, Query, Cached, Request, PermissionGuard
<1>6. useDrives(user, db, None).answer = listDrives(user, "VIEW", db.drives)
  BY <1>1, <1>2, Granted DEF useDrives, Query, Cached, Request, PermissionGuard
<1>7. useMentors(user, db).answer =
        readBoard(user, "SELF", {t \in db.students : t.mentorOptIn})
  BY <1>1, <1>2, Granted DEF useMentors, Query, Cached, Request, PermissionGuard
<1>8. Data(useOffers(user, db)) = {o \in db.offers : o.userId = user.sub}
  BY <1>2, <1>3 DEF Data, listOffers, Ok, Where
<1>9. Data(useApplications(user, db)) = {a \in db.applications : a.userId = user.sub}
  BY <1>2, <1>4 DEF Data, listApplications, Ok, Where
<1>10. Me(user, db) = {s \in db.students : s.userId = user.sub}
  BY <1>5 DEF Me, IsStudent, Data, listStudents, Ok
<1>11. Data(useDrives(user, db, None)) \subseteq db.drives
  BY <1>6 DEF Data, listDrives, Ok
<1>12. Data(useMentors(user, db)) = {s \in db.students : s.mentorOptIn}
  BY <1>7 DEF Data, readBoard, Ok
<1>13. QED
  BY <1>8, <1>9, <1>10, <1>11, <1>12

LEMMA WithdrawAccepted ==
  ASSUME NEW db, Signed(db), user.role \in {"TPO", "FACULTY_COORD", "STUDENT"},
         NEW a \in Data(useApplications(user, db)), a.status \notin TERMINAL_APPLICATION_STATUSES
  PROVE  useWithdrawApplication(user, a).answer.status = 200
<1> DEFINE scope == resolvePermissionScope("applications.apply", user.role)
<1>1. /\ scope # "NONE"
      /\ scope = "SELF" <=> user.role = "STUDENT"
  BY ApplicationsScope, CallerRole DEF Signed
<1>2. useApplications(user, db).answer = listApplications(user, scope, db.applications)
  BY <1>1, Granted DEF Signed, useApplications, Query, Cached, Request, PermissionGuard
<1>3. useWithdrawApplication(user, a).answer = withdraw(user, scope, a)
  BY <1>1, Granted DEF Signed, useWithdrawApplication, Mutation, Unless, Request,
       PermissionGuard
<1> HIDE DEF scope
<1>4. a \in listApplications(user, scope, db.applications).rows
  BY <1>2 DEF Data
<1>5. /\ user.role = "STUDENT" => a.userId = user.sub
      /\ user.role = "FACULTY_COORD" => a.departmentId = user.departmentId
  BY <1>1, <1>4 DEF listApplications, Ok, Where, OrNone, Signed
<1>6. ActsFor(user, scope, a)
  BY <1>1, <1>5 DEF ActsFor
<1>7. QED
  BY <1>3, <1>6 DEF withdraw, Check, Ok

LEMMA StudentAnswered ==
  ASSUME NEW db, Signed(db), user.role = "STUDENT"
  PROVE  /\ \A o \in Data(useOffers(user, db)) :
              o.status = "EXTENDED" => /\ useAcceptOffer(user, o).answer.status = 200
                                       /\ useRejectOffer(user, o).answer.status = 200
         /\ useUpdateMyResume(user, db).answer.status = 200
         /\ useUpdateMyLinks(user, db).answer.status = 200
         /\ (\E me \in Me(user, db) : me.placementStatus = "PLACED") =>
              useUpdateMentorProfile(user, db).answer.status = 200
         /\ \A m \in {None} \cup Data(useMentors(user, db)) :
              useCreateThread(user, db, m).answer.status = 200
         /\ \A row : useCreateReply(user, row).answer.status = 200
<1>1. /\ resolvePermissionScope("offers.manage", user.role) = "SELF"
      /\ resolvePermissionScope("students.records", user.role) = "SELF"
      /\ resolvePermissionScope("resume.manage", user.role) = "SELF"
      /\ resolvePermissionScope("mentorship.community", user.role) = "SELF"
  BY OffersScope, StudentsScope, ResumeScope, MentorshipScope DEF Signed
<1>2. Caller
  BY DEF Signed
<1>3. ASSUME NEW o \in Data(useOffers(user, db)), o.status = "EXTENDED"
      PROVE  /\ useAcceptOffer(user, o).answer.status = 200
             /\ useRejectOffer(user, o).answer.status = 200
  <2>1. o.userId = user.sub
    BY OwnRows
  <2>2. /\ OfferRequest(user, o, acceptOffer).status = 200
        /\ OfferRequest(user, o, rejectOffer).status = 200
    BY <1>1, <1>2, <2>1, Granted DEF OfferRequest, Request, PermissionGuard, acceptOffer,
         rejectOffer, Check, Ok
  <2>3. QED
    BY <1>3, <2>2 DEF useAcceptOffer, useRejectOffer, useOfferMutation, Mutation, Unless
<1>4. /\ useUpdateMyResume(user, db).answer.status = 200
      /\ useUpdateMyLinks(user, db).answer.status = 200
  BY <1>1, <1>2, Granted DEF useUpdateMyResume, useUpdateMyLinks, Mutation, Request,
       PermissionGuard, updateMyResume, getMyResume, updateMyLinks, Ok
<1>5. ASSUME NEW me \in Me(user, db), me.placementStatus = "PLACED"
      PROVE  useUpdateMentorProfile(user, db).answer.status = 200
  <2> DEFINE own == updateMentorProfile(user, "SELF", db.students)
  <2>1. own = Ok({s \in db.students : s.userId = user.sub})
    BY DEF updateMentorProfile
  <2>2. own.status = 200 /\ me \in own.rows
    BY <1>5, <2>1, OwnRows DEF Ok
  <2>3. QED
    BY <1>1, <1>2, <1>5, <2>2, Granted DEF useUpdateMentorProfile, Mutation, Unless, Request,
         PermissionGuard
<1>6. ASSUME NEW m \in {None} \cup Data(useMentors(user, db))
      PROVE  useCreateThread(user, db, m).answer.status = 200
  <2>1. m # None => m.mentorOptIn
    BY OwnRows
  <2>2. \E t \in db.students : t.userId = user.sub
    BY DEF Signed
  <2>3. createThread(user, "SELF", m).status = 200
    BY DEF createThread, Check, Ok
  <2>4. QED
    BY <1>1, <1>2, <2>1, <2>2, <2>3, Granted DEF useCreateThread, Mutation, Unless, Request,
         PermissionGuard
<1>7. \A row : useCreateReply(user, row).answer.status = 200
  BY <1>1, <1>2, Granted DEF useCreateReply, Mutation, Request, PermissionGuard, addReply,
       Check, Ok
<1>8. QED
  BY <1>3, <1>4, <1>5, <1>6, <1>7

LEMMA OthersAnswered ==
  ASSUME Caller
  PROVE  /\ user.role = "RECRUITER" =>
              \A row : row.companyId = user.companyId =>
                /\ useCreateOffer(user, row).answer.status = 200
                /\ useCreateJobDescription(user, row).answer.status = 200
         /\ user.role = "FACULTY_COORD" =>
              \A row : row.status = "DRAFT" =>
                /\ useCreateDrive(user, row).answer.status = 200
                /\ useCreateRound(user, row).answer.status = 200
<1>1. ASSUME user.role = "RECRUITER", NEW row, row.companyId = user.companyId
      PROVE  /\ useCreateOffer(user, row).answer.status = 200
             /\ useCreateJobDescription(user, row).answer.status = 200
  <2>1. /\ resolvePermissionScope("offers.manage", user.role) = "PROPOSE"
        /\ resolvePermissionScope("jd.shortlist", user.role) = "SELF"
    BY <1>1, OffersScope, JdScope
  <2>2. useCreateOffer(user, row).answer.status = 200
    BY <1>1, <2>1, Granted DEF useCreateOffer, useOfferMutation, Mutation, OfferRequest, Request,
         PermissionGuard, createOffer, Check, Ok
  <2>3. useCreateJobDescription(user, row).answer.status = 200
    BY <1>1, <2>1, Granted DEF useCreateJobDescription, Mutation, Request, PermissionGuard,
         createJobDescription, Check, Ok
  <2>4. QED
    BY <2>2, <2>3
<1>2. ASSUME user.role = "FACULTY_COORD", NEW row, row.status = "DRAFT"
      PROVE  /\ useCreateDrive(user, row).answer.status = 200
             /\ useCreateRound(user, row).answer.status = 200
  <2>1. resolvePermissionScope("drives.manage", user.role) = "PROPOSE"
    BY <1>2, DrivesScope
  <2>2. QED
    BY <1>2, <2>1, Granted DEF useCreateDrive, useCreateRound, DriveMutation, Mutation, Request,
         PermissionGuard, createDrive, addRound, Check, Ok
<1>3. QED
  BY <1>1, <1>2

(* The same with what they write.                                          *)
LEMMA OfficeSends ==
  ASSUME NEW db, Signed(db), NEW href, user.role \in Office
  PROVE  /\ \A row : /\ SendFine(db, href, useCreateOffer(user, row))
                     /\ SendFine(db, href, useCreatePpoOffer(user, row))
                     /\ row.status = "PENDING" =>
                          SendFine(db, href, useApproveOffer(user, row))
                     /\ row.status # "REVOKED" =>
                          SendFine(db, href, useRevokeOffer(user, row))
         /\ \A row : /\ row.status = "APPLIED" =>
                          SendFine(db, href, useShortlistApplication(user, row))
                     /\ SendFine(db, href, useRecordRoundResult(user, row))
         /\ SendFine(db, href, useCreateCompany(user))
         /\ \A row : SendFine(db, href, useCreateJobDescription(user, row))
         /\ href = "/companies" =>
              \A row : /\ SendFine(db, href, useCreateDrive(user, row))
                      /\ SendFine(db, href, useUpdateDriveStatus(user, row))
                      /\ SendFine(db, href, useCreateRound(user, row))
         /\ SendFine(db, href, useDryRunEligibility(user, db))
         /\ SendFine(db, href, useCreatePolicyRule(user))
         /\ \A row : /\ SendFine(db, href, useCreatePolicyRuleVersion(user, row))
                     /\ row.status = "DRAFT" =>
                          SendFine(db, href, useActivatePolicyRule(user, row))
         /\ \A row : SendFine(db, href, useCreateReply(user, row))
<1>1. Caller
  BY DEF Signed
<1>2. ASSUME NEW row
      PROVE  /\ SendFine(db, href, useCreateOffer(user, row))
             /\ SendFine(db, href, useCreatePpoOffer(user, row))
             /\ row.status = "PENDING" => SendFine(db, href, useApproveOffer(user, row))
             /\ row.status # "REVOKED" => SendFine(db, href, useRevokeOffer(user, row))
  BY <1>1, OfficeAnswered, MutationsKeyed, Sent
<1>3. ASSUME NEW row
      PROVE  row.status = "APPLIED" =>
               SendFine(db, href, useShortlistApplication(user, row))
  BY <1>1, OfficeAnswered, MutationsKeyed, Sent
<1>4. ASSUME NEW row
      PROVE  SendFine(db, href, useRecordRoundResult(user, row))
  <2>1. useRecordRoundResult(user, row).name = "recordRoundResult"
    BY DEF useRecordRoundResult, Mutation
  <2>2. useRecordRoundResult(user, row).answer.status \in {200, 409}
    BY <1>1, OfficeAnswered
  <2>3. SendKeyed(href, useRecordRoundResult(user, row))
    BY MutationsKeyed
  <2>4. QED
    BY <2>1, <2>2, <2>3 DEF SendFine, Accepted
<1>5. /\ SendFine(db, href, useCreateCompany(user))
      /\ \A row : SendFine(db, href, useCreateJobDescription(user, row))
  BY <1>1, OfficeAnswered, MutationsKeyed, Sent
<1>6. ASSUME href = "/companies", NEW row
      PROVE  /\ SendFine(db, href, useCreateDrive(user, row))
             /\ SendFine(db, href, useUpdateDriveStatus(user, row))
             /\ SendFine(db, href, useCreateRound(user, row))
  BY <1>1, <1>6, OfficeAnswered, MutationsKeyed, Sent
<1>7. /\ SendFine(db, href, useDryRunEligibility(user, db))
      /\ SendFine(db, href, useCreatePolicyRule(user))
      /\ \A row : SendFine(db, href, useCreateReply(user, row))
  BY <1>1, OfficeAnswered, MutationsKeyed, Sent
<1>8. ASSUME NEW row
      PROVE  /\ SendFine(db, href, useCreatePolicyRuleVersion(user, row))
             /\ row.status = "DRAFT" => SendFine(db, href, useActivatePolicyRule(user, row))
  BY <1>1, OfficeAnswered, MutationsKeyed, Sent
<1>9. QED
  BY <1>2, <1>3, <1>4, <1>5, <1>6, <1>7, <1>8

LEMMA StudentSends ==
  ASSUME NEW db, Signed(db), NEW href, user.role = "STUDENT"
  PROVE  /\ \A o \in Data(useOffers(user, db)) :
              o.status = "EXTENDED" => /\ SendFine(db, href, useAcceptOffer(user, o))
                                       /\ SendFine(db, href, useRejectOffer(user, o))
         /\ SendFine(db, href, useUpdateMyResume(user, db))
         /\ SendFine(db, href, useUpdateMyLinks(user, db))
         /\ (\E me \in Me(user, db) : me.placementStatus = "PLACED") =>
              SendFine(db, href, useUpdateMentorProfile(user, db))
         /\ \A m \in {None} \cup Data(useMentors(user, db)) :
              SendFine(db, href, useCreateThread(user, db, m))
         /\ \A row : SendFine(db, href, useCreateReply(user, row))
<1>1. \A o \in Data(useOffers(user, db)) :
        o.status = "EXTENDED" => /\ SendFine(db, href, useAcceptOffer(user, o))
                                 /\ SendFine(db, href, useRejectOffer(user, o))
  BY StudentAnswered, MutationsKeyed, Sent
<1>2. /\ SendFine(db, href, useUpdateMyResume(user, db))
      /\ SendFine(db, href, useUpdateMyLinks(user, db))
      /\ (\E me \in Me(user, db) : me.placementStatus = "PLACED") =>
           SendFine(db, href, useUpdateMentorProfile(user, db))
  BY StudentAnswered, MutationsKeyed, Sent
<1>3. /\ \A m \in {None} \cup Data(useMentors(user, db)) :
           SendFine(db, href, useCreateThread(user, db, m))
      /\ \A row : SendFine(db, href, useCreateReply(user, row))
  BY StudentAnswered, MutationsKeyed, Sent
<1>4. QED
  BY <1>1, <1>2, <1>3

LEMMA OthersSend ==
  ASSUME NEW db, Signed(db), NEW href
  PROVE  /\ user.role = "RECRUITER" =>
              \A row : row.companyId = user.companyId =>
                /\ SendFine(db, href, useCreateOffer(user, row))
                /\ SendFine(db, href, useCreateJobDescription(user, row))
         /\ user.role = "FACULTY_COORD" /\ href = "/companies" =>
              \A row : row.status = "DRAFT" =>
                /\ SendFine(db, href, useCreateDrive(user, row))
                /\ SendFine(db, href, useCreateRound(user, row))
<1>1. Caller
  BY DEF Signed
<1>2. ASSUME user.role = "RECRUITER", NEW row, row.companyId = user.companyId
      PROVE  /\ SendFine(db, href, useCreateOffer(user, row))
             /\ SendFine(db, href, useCreateJobDescription(user, row))
  BY <1>1, <1>2, OthersAnswered, MutationsKeyed, Sent
<1>3. ASSUME user.role = "FACULTY_COORD", href = "/companies", NEW row, row.status = "DRAFT"
      PROVE  /\ SendFine(db, href, useCreateDrive(user, row))
             /\ SendFine(db, href, useCreateRound(user, row))
  BY <1>1, <1>3, OthersAnswered, MutationsKeyed, Sent
<1>4. QED
  BY <1>2, <1>3

LEMMA FitIsVerdict ==
  ASSUME NEW student, NEW institution, DOMAIN institution = {}, NEW drive,
         DOMAIN drive.minCriteria \subseteq {"minCgpa", "maxActiveBacklogs"},
         "minCgpa" \in DOMAIN drive.minCriteria => drive.minCriteria["minCgpa"] \in Nat \ {0},
         student.placementStatus # "DEBARRED", assessFit(drive, student)
  PROVE  runEligibilityEvaluators(student, mergeCriteria(institution, drive.minCriteria),
                                  drive.eligiblePrograms).eligible
<1> DEFINE jd == drive.minCriteria
           merged == mergeCriteria(institution, jd)
<1>1. /\ DOMAIN merged \subseteq {"minCgpa", "maxActiveBacklogs"}
      /\ \A f \in DOMAIN merged : f \in DOMAIN jd /\ merged[f] = jd[f]
  BY DEF mergeCriteria
<1>2. /\ drive.eligiblePrograms # {} => student.departmentCode \in drive.eligiblePrograms
      /\ "minCgpa" \in DOMAIN jd => cgpaNumber(student) >= jd["minCgpa"]
      /\ "maxActiveBacklogs" \in DOMAIN jd => student.activeBacklogs <= jd["maxActiveBacklogs"]
  BY DEF assessFit
<1> HIDE DEF merged
<1>3. evaluateDebarStatus(student) /\ evaluateProgram(student, drive.eligiblePrograms)
  BY <1>2 DEF evaluateDebarStatus, evaluateProgram
<1>4. evaluateCgpa(student, merged)
  BY <1>1, <1>2 DEF evaluateCgpa, evaluateMinThreshold, cgpaNumber
<1>5. evaluateActiveBacklogs(student, merged)
  BY <1>1, <1>2 DEF evaluateActiveBacklogs, evaluateMaxThreshold
<1>6. /\ evaluateTenthPercent(student, merged)
      /\ evaluateTwelfthPercent(student, merged)
      /\ evaluateBacklogHistory(student, merged)
      /\ evaluateGapYears(student, merged)
  BY <1>1 DEF evaluateTenthPercent, evaluateTwelfthPercent, evaluateBacklogHistory,
       evaluateGapYears, evaluateMinThreshold, evaluateMaxThreshold
<1>7. evaluateDiploma(student, merged) /\ evaluateCategory(student, merged)
  BY <1>1 DEF evaluateDiploma, evaluateCategory
<1>8. QED
  BY <1>3, <1>4, <1>5, <1>6, <1>7, Verdict DEF merged

LEMMA HomeApplies ==
  ASSUME NEW db, Signed(db), Previewed(db), user.role = "STUDENT",
         NEW drive \in Data(useDrives(user, db, None)), drive.status \in OPEN_DRIVE_STATUSES,
         NEW me \in Me(user, db), me.placementStatus # "DEBARRED", assessFit(drive, me),
         \A a \in Data(useApplications(user, db)) : a.drive # drive
  PROVE  useCreateApplication(user, db, drive, None).answer.status = 200
<1>1. me \in db.students /\ me.userId = user.sub /\ drive \in db.drives
  BY OwnRows
<1>2. {s \in db.students : s.userId = user.sub} = {me}
  BY <1>1 DEF Previewed
<1>3. \A body : apply(user, "SELF", db.students, body) = Ok({me})
  BY <1>2 DEF apply
<1>4. runEligibilityEvaluators(me, mergeCriteria(db.criteria, drive.minCriteria),
                               drive.eligiblePrograms).eligible
  BY <1>1, FitIsVerdict DEF Previewed
<1>5. \A a \in db.applications : ~(a.userId = me.userId /\ a.drive = drive)
  BY <1>1, OwnRows
<1>6. Chosen(user, db, None) = Ok({me})
  <2>1. resolvePermissionScope("applications.apply", user.role) = "SELF" /\ Caller
    BY ApplicationsScope DEF Signed
  <2>2. QED
    BY <1>3, <2>1, Granted DEF Chosen, Request, PermissionGuard
<1>7. Chosen(user, db, None).status = 200 /\ Chosen(user, db, None).rows = {me}
  BY <1>6 DEF Ok
<1>8. QED
  BY <1>4, <1>5, <1>7 DEF useCreateApplication, Mutation, Unless

-----------------------------------------------------------------------------
(* The components and the pages *)

Fine(db, href, part) ==
  /\ \A r \in part.reads : ReadFine(href, r)
  /\ \A m \in part.sends : SendFine(db, href, m)

LEMMA PartFine ==
  ASSUME NEW db, NEW href, NEW reads, NEW sends,
         \A r \in reads : ReadFine(href, r), \A m \in sends : SendFine(db, href, m)
  PROVE  Fine(db, href, Part(reads, sends))
BY DEF Fine, Part

LEMMA AllFine ==
  ASSUME NEW db, NEW href, NEW parts, \A p \in parts : Fine(db, href, p)
  PROVE  Fine(db, href, AllOf(parts))
BY DEF Fine, AllOf, Part

(* offers/page.tsx *)

LEMMA CreateOfferDialogFine ==
  ASSUME NEW db, Signed(db), user.role \in {"SUPER_ADMIN", "TPO", "RECRUITER"}
  PROVE  Fine(db, "/offers", CreateOfferDialog(user, db))
<1> DEFINE applications == useApplications(user, db)
           reads == Only(IsTpo(user), {Read(applications, {"application"})})
           shared == {a \in db.applications : a.companyId = user.companyId}
           sends == {useCreateOffer(user, a) :
                       a \in IF IsTpo(user) THEN Data(applications) ELSE shared}
<1>1. ASSUME NEW r \in reads
      PROVE  ReadFine("/offers", r)
  <2>1. r = Read(applications, {"application"}) /\ user.role # "RECRUITER"
    BY <1>1 DEF Only, IsTpo
  <2>2. CASE user.role = "TPO"
    BY <2>1, <2>2, ApplicationsRead, PlainRead DEF MayShow
  <2>3. CASE user.role = "SUPER_ADMIN"
    <3>1. applications.key = <<"applications", "all">>
      BY DEF useApplications, Query, Cached
    <3>2. QED
      BY <2>1, <2>3, <3>1 DEF ReadFine, Answered, ReadKeyed, Read, Under
  <2>4. QED
    BY <2>1, <2>2, <2>3
<1>2. ASSUME NEW m \in sends
      PROVE  SendFine(db, "/offers", m)
  <2>1. PICK a : /\ m = useCreateOffer(user, a)
                 /\ ~IsTpo(user) => a.companyId = user.companyId
    BY <1>2
  <2>2. CASE IsTpo(user)
    BY <2>1, <2>2, OfficeSends DEF IsTpo, Office
  <2>3. CASE ~IsTpo(user)
    BY <2>1, <2>3, OthersSend DEF IsTpo
  <2>4. QED
    BY <2>2, <2>3
<1>3. QED
  BY <1>1, <1>2, PartFine DEF CreateOfferDialog

LEMMA CreatePpoDialogFine ==
  ASSUME NEW db, Signed(db), user.role \in Office
  PROVE  Fine(db, "/offers", CreatePpoDialog(user, db))
<1> DEFINE students == useStudents(user, db, None)
<1>1. ReadFine("/offers", Read(students, {"name"}))
  BY StudentsRead, PlainRead DEF MayShow, Office
<1>2. \A s : SendFine(db, "/offers", useCreatePpoOffer(user, s))
  BY OfficeSends
<1>3. QED
  BY <1>1, <1>2, PartFine DEF CreatePpoDialog

LEMMA OfferRowFine ==
  ASSUME NEW db, Signed(db), NEW o \in Data(useOffers(user, db))
  PROVE  Fine(db, "/offers", OfferRow(user, o))
<1>1. IsTpo(user) /\ o.status = "PENDING" => SendFine(db, "/offers", useApproveOffer(user, o))
  BY OfficeSends DEF IsTpo, Office
<1>2. IsTpo(user) /\ o.status # "REVOKED" => SendFine(db, "/offers", useRevokeOffer(user, o))
  BY OfficeSends DEF IsTpo, Office
<1>3. IsStudent(user) /\ o.status = "EXTENDED" =>
        /\ SendFine(db, "/offers", useAcceptOffer(user, o))
        /\ SendFine(db, "/offers", useRejectOffer(user, o))
  BY StudentSends DEF IsStudent
<1>4. QED
  BY <1>1, <1>2, <1>3 DEF OfferRow, Only, Fine, Part

LEMMA OffersPageFine ==
  ASSUME NEW db, Signed(db)
  PROVE  Fine(db, "/offers", OffersPage(user, db))
<1> DEFINE offers == useOffers(user, db)
           lists == Part({Read(offers, {"offer"}), Read(useCompanies(user, db), {"company"})}, {})
           parts == {lists}
             \cup Only(IsTpo(user) \/ IsRecruiter(user), {CreateOfferDialog(user, db)})
             \cup Only(IsTpo(user), {CreatePpoDialog(user, db)})
             \cup {OfferRow(user, o) : o \in Data(offers)}
<1>1. Fine(db, "/offers", lists)
  <2>1. /\ ReadFine("/offers", Read(offers, {"offer"}))
        /\ ReadFine("/offers", Read(useCompanies(user, db), {"company"}))
    BY OffersRead, CompaniesRead, PlainRead DEF MayShow
  <2>2. QED
    BY <2>1 DEF Fine, Part
<1>2. IsTpo(user) \/ IsRecruiter(user) => Fine(db, "/offers", CreateOfferDialog(user, db))
  BY CreateOfferDialogFine DEF IsTpo, IsRecruiter
<1>3. IsTpo(user) => Fine(db, "/offers", CreatePpoDialog(user, db))
  BY CreatePpoDialogFine DEF IsTpo, Office
<1>4. \A p \in parts : Fine(db, "/offers", p)
  BY <1>1, <1>2, <1>3, OfferRowFine DEF Only
<1>5. QED
  BY <1>4, AllFine DEF OffersPage

(* applications/page.tsx *)

LEMMA ApplyDialogFine ==
  ASSUME NEW db, Signed(db), user.role \in {"TPO", "FACULTY_COORD", "STUDENT"}
  PROVE  Fine(db, "/applications", ApplyDialog(user, db))
<1>1. /\ ReadFine("/applications", Read(useDrives(user, db, None), {"drive"}))
      /\ ReadFine("/applications", Read(useStudents(user, db, None), {"name"}))
      /\ ReadFine("/applications", Read(useCompanies(user, db), {"company"}))
  BY DrivesRead, StudentsRead, CompaniesRead, PlainRead DEF MayShow
<1>2. ASSUME NEW d, NEW s
      PROVE  SendFine(db, "/applications", useCreateApplication(user, db, d, s))
  <2>1. useCreateApplication(user, db, d, s).name = "apply"
    BY DEF useCreateApplication, Mutation
  <2>2. SendKeyed("/applications", useCreateApplication(user, db, d, s))
    BY MutationsKeyed
  <2>3. QED
    BY <2>1, <2>2 DEF SendFine, Accepted
<1>3. QED
  BY <1>1, <1>2 DEF ApplyDialog, Fine, Part

LEMMA RoundResultFormFine ==
  ASSUME NEW db, Signed(db), NEW a, user.role \in Office
  PROVE  Fine(db, "/applications", RoundResultForm(user, a))
<1>1. ReadFine("/applications", Read(useDrive(user, a.drive), {"drive"}))
  BY DriveRead, PlainRead DEF MayShow, Office
<1>2. SendFine(db, "/applications", useRecordRoundResult(user, a))
  BY OfficeSends
<1>3. QED
  BY <1>1, <1>2 DEF RoundResultForm, Fine, Part

LEMMA ApplicationRowFine ==
  ASSUME NEW db, Signed(db), user.role \in {"TPO", "FACULTY_COORD", "STUDENT"},
         NEW a \in Data(useApplications(user, db))
  PROVE  Fine(db, "/applications", ApplicationRow(user, a))
<1> DEFINE buttons ==
             Part({}, Only(a.status \notin TERMINAL_APPLICATION_STATUSES,
                           {useWithdrawApplication(user, a)})
                      \cup Only(IsTpo(user) /\ a.status = "APPLIED",
                                {useShortlistApplication(user, a)}))
           parts == {buttons} \cup Only(IsTpo(user), {RoundResultForm(user, a)})
<1>1. a.status \notin TERMINAL_APPLICATION_STATUSES =>
        SendFine(db, "/applications", useWithdrawApplication(user, a))
  BY WithdrawAccepted, MutationsKeyed, Sent
<1>2. IsTpo(user) /\ a.status = "APPLIED" =>
        SendFine(db, "/applications", useShortlistApplication(user, a))
  BY OfficeSends DEF IsTpo, Office
<1>3. Fine(db, "/applications", buttons)
  BY <1>1, <1>2 DEF Only, Fine, Part
<1>4. \A p \in parts : Fine(db, "/applications", p)
  BY <1>3, RoundResultFormFine DEF Only, IsTpo, Office
<1>5. QED
  BY <1>4, AllFine DEF ApplicationRow

LEMMA ApplicationsPageFine ==
  ASSUME NEW db, Signed(db), user.role \in {"TPO", "FACULTY_COORD", "STUDENT"}
  PROVE  Fine(db, "/applications", ApplicationsPage(user, db))
<1> DEFINE applications == useApplications(user, db)
           lists == Part({Read(applications, {"application"}),
                          Read(useCompanies(user, db), {"company"})}, {})
           parts == {lists, ApplyDialog(user, db)}
             \cup {ApplicationRow(user, a) : a \in Data(applications)}
<1>1. Fine(db, "/applications", lists)
  <2>1. /\ ReadFine("/applications", Read(applications, {"application"}))
        /\ ReadFine("/applications", Read(useCompanies(user, db), {"company"}))
    BY ApplicationsRead, CompaniesRead, PlainRead DEF MayShow
  <2>2. QED
    BY <2>1 DEF Fine, Part
<1>2. \A p \in parts : Fine(db, "/applications", p)
  BY <1>1, ApplyDialogFine, ApplicationRowFine
<1>3. QED
  BY <1>2, AllFine DEF ApplicationsPage

(* companies/page.tsx and companies/[id]/page.tsx *)

LEMMA CompanyRead ==
  ASSUME NEW db, Signed(db), NEW c \in Data(useCompanies(user, db))
  PROVE  Plain(useCompany(user, c), "companies")
<1> DEFINE scope == resolvePermissionScope("companies.records", user.role)
<1>1. scope # "NONE" /\ (scope = "SELF" => user.role = "RECRUITER")
  BY CompaniesScope, CallerRole DEF Signed
<1>2. /\ useCompanies(user, db).answer = listCompanies(user, scope, db.companies)
      /\ useCompany(user, c) = [key |-> <<"companies", c.companyId>>,
                                answer |-> findCompany(user, scope, c)]
  BY <1>1, Granted DEF Signed, useCompanies, useCompany, Query, Cached, Request, PermissionGuard
<1> HIDE DEF scope
<1>3. scope = "SELF" => c.companyId = user.companyId
  BY <1>1, <1>2 DEF Data, listCompanies, Ok, Where, OrNone, Signed
<1>4. findCompany(user, scope, c).status = 200
  BY <1>3 DEF findCompany, Check, Ok
<1>5. QED
  BY <1>2, <1>4 DEF Plain, Under

LEMMA DriveRowFine ==
  ASSUME NEW db, Signed(db), NEW d
  PROVE  Fine(db, "/companies", DriveRow(user, d))
<1> DEFINE buttons == Part({}, Only(IsTpo(user) /\ NEXT_STATUS[d.status] # {},
                                    {useUpdateDriveStatus(user, d)})
                               \cup Only(IsStaff(user) /\ d.status = "DRAFT",
                                         {useCreateRound(user, d)}))
           parts == {buttons} \cup Only(IsStaff(user), {DriveEligibilityDialog(user, d)})
<1>1. IsTpo(user) => SendFine(db, "/companies", useUpdateDriveStatus(user, d))
  BY OfficeSends DEF IsTpo, Office
<1>2. IsStaff(user) /\ d.status = "DRAFT" => SendFine(db, "/companies", useCreateRound(user, d))
  BY OfficeSends, OthersSend DEF IsStaff, IsTpo, Office
<1>3. Fine(db, "/companies", buttons)
  BY <1>1, <1>2 DEF Only, Fine, Part
<1>4. IsStaff(user) => Fine(db, "/companies", DriveEligibilityDialog(user, d))
  <2>1. IsStaff(user) => ReadFine("/companies", Read(useDriveEligibility(user, d), {"verdict"}))
    BY DriveEligibilityRead, PlainRead DEF MayShow, IsStaff, IsTpo
  <2>2. QED
    BY <2>1 DEF DriveEligibilityDialog, Fine, Part
<1>5. \A p \in parts : Fine(db, "/companies", p)
  BY <1>3, <1>4 DEF Only
<1>6. QED
  BY <1>5, AllFine DEF DriveRow

LEMMA JobDescriptionCardFine ==
  ASSUME NEW db, Signed(db), NEW jd
  PROVE  Fine(db, "/companies", JobDescriptionCard(user, db, jd))
<1> DEFINE drives == useDrives(user, db, jd)
           draft == [status |-> "DRAFT", companyId |-> jd.companyId]
           list == Part({Read(drives, {"drive"})},
                        Only(IsStaff(user), {useCreateDrive(user, draft)}))
           parts == {list} \cup {DriveRow(user, d) : d \in Data(drives)}
<1>1. ASSUME IsStaff(user)
      PROVE  Fine(db, "/companies", DrivesSection(user, db, jd))
  <2>1. ReadFine("/companies", Read(drives, {"drive"}))
    BY <1>1, DrivesRead, PlainRead DEF MayShow, IsStaff, IsTpo
  <2>2. SendFine(db, "/companies", useCreateDrive(user, draft))
    BY <1>1, OfficeSends, OthersSend DEF IsStaff, IsTpo, Office
  <2>3. Fine(db, "/companies", list)
    BY <2>1, <2>2 DEF Only, Fine, Part
  <2>4. \A p \in parts : Fine(db, "/companies", p)
    BY <2>3, DriveRowFine
  <2>5. QED
    BY <2>4, AllFine DEF DrivesSection
<1>2. QED
  BY <1>1, AllFine DEF JobDescriptionCard, Only

LEMMA CompanyPageFine ==
  ASSUME NEW db, Signed(db), NEW c \in Data(useCompanies(user, db))
  PROVE  Fine(db, "/companies", CompanyPage(user, db, c))
<1> DEFINE canSeeJDs == IsTpo(user) \/ (IsRecruiter(user) /\ user.companyId = c.companyId)
           head == Part({Read(useCompany(user, c), {"company"})}, {})
           jds == useJobDescriptions(user, db, c.companyId)
           list == Part({Read(jds, {"jd"})}, {})
           parts == {list, CreateJobDescriptionDialog(user, c)}
             \cup {JobDescriptionCard(user, db, jd) : jd \in Data(jds)}
<1>1. Fine(db, "/companies", head)
  <2>1. ReadFine("/companies", Read(useCompany(user, c), {"company"}))
    BY CompanyRead, PlainRead DEF MayShow
  <2>2. QED
    BY <2>1 DEF Fine, Part
<1>2. ASSUME canSeeJDs
      PROVE  Fine(db, "/companies", JobDescriptionsSection(user, db, c))
  <2>1. ReadFine("/companies", Read(jds, {"jd"}))
    BY <1>2, JobDescriptionsRead, PlainRead DEF MayShow, IsTpo, IsRecruiter
  <2>2. SendFine(db, "/companies", useCreateJobDescription(user, c))
    BY <1>2, OfficeSends, OthersSend DEF IsTpo, IsRecruiter, Office
  <2>3. /\ Fine(db, "/companies", list)
        /\ Fine(db, "/companies", CreateJobDescriptionDialog(user, c))
    BY <2>1, <2>2 DEF Fine, Part, CreateJobDescriptionDialog
  <2>4. \A p \in parts : Fine(db, "/companies", p)
    BY <2>3, JobDescriptionCardFine
  <2>5. QED
    BY <2>4, AllFine DEF JobDescriptionsSection
<1>3. \A p \in {head} \cup Only(canSeeJDs, {JobDescriptionsSection(user, db, c)}) :
        Fine(db, "/companies", p)
  BY <1>1, <1>2 DEF Only
<1>4. QED
  BY <1>3, AllFine DEF CompanyPage

LEMMA CompaniesPageFine ==
  ASSUME NEW db, Signed(db)
  PROVE  Fine(db, "/companies",
              AllOf({CompaniesPage(user, db)}
                      \cup {CompanyPage(user, db, c) : c \in Data(useCompanies(user, db))}))
<1> DEFINE list == Part({Read(useCompanies(user, db), {"company"})}, {})
           parts == {list} \cup Only(IsTpo(user), {CreateCompanyDialog(user)})
<1>1. Fine(db, "/companies", list)
  <2>1. ReadFine("/companies", Read(useCompanies(user, db), {"company"}))
    BY CompaniesRead, PlainRead DEF MayShow
  <2>2. QED
    BY <2>1 DEF Fine, Part
<1>2. IsTpo(user) => Fine(db, "/companies", CreateCompanyDialog(user))
  BY OfficeSends DEF IsTpo, Office, Fine, Part, CreateCompanyDialog
<1>3. \A p \in parts : Fine(db, "/companies", p)
  BY <1>1, <1>2 DEF Only
<1>4. Fine(db, "/companies", CompaniesPage(user, db))
  BY <1>3, AllFine DEF CompaniesPage
<1>5. QED
  BY <1>4, CompanyPageFine, AllFine

(* mentors/page.tsx *)

LEMMA ThreadDetailFine ==
  ASSUME NEW db, Signed(db), user.role # "RECRUITER", NEW t
  PROVE  Fine(db, "/mentors", ThreadDetail(user, t))
<1>1. ReadFine("/mentors", Read(useThread(user, t), {"thread"}))
  BY ThreadRead, PlainRead DEF MayShow
<1>2. SendFine(db, "/mentors", useCreateReply(user, t))
  <2>1. CASE user.role \in Office
    BY <2>1, OfficeSends
  <2>2. CASE user.role = "STUDENT"
    BY <2>2, StudentSends
  <2>3. CASE user.role = "FACULTY_COORD"
    <3>1. useCreateReply(user, t).name = "createReply"
      BY DEF useCreateReply, Mutation
    <3>2. SendKeyed("/mentors", useCreateReply(user, t))
      BY MutationsKeyed
    <3>3. QED
      BY <2>3, <3>1, <3>2 DEF SendFine, Accepted
  <2>4. QED
    BY <2>1, <2>2, <2>3, CallerRole DEF Signed, Office
<1>3. QED
  BY <1>1, <1>2 DEF ThreadDetail, Only, Fine, Part

LEMMA MentorConnectPageFine ==
  ASSUME NEW db, Signed(db), user.role # "RECRUITER"
  PROVE  Fine(db, "/mentors", MentorConnectPage(user, db))
<1> DEFINE threads == useThreads(user, db)
           mentors == useMentors(user, db)
           isPlaced == \E me \in Me(user, db) : me.placementStatus = "PLACED"
           lists == Part({Read(mentors, {"mentor", "answers"}), Read(threads, {"board"}),
                          Read(useStudents(user, db, None), {"mentor"})}, {})
           parts == {lists}
             \cup Only(isPlaced, {BecomeMentorCard(user, db)})
             \cup Only(IsStudent(user), {AskDialog(user, db)})
             \cup Only(IsStudent(user) \/ IsStaff(user), {ThreadsBoard(user, Data(threads))})
<1>1. Fine(db, "/mentors", lists)
  <2>1. /\ ReadFine("/mentors", Read(mentors, {"mentor", "answers"}))
        /\ ReadFine("/mentors", Read(threads, {"board"}))
        /\ ReadFine("/mentors", Read(useStudents(user, db, None), {"mentor"}))
    BY MentorsRead, StudentsRead, BoardRead, PlainRead DEF MayShow
  <2>2. QED
    BY <2>1 DEF Fine, Part
<1>2. ASSUME isPlaced
      PROVE  Fine(db, "/mentors", BecomeMentorCard(user, db))
  <2>1. user.role = "STUDENT"
    BY <1>2 DEF Me, IsStudent
  <2>2. SendFine(db, "/mentors", useUpdateMentorProfile(user, db))
    BY <1>2, <2>1, StudentSends
  <2>3. QED
    BY <2>2 DEF BecomeMentorCard, Fine, Part
<1>3. ASSUME IsStudent(user)
      PROVE  Fine(db, "/mentors", AskDialog(user, db))
  <2>1. ReadFine("/mentors", Read(mentors, {"mentor"}))
    BY MentorsRead, PlainRead DEF MayShow
  <2>2. \A m \in {None} \cup Data(mentors) : SendFine(db, "/mentors", useCreateThread(user, db, m))
    BY <1>3, StudentSends DEF IsStudent
  <2>3. QED
    BY <2>1, <2>2 DEF AskDialog, Fine, Part
<1>4. Fine(db, "/mentors", ThreadsBoard(user, Data(threads)))
  BY ThreadDetailFine, AllFine DEF ThreadsBoard
<1>5. \A p \in parts : Fine(db, "/mentors", p)
  <2> HIDE DEF isPlaced, lists
  <2>1. QED
    BY <1>1, <1>2, <1>3, <1>4 DEF Only
<1>6. QED
  BY <1>5, AllFine DEF MentorConnectPage

(* policy/page.tsx *)

LEMMA PolicyRulesTabFine ==
  ASSUME NEW db, Signed(db), user.role \in Office
  PROVE  Fine(db, "/policy", PolicyRulesTab(user, db))
<1> DEFINE rules == usePolicyRules(user, db)
           list == Part({Read(rules, {"rule"})}, {})
           parts == {list, CreateRuleDialog(user)}
             \cup {RuleRow(user, r) : r \in Data(rules)}
             \cup {NewVersionDialog(user, r) : r \in Data(rules)}
<1>1. Fine(db, "/policy", list)
  <2>1. ReadFine("/policy", Read(rules, {"rule"}))
    BY PolicyRulesRead, PlainRead DEF MayShow, Office
  <2>2. QED
    BY <2>1 DEF Fine, Part
<1>2. Fine(db, "/policy", CreateRuleDialog(user))
  BY OfficeSends DEF CreateRuleDialog, Fine, Part
<1>3. \A r : Fine(db, "/policy", RuleRow(user, r))
  BY OfficeSends DEF RuleRow, Only, Fine, Part
<1>4. \A r : Fine(db, "/policy", NewVersionDialog(user, r))
  BY OfficeSends DEF NewVersionDialog, Fine, Part
<1>5. \A p \in parts : Fine(db, "/policy", p)
  BY <1>1, <1>2, <1>3, <1>4
<1>6. QED
  BY <1>5, AllFine DEF PolicyRulesTab

LEMMA PolicyPageFine ==
  ASSUME NEW db, Signed(db), user.role \in Office
  PROVE  Fine(db, "/policy", PolicyPage(user, db))
<1>1. ReadFine("/policy", Read(useJobDescriptions(user, db, None), {"jd"}))
  BY JobDescriptionsRead, PlainRead DEF MayShow, Office
<1>2. SendFine(db, "/policy", useDryRunEligibility(user, db))
  BY OfficeSends
<1>3. Fine(db, "/policy", SimulatorTab(user, db))
  BY <1>1, <1>2 DEF SimulatorTab, Fine, Part
<1>4. QED
  BY <1>3, PolicyRulesTabFine, AllFine DEF PolicyPage

(* students/page.tsx *)

LEMMA StudentsPageFine ==
  ASSUME NEW db, Signed(db), user.role # "RECRUITER"
  PROVE  Fine(db, "/students", StudentsPage(user, db))
<1>1. \A d : ReadFine("/students", Read(useStudents(user, db, d), {"student"}))
  BY StudentsRead, PlainRead DEF MayShow
<1>2. IsStaff(user) => ReadFine("/students", Read(useFilterOptions(user, db), {}))
  BY FilterOptionsRead, NumbersRead DEF IsStaff, IsTpo, Staff
<1>3. QED
  BY <1>1, <1>2 DEF StudentsPage, Only, Fine, Part

(* student-home.tsx and dashboard/page.tsx *)

LEMMA OpenDriveCardFine ==
  ASSUME NEW db, Signed(db), user.role = "STUDENT",
         NEW d \in Data(useDrives(user, db, None)), d.status \in OPEN_DRIVE_STATUSES,
         NEW me \in Me(user, db)
  PROVE  Fine(db, "/dashboard", OpenDriveCard(user, db, d, me))
<1> DEFINE alreadyApplied == \E a \in Data(useApplications(user, db)) : a.drive = d
           m == useCreateApplication(user, db, d, None)
<1>1. SendKeyed("/dashboard", m) /\ m.name = "apply"
  <2>1. m.name = "apply"
    BY DEF useCreateApplication, Mutation
  <2>2. QED
    BY <2>1, MutationsKeyed
<1> HIDE DEF m
<1>2. ASSUME ~alreadyApplied, assessFit(d, me)
      PROVE  SendFine(db, "/dashboard", m)
  <2>1. CASE me.placementStatus = "DEBARRED"
    BY <1>1, <2>1 DEF SendFine, Accepted
  <2>2. CASE ~Previewed(db)
    BY <1>1, <2>2 DEF SendFine
  <2>3. CASE Previewed(db) /\ me.placementStatus # "DEBARRED"
    <3>1. m.answer.status = 200
      BY <1>2, <2>3, HomeApplies DEF m
    <3>2. QED
      BY <1>1, <3>1, Sent
  <2>4. QED
    BY <2>1, <2>2, <2>3
<1>3. QED
  BY <1>2 DEF OpenDriveCard, Only, Fine, Part, m

LEMMA StudentHomeFine ==
  ASSUME NEW db, Signed(db), user.role = "STUDENT"
  PROVE  Fine(db, "/dashboard", StudentHome(user, db))
<1> DEFINE drives == useDrives(user, db, None)
           whole == [batchId |-> None, departmentId |-> None]
           lists == Part({Read(useStudents(user, db, None), {"student"}),
                          Read(useApplications(user, db), {"application"}),
                          Read(useOffers(user, db), {"offer"}),
                          Read(drives, {"drive"}),
                          Read(useCompanies(user, db), {"company"}),
                          Read(useSummary(user, db, whole), {})}, {})
           cards == {OpenDriveCard(user, db, d, me) :
                       d \in {e \in Data(drives) : e.status \in OPEN_DRIVE_STATUSES},
                       me \in Me(user, db)}
<1>1. /\ ReadFine("/dashboard", Read(useStudents(user, db, None), {"student"}))
      /\ ReadFine("/dashboard", Read(useApplications(user, db), {"application"}))
      /\ ReadFine("/dashboard", Read(useOffers(user, db), {"offer"}))
      /\ ReadFine("/dashboard", Read(drives, {"drive"}))
      /\ ReadFine("/dashboard", Read(useCompanies(user, db), {"company"}))
  BY StudentsRead, ApplicationsRead, OffersRead, DrivesRead, CompaniesRead, PlainRead DEF MayShow
<1>2. ReadFine("/dashboard", Read(useSummary(user, db, whole), {}))
  <2>1. MayAsk("/dashboard", whole)
    BY DEF MayAsk, Staff
  <2>2. QED
    BY <2>1, SummaryRead, NumbersRead
<1>3. Fine(db, "/dashboard", lists)
  BY <1>1, <1>2 DEF Fine, Part
<1>4. \A p \in cards : Fine(db, "/dashboard", p)
  BY OpenDriveCardFine
<1>5. \A p \in {lists} \cup cards : Fine(db, "/dashboard", p)
  BY <1>3, <1>4
<1>6. QED
  BY <1>5, AllFine DEF StudentHome

(* What staff ask for: the batch the page picks, and a department that is  *)
(* theirs to pick.                                                         *)
LEMMA StaffAsk ==
  ASSUME NEW href
  PROVE  /\ MayAsk(href, Whole(user))
         /\ MayAsk(href, [batchId |-> "latest", departmentId |-> None])
         /\ user.role \in Office =>
              \A d : MayAsk(href, [batchId |-> "latest", departmentId |-> d])
         /\ href = "/reports" /\ user.role = "FACULTY_COORD" =>
              \A d : MayAsk(href, [batchId |-> "latest", departmentId |-> d])
<1>1. "latest" # None
  BY NoneAssumption
<1>2. user.role \in Staff => Batch(user) = "latest"
  BY DEF Batch, IsStaff, IsTpo, Staff
<1>3. Whole(user).batchId = Batch(user) /\ Whole(user).departmentId = None
  BY DEF Whole
<1>4. QED
  BY <1>1, <1>2, <1>3 DEF MayAsk

LEMMA DashboardFine ==
  ASSUME NEW db, Signed(db)
  PROVE  Fine(db, "/dashboard", DashboardOverviewPage(user, db))
<1> DEFINE numbers == Part({Read(useSummary(user, db, Whole(user)), {})}, {})
           trends == Part({Read(useFilterOptions(user, db), {}),
                           Read(useYoy(user, db, Whole(user)), {})}, {})
           staff == {trends, TopRecruitersCard(user, db), UpcomingDrivesCard(user, db)}
           parts == {numbers} \cup Only(IsStudent(user), {StudentHome(user, db)})
                              \cup Only(IsStaff(user), staff)
<1>1. Fine(db, "/dashboard", numbers)
  <2>1. ReadFine("/dashboard", Read(useSummary(user, db, Whole(user)), {}))
    BY StaffAsk, SummaryRead, NumbersRead
  <2>2. QED
    BY <2>1 DEF Fine, Part
<1>2. IsStudent(user) => Fine(db, "/dashboard", StudentHome(user, db))
  BY StudentHomeFine DEF IsStudent
<1>3. ASSUME IsStaff(user)
      PROVE  \A p \in staff : Fine(db, "/dashboard", p)
  <2>1. user.role \in Staff /\ user.role # "RECRUITER"
    BY <1>3 DEF IsStaff, IsTpo, Staff
  <2>2. /\ ReadFine("/dashboard", Read(useFilterOptions(user, db), {}))
        /\ ReadFine("/dashboard", Read(useYoy(user, db, Whole(user)), {}))
        /\ ReadFine("/dashboard", Read(useUpcomingDrives(user, db), {"drive"}))
    BY <2>1, StaffAsk, FilterOptionsRead, YoyRead, UpcomingDrivesRead, NumbersRead
  <2>3. /\ ReadFine("/dashboard", Read(useOffers(user, db), {"offer"}))
        /\ ReadFine("/dashboard", Read(useCompanies(user, db), {"company"}))
    BY OffersRead, CompaniesRead, PlainRead DEF MayShow
  <2>4. QED
    BY <2>2, <2>3 DEF TopRecruitersCard, UpcomingDrivesCard, Fine, Part
<1>4. \A p \in parts : Fine(db, "/dashboard", p)
  <2> HIDE DEF staff, numbers
  <2>1. QED
    BY <1>1, <1>2, <1>3 DEF Only
<1>5. QED
  BY <1>4, AllFine DEF DashboardOverviewPage

(* analytics/page.tsx and reports/page.tsx *)

LEMMA StaffAnalyticsFine ==
  ASSUME NEW db, Signed(db), IsStaff(user)
  PROVE  Fine(db, "/analytics", StaffAnalytics(user, db))
<1> DEFINE queries == [batchId : {"latest"},
                       departmentId : {None} \cup Only(IsTpo(user), db.departments)]
           numbers == {Read(useFilterOptions(user, db), {})}
             \cup UNION {{Read(useSummary(user, db, q), {}), Read(useYoy(user, db, q), {})} :
                           q \in queries}
           parts == {Part(numbers, {}), RightRail(user, db)}
             \cup {DrilldownDrawer(user, db, q) : q \in queries}
             \cup Only(IsTpo(user), {BranchTable(user, db)})
<1>1. user.role \in Staff /\ user.role # "RECRUITER"
  BY DEF IsStaff, IsTpo, Staff
<1>2. \A q \in queries : MayAsk("/analytics", q)
  <2>1. ASSUME NEW q \in queries
        PROVE  /\ q = [batchId |-> "latest", departmentId |-> q.departmentId]
               /\ q.departmentId = None \/ IsTpo(user)
    BY DEF Only
  <2>2. QED
    BY <2>1, StaffAsk DEF IsTpo, Office
<1>3. \A r \in numbers : ReadFine("/analytics", r)
  <2>1. ReadFine("/analytics", Read(useFilterOptions(user, db), {}))
    BY <1>1, FilterOptionsRead, NumbersRead
  <2>2. \A q \in queries : /\ ReadFine("/analytics", Read(useSummary(user, db, q), {}))
                           /\ ReadFine("/analytics", Read(useYoy(user, db, q), {}))
    BY <1>1, <1>2, SummaryRead, YoyRead, NumbersRead
  <2>3. QED
    BY <2>1, <2>2
<1>4. Fine(db, "/analytics", Part(numbers, {}))
  BY <1>3 DEF Fine, Part
<1>5. Fine(db, "/analytics", RightRail(user, db))
  <2>1. ReadFine("/analytics", Read(useUpcomingDrives(user, db), {"drive"}))
    BY <1>1, UpcomingDrivesRead, NumbersRead
  <2>2. QED
    BY <2>1 DEF RightRail, Fine, Part
<1>6. \A q \in queries : Fine(db, "/analytics", DrilldownDrawer(user, db, q))
  <2>1. \A q \in queries : ReadFine("/analytics", Read(useDrilldown(user, db, q), {}))
    BY <1>1, <1>2, DrilldownRead, NumbersRead
  <2>2. QED
    BY <2>1 DEF DrilldownDrawer, Fine, Part
<1>7. IsTpo(user) => Fine(db, "/analytics", BranchTable(user, db))
  <2>1. IsTpo(user) =>
          \A d : ReadFine("/analytics",
                   Read(useSummary(user, db, [batchId |-> "latest", departmentId |-> d]), {}))
    BY StaffAsk, SummaryRead, NumbersRead DEF IsTpo, Office
  <2>2. QED
    BY <2>1 DEF BranchTable, useBranchSummaries, Fine, Part
<1>8. \A p \in parts : Fine(db, "/analytics", p)
  <2> HIDE DEF numbers, queries
  <2>1. QED
    BY <1>4, <1>5, <1>6, <1>7 DEF Only
<1>9. QED
  BY <1>8, AllFine DEF StaffAnalytics

LEMMA AnalyticsPageFine ==
  ASSUME NEW db, Signed(db)
  PROVE  Fine(db, "/analytics", AnalyticsPage(user, db))
<1>1. ReadFine("/analytics", Read(useSummary(user, db, Whole(user)), {}))
  BY StaffAsk, SummaryRead, NumbersRead
<1>2. Fine(db, "/analytics", Part({Read(useSummary(user, db, Whole(user)), {})}, {}))
  BY <1>1 DEF Fine, Part
<1>3. QED
  BY <1>2, StaffAnalyticsFine DEF AnalyticsPage

LEMMA ReportStudioPageFine ==
  ASSUME NEW db, Signed(db), user.role \in Staff
  PROVE  Fine(db, "/reports", ReportStudioPage(user, db))
<1>1. user.role # "RECRUITER" /\ (user.role \in Office \/ user.role = "FACULTY_COORD")
  BY DEF Staff, Office
<1>2. /\ ReadFine("/reports", Read(useFilterOptions(user, db), {}))
      /\ ReadFine("/reports", Read(useSummary(user, db, Whole(user)), {}))
      /\ ReadFine("/reports", Read(useYoy(user, db, Whole(user)), {}))
  BY <1>1, StaffAsk, FilterOptionsRead, SummaryRead, YoyRead, NumbersRead
<1>3. \A d : ReadFine("/reports",
               Read(useSummary(user, db, [batchId |-> "latest", departmentId |-> d]), {}))
  BY <1>1, StaffAsk, SummaryRead, NumbersRead
<1>4. QED
  BY <1>2, <1>3 DEF ReportStudioPage, useBranchSummaries, Only, Fine, Part

(* resume/page.tsx *)

LEMMA ResumeStudioPageFine ==
  ASSUME NEW db, Signed(db), user.role = "STUDENT"
  PROVE  Fine(db, "/resume", ResumeStudioPage(user, db))
<1>1. /\ ReadFine("/resume", Read(useStudents(user, db, None), {"links"}))
      /\ ReadFine("/resume", Read(useCompanies(user, db), {"company"}))
      /\ ReadFine("/resume", Read(useDrives(user, db, None), {"drive"}))
      /\ ReadFine("/resume", Read(useApplications(user, db), {"application"}))
  BY StudentsRead, ApplicationsRead, DrivesRead, CompaniesRead, PlainRead DEF MayShow
<1>2. ReadFine("/resume", Read(useMyResume(user, db), {"resume"}))
  BY ResumeRead
<1>3. /\ SendFine(db, "/resume", useUpdateMyResume(user, db))
      /\ SendFine(db, "/resume", useUpdateMyLinks(user, db))
  BY StudentSends
<1>4. QED
  BY <1>1, <1>2, <1>3 DEF ResumeStudioPage, Only, Fine, Part

(* Who is given a link to which page.                                      *)
LEMMA LinkedRoles ==
  ASSUME Caller, NEW href \in Linked
  PROVE  /\ href \in {"/dashboard", "/students", "/companies", "/policy", "/applications",
                      "/offers", "/reports", "/analytics", "/resume", "/mentors"}
         /\ href \in {"/students", "/mentors"} => user.role # "RECRUITER"
         /\ href = "/policy" => user.role \in Office
         /\ href = "/applications" => user.role \in {"TPO", "FACULTY_COORD", "STUDENT"}
         /\ href = "/reports" => user.role \in Staff
         /\ href = "/resume" => user.role = "STUDENT"
<1>1. \/ href \in DOMAIN NAV_ITEMS /\ user.role \in NAV_ITEMS[href]
      \/ href \in DOMAIN QUICK_LINKS /\ user.role \in QUICK_LINKS[href]
  BY DEF Linked, commands, visibleItems, visibleLinks, LinksFor
<1>2. CASE href \in DOMAIN NAV_ITEMS /\ user.role \in NAV_ITEMS[href]
  <2>1. href \in {"/dashboard", "/students", "/companies", "/policy", "/applications",
                  "/offers", "/reports", "/analytics", "/resume", "/mentors"}
    BY <1>2 DEF NAV_ITEMS
  <2>2. QED
    BY <1>2, <2>1 DEF NAV_ITEMS, Office, Staff, Everyone, Role
<1>3. CASE href \in DOMAIN QUICK_LINKS /\ user.role \in QUICK_LINKS[href]
  <2>1. href \in {"/students", "/companies", "/policy", "/applications", "/offers", "/reports",
                  "/analytics"}
    BY <1>3 DEF QUICK_LINKS
  <2>2. QED
    BY <1>3, <2>1 DEF QUICK_LINKS, Office, Staff, Everyone, Role
<1>4. QED
  BY <1>1, <1>2, <1>3

LEMMA PageFine ==
  ASSUME NEW db, Signed(db), NEW href \in Linked
  PROVE  Fine(db, href, Page(user, db, href))
<1>1. Caller
  BY DEF Signed
<1>2. CASE href = "/dashboard"
  BY <1>2, DashboardFine DEF Page
<1>3. CASE href = "/students"
  BY <1>1, <1>3, LinkedRoles, StudentsPageFine DEF Page
<1>4. CASE href = "/companies"
  BY <1>4, CompaniesPageFine DEF Page
<1>5. CASE href = "/policy"
  BY <1>1, <1>5, LinkedRoles, PolicyPageFine DEF Page
<1>6. CASE href = "/applications"
  BY <1>1, <1>6, LinkedRoles, ApplicationsPageFine DEF Page
<1>7. CASE href = "/offers"
  BY <1>7, OffersPageFine DEF Page
<1>8. CASE href = "/analytics"
  BY <1>8, AnalyticsPageFine DEF Page
<1>9. CASE href = "/reports"
  BY <1>1, <1>9, LinkedRoles, ReportStudioPageFine DEF Page
<1>10. CASE href = "/resume"
  BY <1>1, <1>10, LinkedRoles, ResumeStudioPageFine DEF Page
<1>11. CASE href = "/mentors"
  BY <1>1, <1>11, LinkedRoles, MentorConnectPageFine DEF Page
<1>12. QED
  BY <1>1, <1>2, <1>3, <1>4, <1>5, <1>6, <1>7, <1>8, <1>9, <1>10, <1>11, LinkedRoles

(* On every page a signed-in user has a link to, whatever the tenant's     *)
(* tables hold: every query is answered, with the department it asked for, *)
(* and a mutation refreshes every query that shows what it wrote; every    *)
(* button is for a request the API accepts, but for the exceptions named in*)
(* PageAccepted, and on the home page where its preview looks at all of the*)
(* criteria (navigation.ts:24, the pages of app/(dashboard), the hooks of  *)
(* lib and the guards and row checks of the API).                          *)
THEOREM EveryPage ==
  ASSUME NEW db, Signed(db), NEW href \in Linked
  PROVE  /\ PageAnswered(db, href)
         /\ PageRefreshed(db, href)
         /\ href # "/dashboard" \/ Previewed(db) => PageAccepted(db, href)
<1> DEFINE page == Page(user, db, href)
<1>1. /\ \A r \in page.reads : ReadFine(href, r)
      /\ \A m \in page.sends : SendFine(db, href, m)
  BY PageFine DEF Fine
<1> HIDE DEF page
<1>2. \A r \in page.reads : Answered(href, r.query) /\ ReadKeyed(href, r)
  BY <1>1 DEF ReadFine
<1>3. \A m \in page.sends :
        /\ SendKeyed(href, m)
        /\ Accepted(db, href, m) \/ (href = "/dashboard" /\ ~Previewed(db))
  BY <1>1 DEF SendFine
<1>4. PageAnswered(db, href)
  BY <1>2 DEF PageAnswered, Answered, page
<1>5. PageRefreshed(db, href)
  <2>1. \A m \in page.sends, r \in page.reads :
          m.writes \cap r.shows # {} =>
            \E k \in m.invalidates : Seqs!IsPrefix(k, r.query.key)
    BY <1>2, <1>3, KeyedRefreshes
  <2>2. QED
    BY <2>1 DEF PageRefreshed, page
<1>6. href # "/dashboard" \/ Previewed(db) => PageAccepted(db, href)
  BY <1>3 DEF PageAccepted, Accepted, page
<1>7. QED
  BY <1>4, <1>5, <1>6

(* The worlds of MCRules are such tenants.                                 *)
LEMMA WorldSigned ==
  ASSUME Inv, SignedIn, NEW db \in Worlds
  PROVE  Signed(db) /\ Previewed(db)
<1>1. PICK a, o : db = World(a, o)
  BY DEF Worlds
<1> DEFINE students == {StudentOf("ana", "CSE", "UNPLACED", 2),
                        StudentOf("ben", "ECE", "PLACED", 3),
                        StudentOf("cal", "CSE", "DEBARRED", Missing)}
           drives == {DriveOf(c, s) : c \in {"acme", "bolt"},
                        s \in {"DRAFT", "SCHEDULED", "ONGOING", "COMPLETED", "CANCELLED"}}
<1>2. db.students = students /\ db.drives = drives /\ db.criteria = <<>>
  BY <1>1 DEF World
<1> HIDE DEF students, drives
<1>3. /\ \A s \in students : s.userId \in {"ana", "ben", "cal"}
      /\ \A name \in {"ana", "ben", "cal"} : \E s \in students : s.userId = name
      /\ \A s, t \in students : s.userId = t.userId => s = t
  BY DEF students, StudentOf
<1>4. Signed(db)
  <2>1. Caller /\ user.sub # None /\ user.departmentId # "__none__"
    BY CallerHolds DEF SignedIn
  <2>2. QED
    BY <1>2, <1>3, <2>1 DEF Signed, SignedIn
<1>5. \A d \in drives :
        /\ DOMAIN d.minCriteria \subseteq {"minCgpa", "maxActiveBacklogs"}
        /\ "minCgpa" \in DOMAIN d.minCriteria => d.minCriteria["minCgpa"] \in Nat \ {0}
  BY DEF drives, DriveOf
<1>6. Previewed(db)
  BY <1>2, <1>3, <1>5 DEF Previewed
<1>7. QED
  BY <1>4, <1>6

(* PagesAnswered in every state of MCRules: no page shows its user an      *)
(* error (navigation.ts:24, permissions.guard.ts).                         *)
THEOREM PagesAnswer == Spec => []PagesAnswered
<1>1. Inv => PagesAnswered
  BY WorldSigned, EveryPage DEF PagesAnswered
<1>2. QED
  BY <1>1, Invariance, PTL

(* ButtonsAccepted in every state of MCRules: no button is offered for a   *)
(* request the API refuses, the exceptions apart.                          *)
THEOREM ButtonsWork == Spec => []ButtonsAccepted
<1>1. Inv => ButtonsAccepted
  BY WorldSigned, EveryPage DEF ButtonsAccepted
<1>2. QED
  BY <1>1, Invariance, PTL

(* MutationsRefresh in every state of MCRules: no page still shows what a  *)
(* mutation sent from it has changed.                                      *)
THEOREM PagesRefresh == Spec => []MutationsRefresh
<1>1. Inv => MutationsRefresh
  BY WorldSigned, EveryPage DEF MutationsRefresh
<1>2. QED
  BY <1>1, Invariance, PTL
=============================================================================

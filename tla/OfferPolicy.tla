---------------------------- MODULE OfferPolicy ----------------------------
(***************************************************************************)
(* The pure offer rules: apps/api/src/modules/offers/offer-eligibility.    *)
(* util.ts (may this offer be extended or accepted?) and the classification*)
(* of slab.service.ts (which tier does a CTC fall in?).                    *)
(*                                                                         *)
(* Data abstraction.  A policy that is not configured (null in the code)   *)
(* is NoPolicy, an offer that could not be classified (slab null) has the  *)
(* slab NoSlab.  An OFFER_CAP policy is "ONE_PER_TIER" or "ONE_TOTAL" (its *)
(* only field, oneOfferPerSlabTier, true or false); a RE_ELIGIBILITY policy*)
(* is the set of upward transitions its three flags allow.  The rules look *)
(* only at whether some existing offer has a slab and a status, so the list*)
(* of existing offers is a set of [slab, status] records.                  *)
(***************************************************************************)
EXTENDS Integers

CONSTANT NoPolicy

Slab == {"NON_DREAM", "SUPER_DREAM", "DREAM"}
NoSlab == "null"
SlabOrNull == Slab \cup {NoSlab}

OfferStatus == {"PENDING", "EXTENDED", "ACCEPTED", "REJECTED", "REVOKED"}
Active == {"EXTENDED", "ACCEPTED"}

ExistingOffer == [slab : SlabOrNull, status : OfferStatus]

(* Rank of a tier; an unclassified accepted offer ranks below all tiers.   *)
SlabRank(slab) ==
  CASE slab = "DREAM" -> 2
    [] slab = "SUPER_DREAM" -> 1
    [] slab = "NON_DREAM" -> 0
    [] OTHER -> -1

(* The three transitions a RE_ELIGIBILITY policy has a flag for.           *)
Upward == { <<"NON_DREAM", "SUPER_DREAM">>,
            <<"NON_DREAM", "DREAM">>,
            <<"SUPER_DREAM", "DREAM">> }

OfferCap == {"ONE_PER_TIER", "ONE_TOTAL"}

EffectiveCap(capPolicy) ==
  IF capPolicy = NoPolicy THEN "ONE_PER_TIER" ELSE capPolicy

EffectiveReEligibility(reEligibilityPolicy) ==
  IF reEligibilityPolicy = NoPolicy THEN Upward ELSE reEligibilityPolicy

isUpwardTransitionAllowed(from, to, policy) ==
  <<from, to>> \in Upward \cap policy

(* Gate 1: the active offers leave room under the cap.                     *)
CapAllows(proposedSlab, existing, capPolicy) ==
  LET active == {o \in existing : o.status \in Active}
  IN  IF EffectiveCap(capPolicy) = "ONE_PER_TIER"
        THEN proposedSlab # NoSlab => \A o \in active : o.slab # proposedSlab
        ELSE active = {}

(* Mutant: the proposal is compared with some accepted offer, not the top. *)
ReEligibilityAgainstAny(proposedSlab, existing, reEligibilityPolicy) ==
  \/ proposedSlab = NoSlab
  \/ \A o \in existing : o.status # "ACCEPTED"
  \/ \E o \in existing :
       /\ o.status = "ACCEPTED"
       /\ isUpwardTransitionAllowed(o.slab, proposedSlab,
            EffectiveReEligibility(reEligibilityPolicy))

(* Gate 2: the proposal clears the highest tier accepted so far.           *)
ReEligibilityAllows(proposedSlab, existing, reEligibilityPolicy) ==
  LET accepted == {o \in existing : o.status = "ACCEPTED"}
  IN  \/ accepted = {}
      \/ proposedSlab = NoSlab
      \/ \E highest \in accepted :
           /\ \A o \in accepted : SlabRank(o.slab) <= SlabRank(highest.slab)
           /\ SlabRank(proposedSlab) > SlabRank(highest.slab)
           /\ isUpwardTransitionAllowed(highest.slab, proposedSlab,
                 EffectiveReEligibility(reEligibilityPolicy))

checkOfferEligibility(proposedSlab, existing, capPolicy, reEligibilityPolicy) ==
  /\ CapAllows(proposedSlab, existing, capPolicy)
  /\ ReEligibilityAllows(proposedSlab, existing, reEligibilityPolicy)

-----------------------------------------------------------------------------

(* A SLAB_DEFINITION is NoPolicy or [superDreamMinCtc, dreamMinCtc]; the   *)
(* schema refuses one whose dreamMinCtc is below its superDreamMinCtc.     *)
ValidSlabDefinition(definition) ==
  /\ definition.superDreamMinCtc > 0
  /\ definition.dreamMinCtc >= definition.superDreamMinCtc

classifySlab(ctcLpa, definition) ==
  CASE definition = NoPolicy -> NoSlab
    [] OTHER -> IF ctcLpa >= definition.dreamMinCtc THEN "DREAM"
                ELSE IF ctcLpa >= definition.superDreamMinCtc
                       THEN "SUPER_DREAM" ELSE "NON_DREAM"

(* A DEBAR_RULE.  A maxRejectionsBeforeDebar of 0 stands for the absent    *)
(* field (the schema requires at least 1), for which the code takes 1.     *)
DebarPolicy(maxima) == [debarOnOfferRejection : BOOLEAN,
                        maxRejectionsBeforeDebar : maxima]

Debars(rejectionCount, debarPolicy) ==
  /\ debarPolicy # NoPolicy
  /\ debarPolicy.debarOnOfferRejection
  /\ rejectionCount >= IF debarPolicy.maxRejectionsBeforeDebar = 0
                         THEN 1 ELSE debarPolicy.maxRejectionsBeforeDebar
=============================================================================

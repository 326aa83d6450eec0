------------------------------ MODULE MCOffers ------------------------------
(***************************************************************************)
(* Constants for the runs of Offers.                                       *)
(***************************************************************************)
EXTENDS Offers, TLC

(* Nothing configured at first, then the strict cap, no upgrades, and      *)
(* debarring at the first rejection may be activated.                      *)
MCCapPolicies == {NoPolicy, "ONE_TOTAL"}
MCReEligibility == {NoPolicy, {<<"NON_DREAM", "DREAM">>}}
MCDebarPolicies ==
  {NoPolicy, [debarOnOfferRejection |-> TRUE, maxRejectionsBeforeDebar |-> 0]}

MCDefaultOnly == {NoPolicy}
MCStrictOnly == {"ONE_TOTAL"}

Symmetry == Permutations(Student) \cup Permutations(Offer) \cup Permutations(Request)
=============================================================================

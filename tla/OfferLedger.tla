---------------------------- MODULE OfferLedger ----------------------------
(***************************************************************************)
(* What the offer handlers promise together: one book per student, in which*)
(* a tier is held by one offer at a time, an accepted offer is topped only *)
(* by a higher one, and nobody with an accepted offer counts as unplaced.  *)
(* Every operation is one step.  Offers implements it with transactions of *)
(* several steps, on rows another transaction may have written since they  *)
(* were read; a write on such a reading shows here as a step on the offer's*)
(* own line (an accepted offer that is extended again, a released one that *)
(* is accepted), never as a second holder of a tier.                       *)
(***************************************************************************)
CONSTANTS Student, Offer, Tier,
          Untiered,             \* the tier without a limit
          Below                 \* pairs of tiers, lower first

VARIABLES held,                 \* the extended and accepted offers of a student's tier
          accepted,             \* the accepted offers
          unplaced              \* the students that count as unplaced

vars == <<held, accepted, unplaced>>

Init ==
  /\ held = [x \in Student \X Tier |-> {}]
  /\ accepted = {}
  /\ unplaced = Student

(* The tier is free, or held by this very offer.                           *)
Holds(s, k, o) ==
  /\ k # Untiered => held[<<s, k>>] \subseteq {o}
  /\ held' = [held EXCEPT ![<<s, k>>] = held[<<s, k>>] \cup {o}]

Extend(s, k, o) ==
  /\ Holds(s, k, o)
  /\ accepted' = accepted \ {o}
  /\ UNCHANGED unplaced

Tops(s, k, o) ==
  \A j \in Tier : (held[<<s, j>>] \cap accepted) \ {o} # {} => <<j, k>> \in Below

Accept(s, k, o) ==
  /\ Holds(s, k, o)
  /\ k # Untiered => Tops(s, k, o)
  /\ accepted' = accepted \cup {o}
  /\ unplaced' = unplaced \ {s}

(* Rejected or revoked.  Rejecting may debar the student; only the last    *)
(* accepted offer takes the placement with it.                             *)
Release(s, k, o) ==
  /\ held' = [held EXCEPT ![<<s, k>>] = held[<<s, k>>] \ {o}]
  /\ accepted' = accepted \ {o}
  /\ \/ unplaced' \in {unplaced, unplaced \ {s}}
     \/ /\ \A j \in Tier : held[<<s, j>>] \cap accepted \subseteq {o}
        /\ unplaced' = unplaced \cup {s}

Next ==
  \E s \in Student, k \in Tier, o \in Offer :
    Extend(s, k, o) \/ Accept(s, k, o) \/ Release(s, k, o)

Spec == Init /\ [][Next]_vars
=============================================================================

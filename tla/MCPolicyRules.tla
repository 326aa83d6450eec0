---------------------------- MODULE MCPolicyRules ----------------------------
(* Four versions in two families, two requests activating at a time.       *)
EXTENDS PolicyRules, TLC

CONSTANTS q1, q2, q3, q4, f1, f2, r1, r2

MCRule == {q1, q2, q3, q4}
MCFamily == {f1, f2}
MCRequest == {r1, r2}

(* Rules, families and requests are interchangeable; no liveness is        *)
(* checked.                                                                *)
Symmetry ==
  Permutations(MCRule) \cup Permutations(MCFamily) \cup Permutations(MCRequest)
=============================================================================

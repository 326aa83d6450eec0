--------------------------- MODULE MCApplications ---------------------------
(* One student, one drive with up to two rounds, one or two requests at a  *)
(* time.                                                                   *)
EXTENDS Applications

CONSTANTS s1, d1, r1, r2

OneStudent == {s1}
OneDrive == {d1}
OneRequest == {r1}
TwoRequests == {r1, r2}

(* Positions need not be consecutive.                                      *)
Positions == {1, 3}

(* One status of each kind the code tells apart: draft, open, closed.      *)
Statuses == {"DRAFT", "ONGOING", "COMPLETED"}
=============================================================================

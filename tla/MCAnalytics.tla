---------------------------- MODULE MCAnalytics ----------------------------
(***************************************************************************)
(* One student, hence two rows to recompute, the batch's and her           *)
(* department's, and two workers; what a scope covers is left to MCRules.  *)
(***************************************************************************)
EXTENDS Analytics

MCDepartmentOf == [s \in Student |-> "CSE"]
=============================================================================

---------------------------- MODULE MCRepairIntake ----------------------------
(* Small instances of RepairIntake.                                        *)
EXTENDS RepairIntake, TLC

CONSTANTS q1, q2, d1, d2, k1, k2, t1, t2, e1, e2, e3, e4

(* A draft of a tenant, and one of none.                                   *)
MCDraftTenant == [d \in Drafts |-> IF d = d1 THEN t1 ELSE None]

(* New ids are fresh, the requests are alike: it does not matter which is  *)
(* which.                                                                  *)
Symmetry == Permutations(CaseIds) \cup Permutations(Requests) \cup Permutations(Keys)
===============================================================================

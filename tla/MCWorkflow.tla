------------------------------- MODULE MCWorkflow -------------------------------
(* Small instances of Workflow.                                            *)
EXTENDS Workflow, TLC

CONSTANTS c1, s1, s2, s3, x1, x2

Path == {"submitted", "reviewing", "accepted"}

(* A new case, and one whose field service is done.                        *)
MCInitialCases ==
  {[status |-> "draft", stamps |-> {}], [status |-> "completed", stamps |-> Path \cup {"completed"}]}

(* Create or note, approve: an amount of half a cent.                      *)
MCBillingInputs ==
  {[status |-> status, total |-> Omitted,
    amounts |-> [k \in Columns |-> IF k \in {"labor", "charge"} THEN 1 ELSE Omitted]] :
     status \in {"null", "approved"}}

(* Submit or complete, reject.                                             *)
MCSettlementInputs ==
  {[amount |-> 1, status |-> status] : status \in {"null", "rejected"}}

Symmetry == Permutations(Sessions) \cup Permutations(Settlements)
===============================================================================

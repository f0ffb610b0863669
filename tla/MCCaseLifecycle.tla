---------------------------- MODULE MCCaseLifecycle ----------------------------
(* Small instances of CaseLifecycle: one case from its draft on.           *)
EXTENDS CaseLifecycle, TLC

CONSTANTS c1, s1, s2, a1, a2, noAppt, p1, x1, u1, u2, e1

MCInitialCases == {[status |-> "draft", stamps |-> {}]}
MCServedCases == {[status |-> "on_site", stamps |-> {"submitted", "reviewing", "accepted"}],
                  [status |-> "assigned", stamps |-> {"submitted", "reviewing", "accepted"}]}

MCCreateVisits == {"null"}

Patch(status, visit, moved) == [status |-> status, visit |-> visit, moved |-> moved]

(* Finish a visit, move one.                                               *)
MCFewPatches == {Patch("null", "completed", FALSE), Patch("null", "null", TRUE)}

(* ... and cancel one, call a visit completed without its result.          *)
MCPatchInputs ==
  MCFewPatches \cup {Patch("cancelled", "null", FALSE), Patch("completed", "null", FALSE)}

MCReportInputs == {[status |-> "pending_parts", sets |-> FALSE, final |-> noAppt]}

(* Plan a part, replace it.                                                *)
MCFewParts == {"null"}
MCPartInputs == MCFewParts \cup {"replaced"}

Body(status, amounts) ==
  [status |-> status, total |-> Omitted,
   amounts |-> [k \in Columns |-> IF k \in DOMAIN amounts THEN amounts[k] ELSE Omitted]]

(* A record that is approved at once, all its amounts half a cent.         *)
MCFewBillings == {Body("approved", [k \in Columns \ {"additional"} |-> 1])}
(* Its labour and its charge raised, and the charge alone, too far.        *)
MCBillingInputs ==
  MCFewBillings \cup {Body("null", [k \in {"labor", "charge"} |-> 9]),
                      Body("null", [k \in {"charge"} |-> 40])}

MCSettlementInputs == {[amount |-> 1, status |-> "null"]}

(* A unit, then an engineer; or another unit with an engineer.             *)
MCFewDispatches == {[unit |-> u1, engineer |-> "null"], [unit |-> "null", engineer |-> e1]}
MCDispatchInputs == {[unit |-> u1, engineer |-> "null"], [unit |-> u2, engineer |-> e1]}
===============================================================================

---------------------------- MODULE MCServiceReports ----------------------------
(* Small instances of ServiceReports.                                      *)
EXTENDS ServiceReports, TLC

CONSTANTS c1, c2, a1, a2, s1, s2, noAppt

MCInitialCases == [status : {"assigned"}, stamps : {{"submitted", "reviewing", "accepted"}}]

(* Finish a visit, cancel it, end it without a repair.                     *)
MCPatchInputs ==
  {[status |-> "null", visit |-> "completed", moved |-> FALSE],
   [status |-> "cancelled", visit |-> "no_show", moved |-> FALSE]}

MCCreateVisits == {"null"}

(* Wait for parts, clear the final appointment, name one.                  *)
MCReportInputs ==
  {[status |-> "pending_parts", sets |-> FALSE, final |-> noAppt],
   [status |-> "null", sets |-> TRUE, final |-> noAppt],
   [status |-> "null", sets |-> TRUE, final |-> a1]}

Symmetry == Permutations(Sessions) \cup Permutations(Cases)
===============================================================================

----------------------------- MODULE MCAppointments -----------------------------
(* Small instances of Appointments.                                        *)
EXTENDS Appointments, TLC

CONSTANTS c1, a1, a2, a3, s1, s2

MCInitialCases == [status : {"accepted", "assigned"}, stamps : {{"submitted", "reviewing", "accepted"}}]

(* No visit result, a final one and one that asks for a second visit.      *)
MCVisits == {"null", "completed", "pending_parts"}

MCPatchInputs ==
  [status : {"null", "scheduled", "cancelled", "completed"},
   visit : MCVisits, moved : BOOLEAN]

Symmetry == Permutations(Appointments) \cup Permutations(Sessions)
===============================================================================

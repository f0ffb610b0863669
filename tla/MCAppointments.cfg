CONSTANTS
  c1 = c1
  a1 = a1
  a2 = a2
  a3 = a3
  s1 = s1
  s2 = s2
  Cases = {c1}
  Sessions = {s1, s2}
  Appointments = {a1, a2, a3}
  InitialCases <- MCInitialCases
  CreateVisits <- MCVisits
  PatchInputs <- MCPatchInputs
SPECIFICATION AppointmentsSpec
INVARIANTS
  OpenAppointmentsBounded
  CompletedHasResult
SYMMETRY Symmetry

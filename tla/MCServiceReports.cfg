CONSTANTS
  c1 = c1
  c2 = c2
  a1 = a1
  a2 = a2
  s1 = s1
  s2 = s2
  noAppt = noAppt
  Cases = {c1, c2}
  Sessions = {s1, s2}
  Appointments = {a1, a2}
  NoAppointment = noAppt
  InitialCases <- MCInitialCases
  CreateVisits <- MCCreateVisits
  PatchInputs <- MCPatchInputs
  ReportInputs <- MCReportInputs
SPECIFICATION ReportsSpec
INVARIANTS
  ReportsTypeOK
  FinalOfSameCase
  CompletionsExclude
  CompletedReportCompletesCase
SYMMETRY Symmetry

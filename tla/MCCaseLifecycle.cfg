SPECIFICATION CaseSpec
CONSTANTS
  c1 = c1  s1 = s1  s2 = s2  a1 = a1  a2 = a2  noAppt = noAppt  p1 = p1  x1 = x1  u1 = u1  u2 = u2  e1 = e1
  Cases = {c1}
  Sessions = {s1}
  Appointments = {a1, a2}
  NoAppointment = noAppt
  Parts = {p1}
  PartInputs <- MCFewParts
  Settlements = {x1}
  Cent = 2
  MaxAssignments = 2
  Units = {u1, u2}
  Engineers = {e1}
  InitialCases <- MCInitialCases
  CreateVisits <- MCCreateVisits
  PatchInputs <- MCPatchInputs
  ReportInputs <- MCReportInputs
  BillingInputs <- MCBillingInputs
  SettlementInputs <- MCSettlementInputs
  DispatchInputs <- MCDispatchInputs
INVARIANTS ClosedHasReport AtMostOneOpen CompletionRecorded ChargeNearTotal TotalNearSum OneDecision SummaryOfLatest
PROPERTIES PartsFrozen ClosedOnce ClosesClean CompletionNamesVisit LifecycleKept

SPECIFICATION CaseSpec
CONSTANTS
  c1 = c1  s1 = s1  s2 = s2  a1 = a1  a2 = a2  noAppt = noAppt  p1 = p1  x1 = x1  u1 = u1  u2 = u2  e1 = e1
  Cases = {c1}
  Sessions = {s1, s2}
  Appointments = {a1}
  NoAppointment = noAppt
  Parts = {p1}
  PartInputs <- MCPartInputs
  Settlements = {}
  Cent = 2
  MaxAssignments = 1
  Units = {u1}
  Engineers = {e1}
  InitialCases <- MCServedCases
  CreateVisits <- MCCreateVisits
  PatchInputs <- MCFewPatches
  ReportInputs <- MCReportInputs
  BillingInputs <- MCFewBillings
  SettlementInputs <- MCSettlementInputs
  DispatchInputs <- MCFewDispatches
INVARIANTS BilledWasServiced
PROPERTIES RemovedStays HistoryKept

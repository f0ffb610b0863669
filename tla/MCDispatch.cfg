SPECIFICATION DispatchSpec
CONSTANTS
  c1 = c1  c2 = c2  s1 = s1  s2 = s2  s3 = s3  u1 = u1  u2 = u2  e1 = e1  e2 = e2
  Cases = {c1}
  Sessions = {s1, s2, s3}
  Units = {u1, u2}
  Engineers = {e1}
  MaxAssignments = 3
  InitialCases <- MCInitialCases
  DispatchInputs <- MCDispatchInputs
SYMMETRY Symmetry
INVARIANTS DispatchTypeOK AssignedHasEngineer CaseUnitAssigned

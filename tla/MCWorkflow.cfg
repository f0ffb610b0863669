SPECIFICATION WorkflowSpec
CONSTANTS
  c1 = c1  s1 = s1  s2 = s2  s3 = s3  x1 = x1  x2 = x2
  Cases = {c1}
  Sessions = {s1, s2, s3}
  Settlements = {x1, x2}
  Cent = 2
  InitialCases <- MCInitialCases
  BillingInputs <- MCBillingInputs
  SettlementInputs <- MCSettlementInputs
SYMMETRY Symmetry
INVARIANTS WorkflowTypeOK DecisionTrail
CHECK_DEADLOCK FALSE

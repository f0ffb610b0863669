SPECIFICATION AIJobsFairSpec
CONSTANTS
  q1 = q1  q2 = q2  q3 = q3  a1 = a1  a2 = a2  c1 = c1  j1 = j1  j2 = j2
  Requests = {q1, q2, q3}
  PoolSize = 2
  Attachments = {a1}
  Cases = {c1}
  CaseOf <- MCCaseOf
  JobIds = {j1, j2}
CHECK_DEADLOCK FALSE
INVARIANT JobsWhole
PROPERTIES DeletedUntouched AIAnswers

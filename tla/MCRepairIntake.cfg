SPECIFICATION IntakeSpec
CONSTANTS
  q1 = q1  q2 = q2  d1 = d1  d2 = d2  k1 = k1  k2 = k2  t1 = t1  t2 = t2
  e1 = e1  e2 = e2  e3 = e3  e4 = e4
  Requests = {q1, q2}
  Drafts = {d1, d2}
  Tenants = {t1, t2}
  DraftTenant <- MCDraftTenant
  Keys = {k1, k2}
  CaseIds = {e1, e2, e3, e4}
SYMMETRY Symmetry
INVARIANTS OneAnswerPerKey AnsweredComplete ConversionsBounded

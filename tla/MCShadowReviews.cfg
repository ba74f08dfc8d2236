SPECIFICATION Spec
CONSTANTS
  Evidence = {e1}
  Models = {m1, m2}
  NoModel = NoModel
  Texts = {x, y}
  NoText = NoText
  Reviewers = {r1, r2}
  NoPage = NoPage
  MaxPending = 1
  MaxJobs = 2
  MaxRestarts = 1
SYMMETRY ShadowSymmetry
INVARIANT VerdictOnShownText
PROPERTY VerdictIsFinal
CHECK_DEADLOCK FALSE

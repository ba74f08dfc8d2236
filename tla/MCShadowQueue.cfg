SPECIFICATION FairSpec
CONSTANTS
  Evidence = {e1, e2}
  Models = {m1}
  NoModel = NoModel
  Texts = {x}
  NoText = NoText
  Reviewers = {}
  NoPage = NoPage
  MaxPending = 2
  MaxJobs = 3
  MaxRestarts = 1
INVARIANTS TypeOK PermitsLostOnlyToShutdown OneJobPerEvidence CachedOnlyWithReason
PROPERTY AcceptedJobSettles
CHECK_DEADLOCK FALSE

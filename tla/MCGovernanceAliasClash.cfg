SPECIFICATION Spec
CONSTANTS
  k1 = k1
  k2 = k2
  author = author
  reviewer = reviewer
  approver = approver
  publisher = publisher
  c1 = c1
  q1 = q1
  q2 = q2
  w1 = w1
  NoActor = NoActor
  Items = {k1, k2}
  Actors = {author, reviewer, approver, publisher}
  Contents = {c1}
  Questions = {}
  Words = {w1}
  MaxTime = 3
  MaxRow = 5
  AuthorOf <- AuthorOfDef
  RolesOf <- RolesOfDef
  Seed <- SeedDef
  SeedVersion <- SeedVersionDef
INVARIANT NoAliasClashInRuntime
VIEW RaceView
CHECK_DEADLOCK FALSE

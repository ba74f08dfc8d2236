SPECIFICATION Spec
CONSTANTS
  k1 = k1
  author = author
  p1 = p1
  p2 = p2
  p3 = p3
  c1 = c1
  c2 = c2
  NoActor = NoActor
  Items = {k1}
  Actors = {author, p1, p2, p3}
  Contents = {c1, c2}
  Questions = {}
  Words = {}
  MaxTime = 2
  MaxRow = 10
  AuthorOf <- AuthorOfDef
  RolesOf <- RolesOfDef
  Seed <- SeedDef
  SeedVersion <- SeedVersionDef
SYMMETRY PeopleSymmetry
INVARIANTS TypeOK SignedTrail ArchiveHoldsReleases
PROPERTIES OnlyDeadlineOrRevocationTakesOffline ImplementsPublicAnswers
CHECK_DEADLOCK FALSE

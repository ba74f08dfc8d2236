SPECIFICATION Spec
CONSTANTS
  p1 = p1
  s1 = s1
  s2 = s2
  Pages = {p1}
  Sessions = {s1, s2}
  FirstOf <- FirstOfDef
  NextOf <- NextOfDef
  MaxTurns = 2
  TtlSeconds = 1
  MaxConversations = 1
  MaxClock = 2
  MaxCalls = 2
  MaxAsked = 2
VIEW WithoutHistory
INVARIANTS TypeOK OnlyAbandonedTurnsOutliveTheirCall TurnsKeptInOrder
CHECK_DEADLOCK FALSE

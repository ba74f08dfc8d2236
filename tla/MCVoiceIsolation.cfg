SPECIFICATION Spec
CONSTANTS
  p1 = p1
  s1 = s1
  s2 = s2
  Pages = {p1}
  Sessions = {s1, s2}
  FirstOf <- FirstOfDef
  NextOf <- NextOfDef
  MaxTurns = 8
  TtlSeconds = 1
  MaxConversations = 2
  MaxClock = 0
  MaxCalls = 2
  MaxAsked = 2
INVARIANT EachCallReadsOnlyItself
CHECK_DEADLOCK FALSE

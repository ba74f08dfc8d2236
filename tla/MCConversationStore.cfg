SPECIFICATION StoreSpec
CONSTANTS
  Sessions = {s1, s2, s3, s4}
  MaxTurns = 2
  TtlSeconds = 2
  MaxConversations = 3
  MaxClock = 5
SYMMETRY SessionSymmetry
INVARIANTS StoreTypeOK OldestUseFirst LiveContextKept
CHECK_DEADLOCK FALSE

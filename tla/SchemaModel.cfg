SPECIFICATION IndexSpec
CHECK_DEADLOCK FALSE
CONSTANTS
  Sessions = {s1, s2}
  Models = {m1}
  MaxCalls = 2
  MaxBuilds = 2
  MaxEvents = 1
  MaxRaces = 0
  MaxAsked = 1
SYMMETRY Symm
INVARIANT ReadyIsCurrent

CONSTANTS MaxRows = 2
          MaxTyped = 1
          MaxViews = 1
          MaxCalls = 4
          MaxRaces = 1
SPECIFICATION FairSpec
CHECK_DEADLOCK FALSE
INVARIANTS
    CopiesAgree
PROPERTIES
    LoadSettles

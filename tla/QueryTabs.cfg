SPECIFICATION Spec
CONSTANTS
  MaxCalls = 3
  MaxResults = 2
CHECK_DEADLOCK FALSE
INVARIANTS
    TabInv
PROPERTIES
    OnlyFailedTouchRevives
    TimerSparesTheScreen
    TabSettles

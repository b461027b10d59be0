SPECIFICATION Spec
CONSTANTS
  Rows = {r1}
  MaxCalls = 5
  MaxTyped = 2
  MaxGaps = 1
CHECK_DEADLOCK FALSE
INVARIANT RefreshedResultIsCurrent

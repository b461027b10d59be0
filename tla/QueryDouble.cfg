SPECIFICATION Spec
CONSTANTS
  MaxCalls = 4
  MaxResults = 1
INVARIANT NoDoubleExecution
CHECK_DEADLOCK FALSE

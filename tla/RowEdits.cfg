SPECIFICATION Spec
CONSTANTS
  Rows = {r1}
  MaxCalls = 6
  MaxTyped = 2
  MaxGaps = 0
CHECK_DEADLOCK FALSE
INVARIANTS
    EditInv
    CopiesAgree
PROPERTIES
    DeferredRunKeepsEdit
    AnalysisEnds

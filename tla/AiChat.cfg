SPECIFICATION ChatSpec
CHECK_DEADLOCK FALSE
CONSTANTS
  Chunks = {c1, c2}
  Memories = {m1}
  Budget = 1
  MaxSends = 2
  MaxContexts = 1
  MaxGaps = 0
INVARIANTS
    ConversationInv
PROPERTIES
    PromptIsComplete
    TurnEnds

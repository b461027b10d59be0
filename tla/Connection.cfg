SPECIFICATION Spec
CHECK_DEADLOCK FALSE
CONSTANTS
  Databases = {d1, d2}
  MaxSelects = 2
  MaxOutages = 1
  MaxReloads = 1
  MaxEvents = 2
INVARIANTS
    DatabasesAgree
    FrontEndFollows
PROPERTIES
    Recovers

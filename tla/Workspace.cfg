CONSTANTS Conns = {c1, c2}
          Names = {a, b}
          NoConn = none
          MaxTabs = 3
          Limit = 1
SYMMETRY Symm
SPECIFICATION WorkSpec
INVARIANTS
    TabsInv
    ScreenIsActive
PROPERTIES
    LimitSparesDirty

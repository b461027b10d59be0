CONSTANTS Conns = {c1}
          Names = {a}
          NoConn = none
          MaxTabs = 2
          Limit = 0
SPECIFICATION WorkSpec
INVARIANTS OnlyVisibleIsActive

\* A re-execution and a run that stores its result meanwhile.
SPECIFICATION Spec
CONSTANTS
    None = None
    Clients = {c1, c2}
    Operations = {"store", "reexecute"}
    MaxRuns = 3
    MaxEdits = 0
    MaxGen = 3
PROPERTIES
    ReexecutionKeepsNewerRun
CHECK_DEADLOCK FALSE

CONSTANTS
    Ids = {a}
    Workers = {w1, w2}
    Main = main
    Ops <- AllOps
    MaxProcesses = 2
    MaxSpawns = 3
    Windows = FALSE
    KillChildrenOnExit = TRUE
    None = None
SPECIFICATION Spec
CHECK_DEADLOCK FALSE
INVARIANT CleanExitEndsChildren

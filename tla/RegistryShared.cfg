CONSTANTS
    Ids = {a}
    Workers = {w1, w2}
    Main = main
    Ops <- StartAndStop
    MaxProcesses = 1
    MaxSpawns = 2
    Windows = TRUE
    KillChildrenOnExit = TRUE
    None = None
SPECIFICATION FairSpec
CHECK_DEADLOCK FALSE
INVARIANTS NoOrphan StopEndsItsChild CleanExitEndsChildren
PROPERTY StopEndsChild

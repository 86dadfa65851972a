CONSTANTS
    Ids = {a, b}
    Workers = {w1, w2}
    Main = main
    Ops <- AllOps
    MaxProcesses = 1
    MaxSpawns = 2
    Windows = FALSE
    KillChildrenOnExit = TRUE
    None = None
SPECIFICATION Spec
CHECK_DEADLOCK FALSE
SYMMETRY Symmetry
INVARIANTS TypeOK LimitOvershoot RegistryBounded
PROPERTIES LiveEntryKept OldestDroppedFirst

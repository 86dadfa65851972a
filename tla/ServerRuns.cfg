CONSTANTS
    Messages = {s, b1, b2}
    Notifications = {b2}
    Silent = {s}
    Batches = {b1, b2}
    BatchSize = 2
    Workers = {w1, w2}
    Main = main
    MaxPending = 2
    Client = {"stall", "break", "interrupt"}
    Starves = TRUE
    None = None
SPECIFICATION FairSpec
CHECK_DEADLOCK FALSE
INVARIANTS PendingExact AnsweredOnce
PROPERTY ServerEnds

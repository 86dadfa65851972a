CONSTANTS
    Messages = {m1, b1}
    Notifications = {}
    Silent = {}
    Batches = {b1}
    BatchSize = 2
    Workers = {w1}
    Main = main
    MaxPending = 2
    Client = {"interrupt"}
    Starves = FALSE
    None = None
    Windows = TRUE
    Kinds = {"piped", "quiet", "away", "gone"}
SPECIFICATION FairCalls
CHECK_DEADLOCK FALSE
INVARIANTS AnsweredEnded TimeoutEndsGroup ExitLeavesNoChild
PROPERTIES PinnedByEscapee EndsUnlessPinned

CONSTANTS
    Readers = {r1, r2}
    Streams = {out, err}
    Sizes = {1, 2}
    TextSizes <- Decoded
    BufferBytes = 2
    Limits = {2}
    MaxSeq = 3
    MaxRestarts = 1
SPECIFICATION Spec
CHECK_DEADLOCK FALSE
SYMMETRY Symmetry
INVARIANTS NoLostWakeup BytesAccount
PROPERTY ImplementsFeed

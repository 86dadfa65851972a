CONSTANTS
    Texts = {a, b, dashed, plused}
    Dashes = {dashed}
    Pluses = {plused}
    MaxFiles = 2
    ScriptLines = 4
    HunkOps = 2
    MoreHunks = 1
    OtherLines = 3
    FileLines = 4
    Corpora = 2
    Contexts = {0, 1, 2, 3}
SPECIFICATION TextSpec
CHECK_DEADLOCK FALSE
INVARIANTS PatchRebuilds ParseRefuses HunksExact FirstHits ContextNear

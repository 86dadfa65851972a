CONSTANTS
    Texts = {a, b}
    Dashes = {}
    Pluses = {}
    MaxFiles = 2
    ScriptLines = 3
    HunkOps = 1
    MoreHunks = 1
    OtherLines = 1
    FileLines = 1
    Corpora = 1
    Contexts = {0, 1}
SPECIFICATION TextSpec
CHECK_DEADLOCK FALSE
INVARIANT PatchApplies

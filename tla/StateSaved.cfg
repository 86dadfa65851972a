CONSTANTS
    Threads = {t1, t2, t3}
    Dirs = {w, d}
    Workspace = w
    Nobody = Nobody
    Faults = {"write", "gone"}
    MaxChanges = 4
SPECIFICATION Spec
SYMMETRY Symmetry
INVARIANTS TypeOK TodosSaved CwdSaved IdsUnique
PROPERTIES TodosForward OtherKeyKept

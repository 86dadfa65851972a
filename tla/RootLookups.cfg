CONSTANTS
    Threads = {t1, t2}
    Dirs = {d, e}
    Roots = {r}
    NoRoot = NoRoot
    TTL = 2
    GitTimeout = 1
SPECIFICATION Spec
SYMMETRY Symmetry
PROPERTY RootFresh

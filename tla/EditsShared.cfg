CONSTANTS
    a = a
    b = b
    c = c
    Threads = {t1, t2}
    Paths = {a, b, c}
    Stripes = {1, 2}
    StripeOf <- Colliding
    Patches <- OneEach
    Free = Free
    MaxWrites = 4
SPECIFICATION Spec
CHECK_DEADLOCK FALSE
SYMMETRY Symmetry
INVARIANTS EditsAreCurrent Disjoint DeadlockFree

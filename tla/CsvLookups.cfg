SPECIFICATION Spec
CONSTANTS
    t1 = t1  t2 = t2  w1 = w1  w2 = w2
    i1 = i1  i2 = i2  i3 = i3  i4 = i4
    None = None  Loop = Loop
    Tokens = {t1, t2}
    Threads = {w1, w2}
    Items = {i1, i2, i3, i4}
    MaxCrashes = 1
SYMMETRY MCSymmetry
INVARIANTS FreshIsExclusive ClearedIsGone
CHECK_DEADLOCK FALSE

SPECIFICATION Spec
CONSTANTS
    t1 = t1
    t2 = t2
    c1 = c1
    c2 = c2
    Threads <- TwoThreads
    Callbacks <- TwoCallbacks
    MaxSets = 4
CHECK_DEADLOCK FALSE
INVARIANTS JsonKeepsGgmlOut

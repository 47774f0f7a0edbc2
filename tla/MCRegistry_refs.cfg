CONSTANTS
    Threads = {t1, t2, t3}
    Objs = {o1, o2}
    NoObj = NoObj
    MaxMsgs = 2
    Scanner = t1
SPECIFICATION Spec
CHECK_DEADLOCK FALSE
SYMMETRY ObjSymmetry
INVARIANT TypeOK
INVARIANT RefcntMatchesHolders

CONSTANTS
    Threads = {t1, t2}
    Objs = {o1, o2}
    NoObj = NoObj
    MaxMsgs = 1
    Scanner = t1
SPECIFICATION Spec
INVARIANT NoLockWaitCycle

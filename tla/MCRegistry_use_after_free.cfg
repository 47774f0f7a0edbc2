CONSTANTS
    Threads = {t1, t2}
    Objs = {o1, o2}
    NoObj = NoObj
    MaxMsgs = 0
    Scanner = t1
SPECIFICATION Spec
INVARIANT NoUseAfterFree

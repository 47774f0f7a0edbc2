CONSTANTS
    MaxPartCnt = 2
    Brokers = {b1}
    NoBroker = NoBroker
    Msgs = {m1}
    RkType = "producer"
    MdErrs = {"NO_ERROR", "UNKNOWN_TOPIC_OR_PART"}
    Threads = {t1}
    MaxClock = 3
    MsgTimeout = 1
    RefreshIntervalMs = 0
    MaxErrQ = 2
SPECIFICATION Spec
CONSTRAINT ErrQBound
PROPERTY EveryMessageReported
PROPERTY FatesRefined

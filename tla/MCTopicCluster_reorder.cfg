CONSTANTS
    MaxPartCnt = 2
    Brokers = {b1}
    NoBroker = NoBroker
    Msgs = {m1}
    RkType = "producer"
    MdErrs = {"NO_ERROR"}
    Threads = {t1, t2}
    MaxClock = 2
    MsgTimeout = 1
    RefreshIntervalMs = 0
    MaxErrQ = 1
SPECIFICATION ClusterSpec
CONSTRAINT ErrQBound
PROPERTY NoPartitionRollback

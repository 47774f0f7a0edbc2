CONSTANTS
    MaxPartCnt = 2
    Brokers = {b1}
    NoBroker = NoBroker
    Msgs = {}
    RkType = "consumer"
    MdErrs = {"NO_ERROR", "UNKNOWN_TOPIC_OR_PART"}
    Threads = {t1, t2}
    MaxClock = 1
    MsgTimeout = 1
    RefreshIntervalMs = 0
    MaxErrQ = 1
SPECIFICATION Spec
CONSTRAINT ErrQBound
PROPERTY RepeatedReplyNoop

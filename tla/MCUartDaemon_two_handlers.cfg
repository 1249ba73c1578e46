CONSTANTS
    Workers = {w1, w2, w3, w4}
    QueueMax = 2
    BufLen = 3
    UartTraffic <- TwoTimes
    PipeTraffic <- Nothing
    StartupTo <- Nothing
    AllocFails = FALSE
    SpuriousWake = FALSE
SPECIFICATION Spec
INVARIANT OneUartHandler
CHECK_DEADLOCK FALSE

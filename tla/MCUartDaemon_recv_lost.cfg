CONSTANTS
    Workers = {w1, w2, w3}
    QueueMax = 2
    BufLen = 2
    UartTraffic <- OneTime
    PipeTraffic <- Nothing
    StartupTo <- Nothing
    AllocFails = FALSE
    SpuriousWake = FALSE
SPECIFICATION FairSpec
PROPERTY ReceivedIsProcessed
CHECK_DEADLOCK FALSE

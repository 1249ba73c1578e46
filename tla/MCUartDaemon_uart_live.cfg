\* Chunks also arrive while the port is out of epoll, and overflow the buffer.
CONSTANTS
    Workers = {w1, w2, w3}
    QueueMax = 2
    BufLen = 2
    UartTraffic <- TwoTimes
    PipeTraffic <- Nothing
    StartupTo <- Nothing
    AllocFails = FALSE
    SpuriousWake = TRUE
SPECIFICATION FairSpec
PROPERTIES UartRearmed UartIsRead
\* Without further traffic the daemon waits for ever.
CHECK_DEADLOCK FALSE

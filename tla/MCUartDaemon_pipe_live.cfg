\* Two writes that together fit the buffer.
CONSTANTS
    Workers = {w1, w2, w3}
    QueueMax = 2
    BufLen = 2
    UartTraffic <- Nothing
    PipeTraffic <- TwoUsb
    StartupTo <- Nothing
    AllocFails = FALSE
    SpuriousWake = TRUE
SPECIFICATION FairSpec
PROPERTIES PipeDrained AwakeDrains
\* Without further traffic the daemon waits for ever.
CHECK_DEADLOCK FALSE

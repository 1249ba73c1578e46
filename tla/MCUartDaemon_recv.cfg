\* Receiving: two pool threads are free for handlers; two chunks overflow the buffer.
CONSTANTS
    Workers = {w1, w2, w3, w4}
    QueueMax = 2
    BufLen = 2
    UartTraffic <- TwoTimes
    PipeTraffic <- OneUsb
    StartupTo <- Nothing
    AllocFails = TRUE
    SpuriousWake = TRUE
SPECIFICATION Spec
SYMMETRY Symmetry
INVARIANTS TypeOK SingleUartReader EachChunkOnce RecvFits
\* Without further traffic the daemon waits for ever.
CHECK_DEADLOCK FALSE

\* Sending: data_process and the start-up job queue messages while a third thread sends.
CONSTANTS
    Workers = {w1, w2, w3, w4}
    QueueMax = 2
    BufLen = 1
    UartTraffic <- Nothing
    PipeTraffic <- TwoUsb
    StartupTo <- ToBoth
    AllocFails = TRUE
    SpuriousWake = TRUE
SPECIFICATION Spec
SYMMETRY Symmetry
INVARIANT SendFifo
\* Without further traffic the daemon waits for ever.
CHECK_DEADLOCK FALSE

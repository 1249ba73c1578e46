\* One client that sends one message and stays connected, then the port.
CONSTANTS
    Workers = {w1, w2, w3}
    QueueMax = 2
    Clients = {c1}
    Listen = Listen
    Uart = Uart
    Pipe = Pipe
    BufLen = 2
    MaxEvents = 3
    AllocFails = FALSE
SPECIFICATION FairSpec
PROPERTY UartIsRead
CHECK_DEADLOCK FALSE
